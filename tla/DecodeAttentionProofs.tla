------------------------- MODULE DecodeAttentionProofs -------------------------
(***************************************************************************)
(* Theorems of DecodeAttention for every grid, number of rows and layers,  *)
(* prompt and number of decode steps.                                      *)
(*                                                                         *)
(* All CTAs of a phase split the same number of keys: the length of a      *)
(* layer stays one behind the step until CTA 0 passes the barrier that     *)
(* closes the layer, and by then every CTA has read it.  The strengthening *)
(* Inv says how far apart CTAs can be and what the lengths are meanwhile.  *)
(* And splitting those keys gives chunks that are not empty, of which only *)
(* the last holds the new key.                                             *)
(*                                                                         *)
(* The exchange of a row's chunks over its two counters needs more: each   *)
(* chunk has a stage, given by where the CTA of its item is, and RowState  *)
(* says what the counters are for the stages of all of them.  RowInv adds  *)
(* what the scratch and the cache hold meanwhile.                          *)
(***************************************************************************)
EXTENDS DecodeAttention, FiniteSetTheorems, TLAPS

(* Division upwards: the quotient times the divisor just covers a.         *)
LEMMA CeilDivCovers ==
  ASSUME NEW a \in Nat \ {0}, NEW b \in Nat \ {0}
  PROVE  /\ CeilDiv(a, b) \in Nat \ {0}
         /\ CeilDiv(a, b) * b >= a
         /\ (CeilDiv(a, b) - 1) * b < a
<1> DEFINE x == a + b - 1
           q == x \div b
<1>1. x \in Nat /\ x >= b
  OBVIOUS
<1>2. q \in Int /\ b * q <= x /\ x < b * (q + 1)
  BY <1>1, SMT
<1>3. q >= 1
  BY <1>1, <1>2, SMT
<1>4. QED
  BY <1>1, <1>2, <1>3, SMT DEF CeilDiv

(* The chunks in use are at most MinChunkKeys, and fewer of MinChunkKeys   *)
(* keys each would be too few.                                             *)
LEMMA InUseBounds ==
  ASSUME NEW n \in Nat \ {0}
  PROVE  /\ InUse(n) \in 1 .. MinChunkKeys
         /\ (InUse(n) - 1) * MinChunkKeys < n
<1>1. MinChunkKeys \in Nat \ {0} /\ Workers \in Nat \ {0} /\ Rows \in Nat \ {0}
  BY SizesAssumption
<1>2. Chunks \in 1 .. MinChunkKeys
  BY ChunksAssumption
<1> DEFINE all == CeilDiv(n, MinChunkKeys)
<1>3. all \in Nat \ {0} /\ (all - 1) * MinChunkKeys < n
  BY <1>1, CeilDivCovers
<1>4. Wave \in Nat \ {0}
  <2>1. Workers \div Rows \in Nat
    BY <1>1, SMT
  <2>2. QED
    BY <2>1 DEF Wave, Most
<1>5. InUse(n) \in 1 .. MinChunkKeys /\ InUse(n) <= all
  <2>1. Least(all, Chunks) \in 1 .. MinChunkKeys /\ Least(all, Chunks) <= all
    BY <1>1, <1>2, <1>3 DEF Least
  <2>2. Least(Least(all, Chunks), Wave) \in 1 .. MinChunkKeys
        /\ Least(Least(all, Chunks), Wave) <= all
    <3> HIDE DEF all
    <3>1. QED
      BY <1>1, <1>3, <1>4, <2>1 DEF Least
  <2>3. QED
    BY <2>1, <2>2 DEF InUse
<1>6. (InUse(n) - 1) * MinChunkKeys <= (all - 1) * MinChunkKeys
  <2> HIDE DEF all
  <2>1. QED
    BY <1>1, <1>3, <1>5, SMT
<1>7. QED
  BY <1>1, <1>3, <1>5, <1>6, SMT

(* The chunks of n keys: none is empty, and the last alone reaches n.  A   *)
(* chunk has at least as many keys as there are chunks, so the rounding of *)
(* ChunkKeys, which is less than one key a chunk, never uses up the last.  *)
LEMMA ChunksPartition ==
  ASSUME NEW n \in Nat \ {0}, NEW k \in 0 .. InUse(n) - 1
  PROVE  /\ Start(k, n) < Stop(k, n)
         /\ Stop(k, n) = n <=> k = InUse(n) - 1
<1> DEFINE u == InUse(n)
           q == ChunkKeys(n)
<1>1. MinChunkKeys \in Nat /\ u \in 1 .. MinChunkKeys /\ (u - 1) * MinChunkKeys < n
  BY InUseBounds, SizesAssumption
<1>2. q \in Nat \ {0} /\ q * u >= n /\ (q - 1) * u < n
  BY <1>1, CeilDivCovers DEF ChunkKeys
<1>3. k \in Nat /\ k <= u - 1
  BY <1>1
<1>4. Start(k, n) = k * q /\ Stop(k, n) = IF k * q + q <= n THEN k * q + q ELSE n
  BY DEF Start, Stop, Least
<1> HIDE DEF u, q
<1>5. (u - 1) * u < n
  <2>1. (u - 1) * u <= (u - 1) * MinChunkKeys
    BY <1>1, SMT
  <2>2. QED
    BY <1>1, <2>1, SMT
<1>6. q >= u
  <2>1. SUFFICES ASSUME q <= u - 1 PROVE FALSE
    BY <1>1, <1>2
  <2>2. q * u <= (u - 1) * u
    BY <1>1, <1>2, <2>1, SMT
  <2>3. QED
    BY <1>1, <1>2, <1>5, <2>2, SMT
<1>7. (u - 1) * q < n
  <2>1. (u - 1) * q = q * u - q /\ (q - 1) * u = q * u - u
    BY <1>1, <1>2, SMT
  <2>2. QED
    BY <1>1, <1>2, <1>6, <2>1, SMT
<1>8. k * q <= (u - 1) * q
  BY <1>1, <1>2, <1>3, SMT
<1>9. k * q < n
  BY <1>1, <1>2, <1>3, <1>7, <1>8, SMT
<1>10. Start(k, n) < Stop(k, n)
  BY <1>2, <1>3, <1>4, <1>9, SMT
<1>11. CASE k = u - 1
  <2>1. k * q + q = q * u
    BY <1>1, <1>2, <1>11, SMT
  <2>2. Stop(k, n) = n
    BY <1>1, <1>2, <1>3, <1>4, <2>1, SMT
  <2>3. QED
    BY <1>10, <1>11, <2>2 DEF u
<1>12. CASE k # u - 1
  <2>1. k + 1 <= u - 1
    BY <1>1, <1>3, <1>12
  <2>2. k * q + q = (k + 1) * q /\ (k + 1) * q <= (u - 1) * q
    BY <1>1, <1>2, <1>3, <2>1, SMT
  <2>3. Stop(k, n) < n
    BY <1>1, <1>2, <1>3, <1>4, <1>7, <2>2, SMT
  <2>4. Stop(k, n) # n
    BY <1>2, <1>3, <1>4, <2>3, SMT
  <2>5. QED
    BY <1>10, <1>12, <2>4 DEF u
<1>13. QED
  BY <1>11, <1>12

-----------------------------------------------------------------------------

(* Where a CTA is between reading a layer's length and the barrier. *)
Body == {"item", "wait", "finish", "sum", "reset_exchange", "reset_finish", "append"}

Types ==
  /\ prompt \in Nat /\ call \in Nat \ {0}
  /\ layer \in [Cta -> 1 .. Layers + 1]
  /\ pc \in [Cta -> Body \cup {"start", "barrier", "advance", "end"}]
  /\ keys \in [Cta -> Nat \ {0}]
  /\ length \in [Layer -> Nat]

EndedBehindLayers == \A c \in Cta : pc[c] = "end" <=> layer[c] = Layers + 1

(* Only a CTA that stands at the barrier of its layer can be behind, and   *)
(* by one layer.  CTA 0 publishes when all others have arrived.            *)
LockStep ==
  \A c, d \in Cta :
    /\ layer[c] <= layer[d] + 1
    /\ layer[d] < layer[c] => pc[d] \in {"barrier", "advance"}
    /\ pc[c] = "advance" =>
         /\ c = 0
         /\ layer[d] >= layer[c]
         /\ layer[d] = layer[c] => pc[d] \in {"barrier", "advance"}

LengthsBehind ==
  \A l \in Layer : length[l] = prompt + call - 1 + (IF layer[0] > l THEN 1 ELSE 0)

KeysOfStep == \A c \in Cta : pc[c] \notin {"start", "end"} => keys[c] = prompt + call

Inv == Types /\ EndedBehindLayers /\ LockStep /\ LengthsBehind /\ KeysOfStep

LEMMA Sizes ==
  /\ Workers \in Nat \ {0} /\ Layers \in Nat \ {0}
  /\ 0 \in Cta /\ Cta \subseteq Nat
  /\ Prompts \subseteq Nat /\ MaxCalls \in Nat
<1>1. Workers \in Nat \ {0} /\ Layers \in Nat \ {0} /\ MaxCalls \in Nat
  BY SizesAssumption
<1>2. 0 \in Cta /\ Cta \subseteq Nat
  BY <1>1 DEF Cta
<1>3. Prompts \subseteq Nat
  BY SizesAssumption
<1>4. QED
  BY <1>1, <1>2, <1>3

(* The first states satisfy the invariant: every CTA starts at layer 1.    *)
LEMMA InvInit == Init => Inv
<1>1. SUFFICES ASSUME Init PROVE Inv
  OBVIOUS
<1>2. Types
  BY <1>1, Sizes DEF Init, Types, Body, Layer
<1>3. EndedBehindLayers
  BY <1>1, Sizes DEF Init, EndedBehindLayers
<1>4. LockStep
  BY <1>1, Sizes DEF Init, LockStep
<1>5. LengthsBehind
  BY <1>1, <1>2, Sizes DEF Init, LengthsBehind, Layer, Types
<1>6. KeysOfStep
  BY <1>1 DEF Init, KeysOfStep
<1>7. QED
  BY <1>2, <1>3, <1>4, <1>5, <1>6 DEF Inv

(* A step inside the body moves one CTA and leaves lengths and layers.     *)
LEMMA BodyStep ==
  ASSUME Inv, NEW c \in Cta, NEW at \in Body \cup {"barrier"},
         pc[c] \in Body, pc' = [pc EXCEPT ![c] = at],
         UNCHANGED <<prompt, call, layer, keys, length>>
  PROVE  Inv'
<1>1. pc' \in [Cta -> Body \cup {"start", "barrier", "advance", "end"}]
  BY DEF Inv, Types
<1>2. pc'[c] = at /\ \A d \in Cta : d # c => pc'[d] = pc[d]
  BY DEF Inv, Types
<1>3. Types'
  BY <1>1 DEF Inv, Types
<1>4. EndedBehindLayers'
  BY <1>2 DEF Inv, EndedBehindLayers, Body
<1>5. LockStep'
  <2>1. SUFFICES ASSUME NEW a \in Cta, NEW b \in Cta
                 PROVE  /\ layer[a] <= layer[b] + 1
                        /\ layer[b] < layer[a] => pc'[b] \in {"barrier", "advance"}
                        /\ pc'[a] = "advance" =>
                             /\ a = 0
                             /\ layer[b] >= layer[a]
                             /\ layer[b] = layer[a] => pc'[b] \in {"barrier", "advance"}
    BY DEF LockStep
  <2>2. pc[c] \notin {"barrier", "advance"} /\ at # "advance"
    BY DEF Body
  <2>3. QED
    BY <1>2, <2>2 DEF Inv, LockStep
<1>6. LengthsBehind'
  BY DEF Inv, LengthsBehind
<1>7. KeysOfStep'
  BY <1>2 DEF Inv, KeysOfStep, Body
<1>8. QED
  BY <1>3, <1>4, <1>5, <1>6, <1>7 DEF Inv

(* CTA c goes on to the next layer: all others have reached its barrier.   *)
LEMMA LayerStep ==
  ASSUME Inv, NEW c \in Cta, pc[c] \in {"barrier", "advance"}, NextLayer(c),
         \A d \in Cta : \/ layer[d] > layer[c]
                        \/ layer[d] = layer[c] /\ pc[d] \in {"barrier", "advance"},
         UNCHANGED <<prompt, call, keys>>, length' \in [Layer -> Nat]
  PROVE  Types' /\ EndedBehindLayers' /\ LockStep' /\ KeysOfStep'
<1>1. layer[c] \in 1 .. Layers
  BY Sizes DEF Inv, Types, EndedBehindLayers
<1>2. /\ layer' = [layer EXCEPT ![c] = layer[c] + 1]
      /\ pc' = [pc EXCEPT ![c] = IF layer[c] = Layers THEN "end" ELSE "start"]
  BY DEF NextLayer, Goto
<1>3. /\ layer'[c] = layer[c] + 1
      /\ pc'[c] = IF layer[c] = Layers THEN "end" ELSE "start"
      /\ \A d \in Cta : d # c => layer'[d] = layer[d] /\ pc'[d] = pc[d]
  BY <1>2 DEF Inv, Types
<1>4. \A d \in Cta : layer[d] \in 1 .. Layers + 1
  BY DEF Inv, Types
<1>5. Types'
  BY <1>1, <1>2, Sizes DEF Inv, Types
<1>6. EndedBehindLayers'
  BY <1>1, <1>3, Sizes DEF Inv, EndedBehindLayers
<1>7. LockStep'
  <2>1. SUFFICES ASSUME NEW a \in Cta, NEW b \in Cta
                 PROVE  /\ layer'[a] <= layer'[b] + 1
                        /\ layer'[b] < layer'[a] => pc'[b] \in {"barrier", "advance"}
                        /\ pc'[a] = "advance" =>
                             /\ a = 0
                             /\ layer'[b] >= layer'[a]
                             /\ layer'[b] = layer'[a] => pc'[b] \in {"barrier", "advance"}
    BY DEF LockStep
  <2>2. CASE a = c /\ b = c
    BY <1>1, <1>3, <2>2, Sizes
  <2>3. CASE a = c /\ b # c
    BY <1>1, <1>3, <1>4, <2>3, Sizes
  <2>4. CASE a # c /\ b = c
    <3>1. layer[a] <= layer[c] + 1
      BY DEF Inv, LockStep
    <3>2. pc[a] = "advance" => a = 0 /\ layer[c] >= layer[a]
      BY DEF Inv, LockStep
    <3>3. QED
      BY <1>1, <1>3, <1>4, <2>4, <3>1, <3>2, Sizes
  <2>5. CASE a # c /\ b # c
    BY <1>3, <2>5 DEF Inv, LockStep
  <2>6. QED
    BY <2>2, <2>3, <2>4, <2>5
<1>8. KeysOfStep'
  BY <1>3 DEF Inv, KeysOfStep
<1>9. QED
  BY <1>5, <1>6, <1>7, <1>8

(* Reading a length: CTA 0 has not passed the barrier of this layer, since *)
(* this CTA has not come to it, so the length is still the step's.         *)
LEMMA ReadStep == ASSUME Inv, NEW c \in Cta, ReadLength(c) PROVE Inv'
<1>1. pc[c] = "start" /\ layer[c] \in Layer
  BY Sizes DEF ReadLength, Inv, Types, EndedBehindLayers, Layer
<1>2. ~ (layer[0] > layer[c])
  BY <1>1, Sizes DEF Inv, LockStep
<1>3. length[layer[c]] + 1 = prompt + call
  BY <1>1, <1>2, Sizes DEF Inv, LengthsBehind, Types
<1>4. /\ keys' = [keys EXCEPT ![c] = prompt + call]
      /\ pc' = [pc EXCEPT ![c] = "item"]
      /\ UNCHANGED <<prompt, call, layer, length>>
  BY <1>3 DEF ReadLength, Goto, kvVars
<1>5. /\ keys'[c] = prompt + call /\ pc'[c] = "item"
      /\ \A d \in Cta : d # c => keys'[d] = keys[d] /\ pc'[d] = pc[d]
  BY <1>4 DEF Inv, Types
<1>6. Types'
  <2>1. prompt + call \in Nat \ {0}
    BY DEF Inv, Types
  <2>2. keys' \in [Cta -> Nat \ {0}]
    BY <1>4, <2>1 DEF Inv, Types
  <2>3. pc' \in [Cta -> Body \cup {"start", "barrier", "advance", "end"}]
    BY <1>4 DEF Inv, Types, Body
  <2>4. QED
    BY <1>4, <2>2, <2>3 DEF Inv, Types
<1>7. EndedBehindLayers'
  BY <1>1, <1>4, <1>5 DEF Inv, EndedBehindLayers
<1>8. LockStep'
  <2>1. SUFFICES ASSUME NEW a \in Cta, NEW b \in Cta
                 PROVE  /\ layer[a] <= layer[b] + 1
                        /\ layer[b] < layer[a] => pc'[b] \in {"barrier", "advance"}
                        /\ pc'[a] = "advance" =>
                             /\ a = 0
                             /\ layer[b] >= layer[a]
                             /\ layer[b] = layer[a] => pc'[b] \in {"barrier", "advance"}
    BY <1>4 DEF LockStep
  <2>2. QED
    BY <1>1, <1>5 DEF Inv, LockStep
<1>9. LengthsBehind'
  BY <1>4 DEF Inv, LengthsBehind
<1>10. KeysOfStep'
  BY <1>4, <1>5 DEF Inv, KeysOfStep
<1>11. QED
  BY <1>6, <1>7, <1>8, <1>9, <1>10 DEF Inv

(* Leaving the barrier: CTA 0 stays in the layer to publish its length.    *)
LEMMA LeaveStep == ASSUME Inv, NEW c \in Cta, LeaveBarrier(c) PROVE Inv'
<1>1. /\ pc[c] = "barrier"
      /\ \A d \in Cta : \/ layer[d] > layer[c]
                        \/ layer[d] = layer[c] /\ pc[d] \in {"barrier", "advance"}
      /\ UNCHANGED <<prompt, call, keys, length>>
  BY DEF LeaveBarrier, kvVars
<1>2. CASE c # 0
  <2>1. NextLayer(c)
    BY <1>2 DEF LeaveBarrier
  <2>2. length' \in [Layer -> Nat]
    BY <1>1 DEF Inv, Types
  <2>3. Types' /\ EndedBehindLayers' /\ LockStep' /\ KeysOfStep'
    BY <1>1, <2>1, <2>2, LayerStep
  <2>4. layer'[0] = layer[0]
    BY <1>2, <2>1, Sizes DEF NextLayer, Inv, Types
  <2>5. LengthsBehind'
    BY <1>1, <2>4 DEF Inv, LengthsBehind
  <2>6. QED
    BY <2>3, <2>5 DEF Inv
<1>3. CASE c = 0
  <2>1. pc' = [pc EXCEPT ![0] = "advance"] /\ layer' = layer
    BY <1>3 DEF LeaveBarrier, Goto
  <2>2. pc'[0] = "advance" /\ \A d \in Cta : d # 0 => pc'[d] = pc[d]
    BY <2>1, Sizes DEF Inv, Types
  <2>3. Types'
    BY <1>1, <2>1, Sizes DEF Inv, Types
  <2>4. EndedBehindLayers'
    BY <1>1, <1>3, <2>1, <2>2 DEF Inv, EndedBehindLayers
  <2>5. LockStep'
    <3>1. SUFFICES ASSUME NEW a \in Cta, NEW b \in Cta
                   PROVE  /\ layer[a] <= layer[b] + 1
                          /\ layer[b] < layer[a] => pc'[b] \in {"barrier", "advance"}
                          /\ pc'[a] = "advance" =>
                               /\ a = 0
                               /\ layer[b] >= layer[a]
                               /\ layer[b] = layer[a] => pc'[b] \in {"barrier", "advance"}
      BY <2>1 DEF LockStep
    <3>2. /\ layer[a] <= layer[b] + 1
          /\ layer[b] < layer[a] => pc'[b] \in {"barrier", "advance"}
      BY <2>2 DEF Inv, LockStep
    <3>3. CASE a = 0
      <4>1. layer[b] > layer[0] \/ (layer[b] = layer[0] /\ pc'[b] \in {"barrier", "advance"})
        BY <1>1, <1>3, <2>2
      <4>2. layer[a] \in Int /\ layer[b] \in Int
        BY DEF Inv, Types
      <4>3. QED
        BY <3>2, <3>3, <4>1, <4>2
    <3>4. CASE a # 0
      BY <2>2, <3>2, <3>4 DEF Inv, LockStep
    <3>5. QED
      BY <3>3, <3>4
  <2>6. LengthsBehind'
    BY <1>1, <2>1 DEF Inv, LengthsBehind
  <2>7. KeysOfStep'
    BY <1>1, <1>3, <2>2 DEF Inv, KeysOfStep
  <2>8. QED
    BY <2>3, <2>4, <2>5, <2>6, <2>7 DEF Inv
<1>4. QED
  BY <1>2, <1>3

(* Publishing a length is CTA 0's step to the next layer.                  *)
LEMMA AdvanceStep == ASSUME Inv, NEW c \in Cta, AdvanceLength(c) PROVE Inv'
<1>1. c = 0 /\ pc[0] = "advance"
  BY DEF AdvanceLength, Inv, LockStep
<1>2. layer[0] \in Layer
  BY <1>1, Sizes DEF Inv, Types, EndedBehindLayers, Layer
<1>3. /\ length' = [length EXCEPT ![layer[0]] = length[layer[0]] + 1]
      /\ NextLayer(0)
      /\ UNCHANGED <<prompt, call, keys>>
  BY <1>1 DEF AdvanceLength
<1>4. \A d \in Cta : \/ layer[d] > layer[0]
                     \/ layer[d] = layer[0] /\ pc[d] \in {"barrier", "advance"}
  <2>1. TAKE d \in Cta
  <2>2. layer[d] \in Int /\ layer[0] \in Int
    BY Sizes DEF Inv, Types
  <2>3. /\ layer[d] >= layer[0]
        /\ layer[d] = layer[0] => pc[d] \in {"barrier", "advance"}
    BY <1>1, Sizes DEF Inv, LockStep
  <2>4. QED
    BY <2>2, <2>3
<1>5. length' \in [Layer -> Nat]
  BY <1>2, <1>3 DEF Inv, Types
<1>6. Types' /\ EndedBehindLayers' /\ LockStep' /\ KeysOfStep'
  BY <1>1, <1>3, <1>4, <1>5, LayerStep, Sizes
<1>7. LengthsBehind'
  <2>1. layer'[0] = layer[0] + 1
    BY <1>3, Sizes DEF NextLayer, Inv, Types
  <2>2. SUFFICES ASSUME NEW l \in Layer
                 PROVE  length'[l] = prompt + call - 1 + (IF layer'[0] > l THEN 1 ELSE 0)
    BY <1>3 DEF LengthsBehind
  <2>3. length[l] = prompt + call - 1 + (IF layer[0] > l THEN 1 ELSE 0)
    BY DEF Inv, LengthsBehind
  <2>4. length'[l] = IF l = layer[0] THEN length[l] + 1 ELSE length[l]
    BY <1>2, <1>3 DEF Inv, Types
  <2>5. l \in Int /\ layer[0] \in Int /\ prompt \in Int /\ call \in Int
    BY <1>2, Sizes DEF Layer, Inv, Types
  <2>6. QED
    BY <2>1, <2>3, <2>4, <2>5
<1>8. QED
  BY <1>6, <1>7 DEF Inv

(* The next step starts when every length has been published.              *)
LEMMA CallStep == ASSUME Inv, NextCall PROVE Inv'
<1>1. /\ \A c \in Cta : pc[c] = "end"
      /\ call' = call + 1
      /\ layer' = [c \in Cta |-> 1]
      /\ pc' = [c \in Cta |-> "start"]
      /\ UNCHANGED <<prompt, keys, length>>
  BY DEF NextCall, KernelEnded, kvVars
<1>2. layer[0] = Layers + 1
  BY <1>1, Sizes DEF Inv, EndedBehindLayers
<1>3. Types'
  BY <1>1, Sizes DEF Inv, Types
<1>4. EndedBehindLayers'
  BY <1>1, Sizes DEF EndedBehindLayers
<1>5. LockStep'
  BY <1>1, Sizes DEF LockStep
<1>6. LengthsBehind'
  <2>1. SUFFICES ASSUME NEW l \in Layer
                 PROVE  length[l] = prompt + (call + 1) - 1 + (IF 1 > l THEN 1 ELSE 0)
    BY <1>1, Sizes DEF LengthsBehind
  <2>2. l \in 1 .. Layers /\ prompt \in Int /\ call \in Int
    BY DEF Layer, Inv, Types
  <2>3. length[l] = prompt + call - 1 + 1
    BY <1>2, <2>2, Sizes DEF Inv, LengthsBehind
  <2>4. QED
    BY <2>2, <2>3
<1>7. KeysOfStep'
  BY <1>1 DEF KeysOfStep
<1>8. QED
  BY <1>3, <1>4, <1>5, <1>6, <1>7 DEF Inv

LEMMA InvStep == Inv /\ [Next]_vars => Inv'
<1>1. SUFFICES ASSUME Inv, [Next]_vars PROVE Inv'
  OBVIOUS
<1>2. CASE UNCHANGED vars
  BY <1>1, <1>2 DEF vars, ctaVars, kvVars, Inv, Types, EndedBehindLayers, LockStep,
     LengthsBehind, KeysOfStep
<1>3. CASE NextCall
  BY <1>1, <1>3, CallStep
<1>4. CASE HostDone
  BY <1>1, <1>2, <1>4 DEF HostDone
<1>5. ASSUME NEW c \in Cta, CtaStep(c) PROVE Inv'
  <2>1. CASE ReadLength(c)
    BY <1>1, <2>1, ReadStep
  <2>2. CASE WholeRow(c)
    BY <1>1, <2>2, BodyStep DEF WholeRow, Goto, kvVars, Body
  <2>3. CASE Publish(c)
    BY <1>1, <2>3, BodyStep DEF Publish, Goto, kvVars, Body
  <2>4. CASE Wait(c)
    BY <1>1, <2>4, BodyStep DEF Wait, Goto, kvVars, Body
  <2>5. CASE Finish(c)
    <3>1. CASE IsLast(c)
      BY <1>1, <2>5, <3>1, BodyStep DEF Finish, Goto, kvVars, Body
    <3>2. CASE ~ IsLast(c)
      BY <1>1, <2>5, <3>2, BodyStep DEF Finish, Goto, kvVars, Body
    <3>3. QED
      BY <3>1, <3>2
  <2>6. CASE Sum(c)
    BY <1>1, <2>6, BodyStep DEF Sum, Goto, kvVars, Body
  <2>7. CASE ResetExchange(c)
    BY <1>1, <2>7, BodyStep DEF ResetExchange, Goto, kvVars, Body
  <2>8. CASE ResetFinish(c)
    BY <1>1, <2>8, BodyStep DEF ResetFinish, Goto, kvVars, Body
  <2>9. CASE Append(c)
    BY <1>1, <2>9, BodyStep DEF Append, Goto, Body
  <2>10. CASE ArriveBarrier(c)
    BY <1>1, <2>10, BodyStep DEF ArriveBarrier, Goto, kvVars, Body
  <2>11. CASE LeaveBarrier(c)
    BY <1>1, <2>11, LeaveStep
  <2>12. CASE AdvanceLength(c)
    BY <1>1, <2>12, AdvanceStep
  <2>13. QED
    BY <1>5, <2>1, <2>2, <2>3, <2>4, <2>5, <2>6, <2>7, <2>8, <2>9, <2>10, <2>11, <2>12
       DEF CtaStep
<1>6. QED
  BY <1>1, <1>2, <1>3, <1>4, <1>5 DEF Next

THEOREM Invariance == Spec => []Inv
<1>1. QED
  BY InvInit, InvStep, PTL DEF Spec

(* All CTAs of a phase split the same number of keys (the length each      *)
(* reads at the start of the attention body), for every grid, number of    *)
(* layers and number of decode steps.                                      *)
THEOREM SameLength == Spec => []OneLength
<1>1. Inv => OneLength
  <2>1. SUFFICES ASSUME Inv, NEW c \in Cta, NEW d \in Cta,
                        {pc[c], pc[d]} \cap {"start", "end"} = {}
                 PROVE  keys[c] = keys[d]
    BY DEF OneLength
  <2>2. pc[c] \notin {"start", "end"} /\ pc[d] \notin {"start", "end"}
    BY <2>1
  <2>3. QED
    BY <2>1, <2>2 DEF Inv, KeysOfStep
<1>2. QED
  BY <1>1, Invariance, PTL

(* The chunks a CTA splits a row into are not empty, and the new key is in *)
(* exactly one of them, for every number of visible keys: it is enough     *)
(* that a chunk is worth at least as many keys as there are chunks.        *)
THEOREM NewKeyCounted == Spec => []NewKeyOnce
<1>1. Inv => NewKeyOnce
  <2>1. SUFFICES ASSUME Inv, NEW c \in Cta, NEW k \in 0 .. InUse(keys[c]) - 1
                 PROVE  /\ Start(k, keys[c]) < Stop(k, keys[c])
                        /\ Stop(k, keys[c]) = keys[c] <=> k = InUse(keys[c]) - 1
    BY DEF NewKeyOnce
  <2>2. keys[c] \in Nat \ {0}
    BY <2>1 DEF Inv, Types
  <2>3. QED
    BY <2>2, ChunksPartition
<1>2. QED
  BY <1>1, Invariance, PTL

-----------------------------------------------------------------------------
(* The exchange of one row, apart from the CTAs that carry it out: what    *)
(* the two counters are, given how far each chunk of the row is.           *)

StageName == {"pending", "wait", "finish", "sum", "reset_exchange", "reset_finish", "done"}

(* Where the chunk that finished last is until it has reset both counters. *)
Closing == {"sum", "reset_exchange", "reset_finish"}

Published(S) == {k \in DOMAIN S : S[k] # "pending"}
Finished(S)  == {k \in DOMAIN S : S[k] \notin {"pending", "wait", "finish"}}

(* All chunks have finished, and the last of them is past these stages.    *)
Ended(S, open) == Finished(S) = DOMAIN S /\ \A k \in DOMAIN S : S[k] \notin open

(* Whoever has passed the wait knows that every chunk has published.       *)
Crossed(S) ==
  \A k \in DOMAIN S : S[k] \notin {"pending", "wait"} => Published(S) = DOMAIN S

OneCloses(S) ==
  \A k \in DOMAIN S : S[k] \in Closing =>
    Finished(S) = DOMAIN S /\ \A j \in DOMAIN S : S[j] \in Closing => j = k

(* Chunks at stages S, the row's counters, and whether it has been written *)
(* in this phase (1) or not (0).                                           *)
RowState(S, exchange, finish, written) ==
  /\ Crossed(S) /\ OneCloses(S)
  /\ exchange = IF Ended(S, {"sum", "reset_exchange"}) THEN 0 ELSE Cardinality(Published(S))
  /\ finish = IF Ended(S, Closing) THEN 0 ELSE Cardinality(Finished(S))
  /\ written = IF Ended(S, {"sum"}) THEN 1 ELSE 0

(* A part of the chunks of a row has as many elements as there are chunks  *)
(* only if it has all of them.                                             *)
LEMMA ChunkSets ==
  ASSUME NEW u \in Nat \ {0}, NEW T \in SUBSET (0 .. u - 1)
  PROVE  /\ IsFiniteSet(T) /\ Cardinality(T) \in 0 .. u
         /\ Cardinality(T) = u <=> T = 0 .. u - 1
         /\ Cardinality(T) = 0 <=> T = {}
<1>1. u \in Nat /\ 0 \in Int /\ u - 1 \in Int
  OBVIOUS
<1>2. IsFiniteSet(0 .. u - 1) /\ Cardinality(0 .. u - 1) = u
  BY <1>1, FS_Interval
<1>3. IsFiniteSet(T) /\ Cardinality(T) <= u /\ (Cardinality(T) = u => T = 0 .. u - 1)
  BY <1>2, FS_Subset
<1>4. Cardinality(T) \in Nat
  BY <1>3, FS_CardinalityType
<1>5. Cardinality(T) = 0 <=> T = {}
  BY <1>3, FS_EmptySet
<1>6. QED
  BY <1>2, <1>3, <1>4, <1>5

(* A row none of whose chunks has begun.                                   *)
LEMMA RowAtStart ==
  ASSUME NEW u \in Nat \ {0}, NEW S \in [0 .. u - 1 -> StageName],
         \A k \in 0 .. u - 1 : S[k] = "pending", NEW ex, NEW fi, NEW wr
  PROVE  RowState(S, ex, fi, wr) <=> ex = 0 /\ fi = 0 /\ wr = 0
<1>1. Published(S) = {} /\ Finished(S) = {} /\ 0 \in DOMAIN S
  BY DEF Published, Finished
<1>2. Cardinality({}) = 0
  BY FS_EmptySet
<1>3. Crossed(S) /\ OneCloses(S)
  BY DEF Crossed, OneCloses, Closing
<1>4. \A open : ~ Ended(S, open)
  BY <1>1 DEF Ended
<1>5. QED
  BY <1>1, <1>2, <1>3, <1>4 DEF RowState

(* A row all of whose chunks are done.                                     *)
LEMMA RowAtEnd ==
  ASSUME NEW u \in Nat \ {0}, NEW S \in [0 .. u - 1 -> StageName],
         \A k \in 0 .. u - 1 : S[k] = "done", NEW ex, NEW fi, NEW wr,
         RowState(S, ex, fi, wr)
  PROVE  ex = 0 /\ fi = 0 /\ wr = 1
<1>1. Finished(S) = DOMAIN S
  BY DEF Finished
<1>2. /\ Ended(S, {"sum"}) /\ Ended(S, {"sum", "reset_exchange"})
      /\ Ended(S, Closing)
  BY <1>1 DEF Ended, Closing
<1>3. QED
  BY <1>2 DEF RowState

(* A row in which nobody is between its arrival and its end.               *)
LEMMA RowAtRest ==
  ASSUME NEW u \in Nat \ {0}, NEW S \in [0 .. u - 1 -> StageName],
         \A k \in 0 .. u - 1 : S[k] \in {"pending", "done"}, NEW ex, NEW fi, NEW wr,
         RowState(S, ex, fi, wr)
  PROVE  ex = 0 /\ fi = 0
<1>1. CASE \A k \in 0 .. u - 1 : S[k] = "pending"
  BY <1>1, RowAtStart
<1>2. CASE \E k \in 0 .. u - 1 : S[k] = "done"
  <2>1. Published(S) = 0 .. u - 1
    BY <1>2 DEF RowState, Crossed
  <2>2. \A k \in 0 .. u - 1 : S[k] = "done"
    BY <2>1 DEF Published
  <2>3. QED
    BY <2>2, RowAtEnd
<1>3. QED
  BY <1>1, <1>2

(* The chunk k publishes its statistics.                                   *)
LEMMA RowPublish ==
  ASSUME NEW u \in Nat \ {0}, NEW S \in [0 .. u - 1 -> StageName], NEW k \in 0 .. u - 1,
         S[k] = "pending", NEW ex, NEW fi, NEW wr, RowState(S, ex, fi, wr)
  PROVE  LET R == [S EXCEPT ![k] = "wait"]
         IN  /\ RowState(R, ex + 1, fi, wr)
             /\ Published(R) = Published(S) \cup {k} /\ Finished(R) = Finished(S)
<1> DEFINE R == [S EXCEPT ![k] = "wait"]
<1>1. DOMAIN R = DOMAIN S /\ R[k] = "wait" /\ \A j \in DOMAIN S : j # k => R[j] = S[j]
  OBVIOUS
<1>2. Published(R) = Published(S) \cup {k} /\ k \notin Published(S)
  BY <1>1 DEF Published
<1>3. Finished(R) = Finished(S) /\ k \notin Finished(S)
  BY <1>1 DEF Finished
<1>4. \A open : ~ Ended(S, open) /\ ~ Ended(R, open)
  BY <1>1, <1>3 DEF Ended
<1>5. Published(S) \in SUBSET (0 .. u - 1)
  BY DEF Published
<1>6. Cardinality(Published(R)) = Cardinality(Published(S)) + 1
  <2>1. IsFiniteSet(Published(S))
    BY <1>5, ChunkSets
  <2>2. Cardinality(Published(S) \cup {k}) = Cardinality(Published(S)) + 1
    BY <1>2, <2>1, FS_AddElement
  <2>3. QED
    BY <1>2, <2>2
<1>7. Published(S) # DOMAIN S
  BY <1>2
<1>8. \A j \in DOMAIN S : S[j] \in {"pending", "wait"}
  BY <1>7 DEF RowState, Crossed
<1>9. Crossed(R)
  BY <1>1, <1>8 DEF Crossed
<1>10. OneCloses(R)
  BY <1>1, <1>8 DEF OneCloses, Closing
<1>11. RowState(R, ex + 1, fi, wr)
  BY <1>3, <1>4, <1>6, <1>9, <1>10 DEF RowState
<1>12. QED
  BY <1>2, <1>3, <1>11

(* The chunk k sees the count of all chunks: all have published.           *)
LEMMA RowWait ==
  ASSUME NEW u \in Nat \ {0}, NEW S \in [0 .. u - 1 -> StageName], NEW k \in 0 .. u - 1,
         S[k] = "wait", NEW ex \in Nat, NEW fi, NEW wr, RowState(S, ex, fi, wr), ex >= u
  PROVE  LET R == [S EXCEPT ![k] = "finish"]
         IN  /\ RowState(R, ex, fi, wr)
             /\ Published(R) = Published(S) /\ Finished(R) = Finished(S)
<1> DEFINE R == [S EXCEPT ![k] = "finish"]
<1>1. DOMAIN R = DOMAIN S /\ R[k] = "finish" /\ \A j \in DOMAIN S : j # k => R[j] = S[j]
  OBVIOUS
<1>2. Published(R) = Published(S)
  BY <1>1 DEF Published
<1>3. Finished(R) = Finished(S) /\ k \notin Finished(S)
  BY <1>1 DEF Finished
<1>4. \A open : ~ Ended(S, open) /\ ~ Ended(R, open)
  BY <1>1, <1>3 DEF Ended
<1>5. Published(S) \in SUBSET (0 .. u - 1)
  BY DEF Published
<1>6. Published(S) = DOMAIN S
  <2>1. ex = Cardinality(Published(S))
    BY <1>4 DEF RowState
  <2>2. Cardinality(Published(S)) \in 0 .. u
    BY <1>5, ChunkSets
  <2>3. Cardinality(Published(S)) = u
    BY <2>1, <2>2
  <2>4. QED
    BY <1>5, <2>3, ChunkSets
<1>7. Crossed(R)
  BY <1>1, <1>2, <1>6 DEF Crossed
<1>8. OneCloses(R)
  BY <1>1, <1>3 DEF RowState, OneCloses, Closing
<1>9. RowState(R, ex, fi, wr)
  BY <1>2, <1>3, <1>4, <1>7, <1>8 DEF RowState
<1>10. QED
  BY <1>2, <1>3, <1>9

(* The stage a chunk finishes to.  It is the last exactly when the count   *)
(* of those before it is one less than the chunks of the row.              *)
FinishesTo(to, finish, chunks) == to = IF finish = chunks - 1 THEN "sum" ELSE "done"

(* The chunk k finishes.                                                   *)
LEMMA RowFinish ==
  ASSUME NEW u \in Nat \ {0}, NEW S \in [0 .. u - 1 -> StageName], NEW k \in 0 .. u - 1,
         S[k] = "finish", NEW ex, NEW fi, NEW wr, RowState(S, ex, fi, wr),
         NEW v, FinishesTo(v, fi, u), NEW R, R = [S EXCEPT ![k] = v]
  PROVE  /\ RowState(R, ex, fi + 1, wr)
         /\ Published(R) = Published(S) /\ Finished(R) = Finished(S) \cup {k}
<1>1. /\ DOMAIN R = DOMAIN S /\ R[k] = v /\ v \in {"sum", "done"}
      /\ v = "sum" <=> fi = u - 1
      /\ \A j \in DOMAIN S : j # k => R[j] = S[j]
  BY DEF FinishesTo
<1>2. Published(R) = Published(S)
  BY <1>1 DEF Published
<1>3. Finished(R) = Finished(S) \cup {k} /\ k \notin Finished(S)
  BY <1>1 DEF Finished
<1>4. \A open : ~ Ended(S, open)
  BY <1>3 DEF Ended
<1>5. Finished(S) \in SUBSET (0 .. u - 1) /\ Finished(R) \in SUBSET (0 .. u - 1)
  BY <1>3 DEF Finished
<1>6. fi = Cardinality(Finished(S)) /\ fi \in Nat
  <2>1. fi = Cardinality(Finished(S))
    BY <1>4 DEF RowState
  <2>2. Cardinality(Finished(S)) \in 0 .. u
    BY <1>5, ChunkSets
  <2>3. QED
    BY <2>1, <2>2
<1>7. Cardinality(Finished(R)) = fi + 1
  <2>1. IsFiniteSet(Finished(S))
    BY <1>5, ChunkSets
  <2>2. Cardinality(Finished(S) \cup {k}) = Cardinality(Finished(S)) + 1
    BY <1>3, <2>1, FS_AddElement
  <2>3. QED
    BY <1>3, <1>6, <2>2
<1>8. Finished(R) = DOMAIN R <=> fi = u - 1
  <2>1. Cardinality(Finished(R)) = u <=> Finished(R) = 0 .. u - 1
    BY <1>5, ChunkSets
  <2>2. QED
    BY <1>1, <1>6, <1>7, <2>1
<1>9. Published(S) = DOMAIN S
  BY DEF RowState, Crossed
<1>10. Crossed(R)
  BY <1>1, <1>2, <1>9 DEF Crossed
<1>11. \A j \in DOMAIN S : S[j] \notin Closing
  BY <1>3 DEF RowState, OneCloses
<1>12. OneCloses(R)
  BY <1>1, <1>8, <1>11 DEF OneCloses, Closing
<1>13. /\ ~ Ended(R, {"sum"}) /\ ~ Ended(R, {"sum", "reset_exchange"})
       /\ ~ Ended(R, Closing)
  BY <1>1, <1>8 DEF Ended, Closing
<1>14. RowState(R, ex, fi + 1, wr)
  BY <1>2, <1>4, <1>7, <1>10, <1>12, <1>13 DEF RowState
<1>15. QED
  BY <1>2, <1>3, <1>14

(* The three steps of the last chunk, from "sum" on: it writes the row,    *)
(* then resets one counter and the other.                                  *)
LEMMA RowClose ==
  ASSUME NEW u \in Nat \ {0}, NEW S \in [0 .. u - 1 -> StageName], NEW k \in 0 .. u - 1,
         S[k] \in Closing, NEW ex, NEW fi, NEW wr, RowState(S, ex, fi, wr),
         NEW v \in {"reset_exchange", "reset_finish", "done"},
         NEW R, R = [S EXCEPT ![k] = v]
  PROVE  /\ Crossed(R) /\ OneCloses(R)
         /\ Published(R) = DOMAIN S /\ Finished(R) = DOMAIN S
         /\ Published(S) = DOMAIN S /\ Finished(S) = DOMAIN S
         /\ \A open \in SUBSET Closing :
              (Ended(S, open) <=> S[k] \notin open) /\ (Ended(R, open) <=> v \notin open)
<1>1. DOMAIN R = DOMAIN S /\ R[k] = v /\ \A j \in DOMAIN S : j # k => R[j] = S[j]
  OBVIOUS
<1>2. Finished(S) = DOMAIN S /\ \A j \in DOMAIN S : j # k => S[j] \notin Closing
  BY DEF RowState, OneCloses
<1>3. Published(S) = DOMAIN S
  BY DEF RowState, Crossed, Closing
<1>4. Published(R) = DOMAIN R
  BY <1>1, <1>3 DEF Published
<1>5. Finished(R) = DOMAIN R
  BY <1>1, <1>2 DEF Finished
<1>6. \A j \in DOMAIN S : j # k => R[j] \notin Closing
  BY <1>1, <1>2
<1>7. Crossed(R) /\ OneCloses(R)
  BY <1>1, <1>4, <1>5, <1>6 DEF Crossed, OneCloses
<1>8. ASSUME NEW open \in SUBSET Closing
      PROVE  (Ended(S, open) <=> S[k] \notin open) /\ (Ended(R, open) <=> v \notin open)
  BY <1>1, <1>2, <1>5, <1>6 DEF Ended
<1>9. QED
  BY <1>1, <1>2, <1>3, <1>4, <1>5, <1>7, <1>8

LEMMA RowSum ==
  ASSUME NEW u \in Nat \ {0}, NEW S \in [0 .. u - 1 -> StageName], NEW k \in 0 .. u - 1,
         S[k] = "sum", NEW ex, NEW fi, NEW wr, RowState(S, ex, fi, wr)
  PROVE  LET R == [S EXCEPT ![k] = "reset_exchange"]
         IN  /\ RowState(R, ex, fi, wr + 1)
             /\ Published(R) = Published(S) /\ Finished(R) = Finished(S)
<1> DEFINE R == [S EXCEPT ![k] = "reset_exchange"]
<1>1. /\ {"sum"} \in SUBSET Closing /\ {"sum", "reset_exchange"} \in SUBSET Closing
      /\ Closing \in SUBSET Closing /\ S[k] \in Closing
  BY DEF Closing
<1>2. /\ Crossed(R) /\ OneCloses(R)
      /\ Published(R) = DOMAIN S /\ Finished(R) = DOMAIN S
      /\ Published(S) = DOMAIN S /\ Finished(S) = DOMAIN S
      /\ \A open \in SUBSET Closing :
           (Ended(S, open) <=> S[k] \notin open) /\ (Ended(R, open) <=> "reset_exchange" \notin open)
  BY <1>1, RowClose
<1> HIDE DEF R
<1>3. /\ ~ Ended(S, {"sum"}) /\ Ended(R, {"sum"})
      /\ ~ Ended(S, {"sum", "reset_exchange"}) /\ ~ Ended(R, {"sum", "reset_exchange"})
      /\ ~ Ended(S, Closing) /\ ~ Ended(R, Closing)
  BY <1>1, <1>2 DEF Closing
<1>4. QED
  BY <1>2, <1>3 DEF RowState, R

LEMMA RowResetExchange ==
  ASSUME NEW u \in Nat \ {0}, NEW S \in [0 .. u - 1 -> StageName], NEW k \in 0 .. u - 1,
         S[k] = "reset_exchange", NEW ex, NEW fi, NEW wr, RowState(S, ex, fi, wr)
  PROVE  LET R == [S EXCEPT ![k] = "reset_finish"]
         IN  /\ RowState(R, 0, fi, wr)
             /\ Published(R) = Published(S) /\ Finished(R) = Finished(S)
<1> DEFINE R == [S EXCEPT ![k] = "reset_finish"]
<1>1. /\ {"sum"} \in SUBSET Closing /\ {"sum", "reset_exchange"} \in SUBSET Closing
      /\ Closing \in SUBSET Closing /\ S[k] \in Closing
  BY DEF Closing
<1>2. /\ Crossed(R) /\ OneCloses(R)
      /\ Published(R) = DOMAIN S /\ Finished(R) = DOMAIN S
      /\ Published(S) = DOMAIN S /\ Finished(S) = DOMAIN S
      /\ \A open \in SUBSET Closing :
           (Ended(S, open) <=> S[k] \notin open) /\ (Ended(R, open) <=> "reset_finish" \notin open)
  BY <1>1, RowClose
<1> HIDE DEF R
<1>3. /\ Ended(S, {"sum"}) /\ Ended(R, {"sum"})
      /\ Ended(R, {"sum", "reset_exchange"})
      /\ ~ Ended(S, Closing) /\ ~ Ended(R, Closing)
  BY <1>1, <1>2 DEF Closing
<1>4. QED
  BY <1>2, <1>3 DEF RowState, R

LEMMA RowResetFinish ==
  ASSUME NEW u \in Nat \ {0}, NEW S \in [0 .. u - 1 -> StageName], NEW k \in 0 .. u - 1,
         S[k] = "reset_finish", NEW ex, NEW fi, NEW wr, RowState(S, ex, fi, wr)
  PROVE  LET R == [S EXCEPT ![k] = "done"]
         IN  /\ RowState(R, ex, 0, wr)
             /\ Published(R) = Published(S) /\ Finished(R) = Finished(S)
<1> DEFINE R == [S EXCEPT ![k] = "done"]
<1>1. /\ {"sum"} \in SUBSET Closing /\ {"sum", "reset_exchange"} \in SUBSET Closing
      /\ Closing \in SUBSET Closing /\ S[k] \in Closing
  BY DEF Closing
<1>2. /\ Crossed(R) /\ OneCloses(R)
      /\ Published(R) = DOMAIN S /\ Finished(R) = DOMAIN S
      /\ Published(S) = DOMAIN S /\ Finished(S) = DOMAIN S
      /\ \A open \in SUBSET Closing :
           (Ended(S, open) <=> S[k] \notin open) /\ (Ended(R, open) <=> "done" \notin open)
  BY <1>1, RowClose
<1> HIDE DEF R
<1>3. /\ Ended(S, {"sum"}) /\ Ended(R, {"sum"})
      /\ Ended(S, {"sum", "reset_exchange"}) /\ Ended(R, {"sum", "reset_exchange"})
      /\ Ended(R, Closing)
  BY <1>1, <1>2 DEF Closing
<1>4. QED
  BY <1>2, <1>3 DEF RowState, R

(* A row of one chunk is written without counting anything.                *)
LEMMA RowWhole ==
  ASSUME NEW S \in [0 .. 0 -> StageName], S[0] = "pending",
         NEW ex, NEW fi, NEW wr, RowState(S, ex, fi, wr)
  PROVE  RowState([S EXCEPT ![0] = "done"], ex, fi, wr + 1)
<1> DEFINE R == [S EXCEPT ![0] = "done"]
<1>1. DOMAIN R = {0} /\ R[0] = "done"
  OBVIOUS
<1>2. 1 \in Nat \ {0} /\ 1 - 1 = 0 /\ 0 .. 0 = {0}
  OBVIOUS
<1>3. ex = 0 /\ fi = 0 /\ wr = 0
  BY <1>2, RowAtStart
<1> HIDE DEF R
<1>4. Published(R) = {0} /\ Finished(R) = {0}
  BY <1>1 DEF Published, Finished
<1>5. Crossed(R) /\ OneCloses(R)
  BY <1>1, <1>4 DEF Crossed, OneCloses, Closing
<1>6. /\ Ended(R, {"sum"}) /\ Ended(R, {"sum", "reset_exchange"})
      /\ Ended(R, Closing)
  BY <1>1, <1>4 DEF Ended, Closing
<1>7. RowState(R, ex, fi, wr + 1)
  BY <1>3, <1>5, <1>6 DEF RowState
<1>8. QED
  BY <1>7 DEF R

-----------------------------------------------------------------------------
(* The rows of the phase the CTAs are in.  CTAs that have not left the     *)
(* barrier of the phase before have done none of its items.                *)

(* The layer of the CTA that is furthest: no two are more than one apart.  *)
Furthest(at) == at[0] + (IF \E c \in Cta : at[c] > at[0] THEN 1 ELSE 0)

(* Chunks in use, the furthest layer, and its phase.                       *)
Split   == InUse(prompt + call)
Current == Furthest(layer)
Phase   == PhaseNumber(Current)

Began(c) == layer[c] = Current /\ pc[c] \notin {"start", "end"}

(* Where the chunk of item i is, which one CTA alone takes.                *)
Stage(i) ==
  LET c == i % Workers
  IN  IF ~ Began(c) \/ item[c] < i \/ (item[c] = i /\ pc[c] = "item") THEN "pending"
      ELSE IF item[c] > i \/ pc[c] = "append" THEN "done"
      ELSE pc[c]

Stages(r) == [k \in 0 .. Split - 1 |-> Stage(r * Split + k)]

(* The first chunk of row r has put the new key into the cache.            *)
Appended(r) ==
  LET c == (r * Split) % Workers
  IN  Began(c) /\ item[c] > r * Split

RowTypes ==
  /\ item \in [Cta -> Nat]
  /\ counters \in [Row -> [exchange : Nat, finish : Nat]]
  /\ stats \in [Row -> [0 .. Chunks - 1 -> Int]]
  /\ partials \in [Row -> [0 .. Chunks - 1 -> Int]]
  /\ output \in [Row -> Int]
  /\ cache \in [Layer -> [Row -> [0 .. KvLength - 1 -> Int]]]

(* Which items a CTA takes, and where it can be with or without one.       *)
ItemsDealt ==
  \A c \in Cta :
    /\ item[c] % Workers = c
    /\ pc[c] \in Body \ {"item"} => HasItem(c)
    /\ pc[c] \in Body \ {"item", "append"} => InUse(keys[c]) > 1
    /\ pc[c] \in {"barrier", "advance"} => ~ HasItem(c)

RowHolds(r) ==
  /\ RowState(Stages(r), counters[r].exchange, counters[r].finish, output[r] - Phase + 1)
  /\ Split > 1 => /\ \A k \in Published(Stages(r)) : stats[r][k] = Phase
                  /\ \A k \in Finished(Stages(r)) : partials[r][k] = Phase

(* The places of the cache that hold their key: those of earlier steps,    *)
(* and this step's new place in the layers and rows that have appended it. *)
Settled(l, r, k) ==
  \/ k < prompt + call - 1
  \/ k = prompt + call - 1 /\ (l < Current \/ (l = Current /\ Appended(r)))

CacheHolds ==
  \A l \in Layer, r \in Row, k \in 0 .. KvLength - 1 :
    Settled(l, r, k) => cache[l][r][k] = k + 1

RowInv == Inv /\ RowTypes /\ ItemsDealt /\ CacheHolds /\ \A r \in Row : RowHolds(r)

(* The furthest layer: a CTA behind it waits at the barrier, by one layer. *)
LEMMA CurrentLayer ==
  ASSUME Inv
  PROVE  /\ Current \in 1 .. Layers + 1 /\ Current \in Int
         /\ \A c \in Cta : /\ layer[c] \in Int /\ layer[c] <= Current
                           /\ layer[c] < Current => pc[c] \in {"barrier", "advance"}
                           /\ pc[c] \in Body => Began(c)
         /\ \E c \in Cta : layer[c] = Current
<1>1. /\ 0 \in Cta /\ Layers \in Nat
      /\ \A c \in Cta : layer[c] \in 1 .. Layers + 1
  BY Sizes DEF Inv, Types
<1>2. \A c, d \in Cta : layer[c] <= layer[d] + 1
  BY DEF Inv, LockStep
<1>3. \E c \in Cta : layer[c] = Current
  BY <1>1, <1>2 DEF Current, Furthest
<1>4. \A c \in Cta : layer[c] <= Current
  BY <1>1, <1>2 DEF Current, Furthest
<1>5. ASSUME NEW c \in Cta, layer[c] < Current
      PROVE  pc[c] \in {"barrier", "advance"}
  BY <1>1, <1>3, <1>5 DEF Inv, LockStep
<1>6. ASSUME NEW c \in Cta, pc[c] \in Body
      PROVE  Began(c)
  <2>1. pc[c] \notin {"barrier", "advance", "start", "end"}
    BY <1>6 DEF Body
  <2>2. ~ (layer[c] < Current)
    BY <1>5, <2>1
  <2>3. QED
    BY <1>1, <1>3, <1>4, <2>1, <2>2 DEF Began
<1>7. Current \in 1 .. Layers + 1 /\ Current \in Int
  BY <1>1, <1>3
<1>8. QED
  BY <1>1, <1>3, <1>4, <1>5, <1>6, <1>7

LEMMA FurthestIs ==
  ASSUME NEW at \in [Cta -> Int], \A c, d \in Cta : at[c] <= at[d] + 1,
         NEW e \in Cta, \A c \in Cta : at[c] <= at[e]
  PROVE  Furthest(at) = at[e]
<1>1. 0 \in Cta /\ at[0] \in Int /\ at[e] \in Int
  BY Sizes
<1>2. CASE at[e] = at[0]
  BY <1>1, <1>2 DEF Furthest
<1>3. CASE at[e] > at[0]
  BY <1>1, <1>3 DEF Furthest
<1>4. QED
  BY <1>1, <1>2, <1>3

(* The chunks in use are some, and their statistics have room.             *)
LEMMA SplitBounds ==
  ASSUME Inv
  PROVE  /\ Split \in Nat \ {0} /\ Split \in 1 .. Chunks
         /\ prompt + call \in Nat \ {0} /\ Chunks \in Nat
         /\ Workers \in Nat \ {0} /\ Rows \in Nat \ {0}
<1>1. prompt + call \in Nat \ {0}
  BY DEF Inv, Types
<1>2. /\ MinChunkKeys \in Nat /\ Workers \in Nat \ {0} /\ Rows \in Nat \ {0}
      /\ Chunks \in 1 .. MinChunkKeys
  BY SizesAssumption, ChunksAssumption
<1>3. Split \in 1 .. MinChunkKeys
  BY <1>1, InUseBounds DEF Split
<1>4. Split <= Chunks
  <2> DEFINE all == CeilDiv(prompt + call, MinChunkKeys)
  <2>1. all \in Nat
    BY <1>1, <1>2, CeilDivCovers, SizesAssumption
  <2>2. Wave \in Nat
    <3>1. Workers \div Rows \in Nat
      BY <1>2, SMT
    <3>2. QED
      BY <3>1 DEF Wave, Most
  <2>3. Split = Least(all, Chunks) \/ Split = Least(Least(all, Chunks), Wave)
    BY DEF Split, InUse
  <2> HIDE DEF all
  <2>4. QED
    BY <1>2, <2>1, <2>2, <2>3 DEF Least
<1>5. QED
  BY <1>1, <1>2, <1>3, <1>4

(* An item is one chunk of one row.                                        *)
LEMMA ItemIsChunk ==
  ASSUME NEW u \in Nat \ {0}, NEW rows \in Nat \ {0}, NEW i \in Nat, i < rows * u
  PROVE  /\ i \div u \in 0 .. rows - 1 /\ i % u \in 0 .. u - 1
         /\ i = (i \div u) * u + (i % u)
<1>1. i \div u \in Nat /\ i % u \in 0 .. u - 1 /\ i = u * (i \div u) + (i % u)
  BY SMT
<1>2. i \div u <= rows - 1
  <2> DEFINE q == i \div u
  <2>1. q \in Nat /\ u * q <= i
    BY <1>1
  <2> HIDE DEF q
  <2>2. SUFFICES ASSUME q >= rows PROVE FALSE
    BY <2>1 DEF q
  <2>3. u * q >= u * rows
    BY <2>1, <2>2, SMT
  <2>4. QED
    BY <2>1, <2>3, SMT
<1>3. QED
  BY <1>1, <1>2, SMT

LEMMA ChunkIsItem ==
  ASSUME NEW u \in Nat \ {0}, NEW rows \in Nat \ {0},
         NEW r \in 0 .. rows - 1, NEW k \in 0 .. u - 1
  PROVE  r * u + k \in Nat /\ r * u + k < rows * u
<1>1. r * u \in Nat /\ (r + 1) * u <= rows * u /\ (r + 1) * u = r * u + u
  BY SMT
<1>2. QED
  BY <1>1, SMT

LEMMA SameItem ==
  ASSUME NEW u \in Nat \ {0}, NEW r \in Nat, NEW q \in Nat,
         NEW k \in 0 .. u - 1, NEW j \in 0 .. u - 1, r * u + k = q * u + j
  PROVE  r = q /\ k = j
<1>1. CASE r <= q - 1
  <2>1. (r + 1) * u <= q * u /\ (r + 1) * u = r * u + u
    BY <1>1, SMT
  <2>2. r * u \in Int /\ q * u \in Int
    BY SMT
  <2>3. QED
    BY <2>1, <2>2, SMT
<1>2. CASE q <= r - 1
  <2>1. (q + 1) * u <= r * u /\ (q + 1) * u = q * u + u
    BY <1>2, SMT
  <2>2. r * u \in Int /\ q * u \in Int
    BY SMT
  <2>3. QED
    BY <2>1, <2>2, SMT
<1>3. CASE r = q
  BY <1>3, SMT
<1>4. QED
  BY <1>1, <1>2, <1>3

(* Items of one CTA are a whole round of the CTAs apart.                   *)
LEMMA RoundApart ==
  ASSUME NEW w \in Nat \ {0}, NEW i \in Nat, NEW j \in Nat, i % w = j % w, i < j
  PROVE  i + w <= j
<1>1. /\ i \div w \in Int /\ i = w * (i \div w) + (i % w)
      /\ j \div w \in Int /\ j = w * (j \div w) + (j % w)
      /\ i % w \in Int
  BY SMT
<1> DEFINE a == i \div w
           b == j \div w
           m == i % w
<1>2. a \in Int /\ b \in Int /\ m \in Int /\ i = w * a + m /\ j = w * b + m
  BY <1>1
<1> HIDE DEF a, b, m
<1>3. a < b
  <2>1. SUFFICES ASSUME b <= a PROVE FALSE
    BY <1>2
  <2>2. w * b <= w * a
    BY <1>2, <2>1, SMT
  <2>3. QED
    BY <1>2, <2>2, SMT
<1>4. w * (a + 1) <= w * b /\ w * (a + 1) = w * a + w
  BY <1>2, <1>3, SMT
<1>5. QED
  BY <1>2, <1>4, SMT

LEMMA NextRound ==
  ASSUME NEW w \in Nat \ {0}, NEW i \in Nat
  PROVE  (i + w) % w = i % w
<1>1. /\ i \div w \in Int /\ i % w \in 0 .. w - 1 /\ i = w * (i \div w) + (i % w)
      /\ (i + w) \div w \in Int /\ (i + w) % w \in 0 .. w - 1
      /\ i + w = w * ((i + w) \div w) + ((i + w) % w)
  BY SMT
<1> DEFINE a == i \div w
           b == (i + w) \div w
           m == i % w
           n == (i + w) % w
<1>2. /\ a \in Int /\ b \in Int /\ m \in 0 .. w - 1 /\ n \in 0 .. w - 1
      /\ i = w * a + m /\ i + w = w * b + n
  BY <1>1
<1> HIDE DEF a, b, m, n
<1>3. w * (a + 1) = w * a + w /\ w * a \in Int /\ w * b \in Int
  BY <1>2, SMT
<1>4. ~ (b < a + 1)
  <2>1. b < a + 1 => w * b + w <= w * (a + 1)
    <3>1. w * (b + 1) = w * b + w
      BY <1>2, SMT
    <3>2. b < a + 1 => w * (b + 1) <= w * (a + 1)
      BY <1>2, SMT
    <3>3. QED
      BY <3>1, <3>2
  <2>2. QED
    BY <1>2, <1>3, <2>1
<1>5. ~ (b > a + 1)
  <2>1. b > a + 1 => w * (a + 1) + w <= w * b
    <3>1. w * (a + 2) = w * (a + 1) + w
      BY <1>2, SMT
    <3>2. b > a + 1 => w * (a + 2) <= w * b
      BY <1>2, SMT
    <3>3. QED
      BY <3>1, <3>2
  <2>2. QED
    BY <1>2, <1>3, <2>1
<1>6. b = a + 1
  BY <1>2, <1>4, <1>5
<1>7. n = m
  BY <1>2, <1>3, <1>6
<1>8. QED
  BY <1>7 DEF m, n

LEMMA StagesTyped ==
  ASSUME Inv, RowTypes, ItemsDealt, NEW r \in Row
  PROVE  Stages(r) \in [0 .. Split - 1 -> StageName]
<1>1. Split \in Nat \ {0} /\ Workers \in Nat \ {0} /\ Rows \in Nat \ {0}
  BY SplitBounds
<1>2. ASSUME NEW i \in Nat, i < Rows * Split
      PROVE  Stage(i) \in StageName
  <2>1. PICK c \in Cta : c = i % Workers
    BY <1>1, SMT DEF Cta
  <2>2. pc[c] \in Body \cup {"start", "barrier", "advance", "end"} /\ item[c] \in Nat
    BY DEF Inv, Types, RowTypes
  <2>3. pc[c] \in {"barrier", "advance"} => item[c] >= Rows * Split
    <3>1. SUFFICES ASSUME pc[c] \in {"barrier", "advance"} PROVE item[c] >= Rows * Split
      OBVIOUS
    <3>2. keys[c] = prompt + call
      BY <3>1 DEF Inv, KeysOfStep
    <3>3. ~ (item[c] < Rows * Split)
      BY <3>1, <3>2 DEF ItemsDealt, HasItem, Split
    <3>4. Rows * Split \in Int
      BY <1>1, SMT
    <3>5. QED
      BY <2>2, <3>3, <3>4
  <2>4. Rows * Split \in Int
    BY <1>1, SMT
  <2>5. pc[c] \in {"start", "barrier", "advance", "end"} => Stage(i) \in {"pending", "done"}
    BY <1>2, <2>1, <2>2, <2>3, <2>4 DEF Stage, Began
  <2>6. pc[c] \in Body => Stage(i) \in StageName
    BY <2>1, <2>2 DEF Stage, StageName, Body
  <2>7. QED
    BY <2>2, <2>5, <2>6 DEF StageName
<1>3. ASSUME NEW k \in 0 .. Split - 1
      PROVE  r * Split + k \in Nat /\ r * Split + k < Rows * Split
  BY <1>1, ChunkIsItem DEF Row
<1>4. QED
  BY <1>2, <1>3 DEF Stages

(* A CTA with an item: its chunk is one of the phase's, at the stage that  *)
(* the CTA's place says.                                                   *)
LEMMA ChunkHere ==
  ASSUME RowInv, NEW c \in Cta, pc[c] \in Body, HasItem(c),
         NEW q, q = Chunk(c).row, NEW k, k = Chunk(c).chunk
  PROVE  /\ InUse(keys[c]) = Split /\ layer[c] = Current /\ Began(c)
         /\ q \in Row /\ k \in 0 .. Split - 1
         /\ item[c] = q * Split + k /\ item[c] % Workers = c
         /\ Stages(q) \in [0 .. Split - 1 -> StageName]
         /\ Stages(q)[k] = IF pc[c] = "item" THEN "pending"
                           ELSE IF pc[c] = "append" THEN "done" ELSE pc[c]
<1>1. Inv /\ item[c] \in Nat /\ item[c] % Workers = c
  BY DEF RowInv, RowTypes, ItemsDealt
<1>2. InUse(keys[c]) = Split
  BY <1>1 DEF Inv, KeysOfStep, Body, Split
<1>3. Split \in Nat \ {0} /\ Rows \in Nat \ {0} /\ item[c] < Rows * Split
  BY <1>1, <1>2, SplitBounds DEF HasItem
<1>4. q = item[c] \div Split /\ k = item[c] % Split
  BY <1>2 DEF Chunk, Item
<1>5. q \in Row /\ k \in 0 .. Split - 1 /\ item[c] = q * Split + k
  <2>1. /\ item[c] \div Split \in 0 .. Rows - 1 /\ item[c] % Split \in 0 .. Split - 1
        /\ item[c] = (item[c] \div Split) * Split + (item[c] % Split)
    BY <1>1, <1>3, ItemIsChunk, Zenon
  <2>2. QED
    BY <1>4, <2>1 DEF Row
<1>6. Began(c) /\ layer[c] = Current
  BY <1>1, CurrentLayer DEF Began
<1>7. Stages(q)[k] = Stage(item[c])
  BY <1>5 DEF Stages
<1>8. Stage(item[c]) = IF pc[c] = "item" THEN "pending"
                       ELSE IF pc[c] = "append" THEN "done" ELSE pc[c]
  BY <1>1, <1>6 DEF Stage
<1>9. Stages(q) \in [0 .. Split - 1 -> StageName]
  BY <1>1, <1>5, StagesTyped DEF RowInv
<1>10. QED
  BY <1>1, <1>2, <1>5, <1>6, <1>7, <1>8, <1>9

(* A step of CTA c within its item moves that chunk and no other.          *)
LEMMA StageMoved ==
  ASSUME RowInv, NEW c \in Cta, pc[c] \in Body, HasItem(c),
         NEW at \in Body \ {"item"}, pc' = [pc EXCEPT ![c] = at],
         UNCHANGED <<prompt, call, layer, keys, item>>,
         NEW q \in Row, NEW k \in 0 .. Split - 1, item[c] = q * Split + k
  PROVE  /\ Split' = Split /\ Current' = Current /\ Phase' = Phase
         /\ Stages(q)' = [Stages(q) EXCEPT ![k] = IF at = "append" THEN "done" ELSE at]
         /\ \A r \in Row : r # q => Stages(r)' = Stages(r)
         /\ \A r \in Row : Appended(r)' <=> Appended(r)
<1>1. /\ Inv /\ item[c] \in Nat /\ item[c] % Workers = c /\ Began(c)
      /\ Split \in Nat \ {0} /\ Rows \in Nat \ {0} /\ Workers \in Nat \ {0}
      /\ pc \in [Cta -> Body \cup {"start", "barrier", "advance", "end"}]
      /\ \A d \in Cta : item[d] \in Nat
  BY CurrentLayer, SplitBounds DEF RowInv, RowTypes, ItemsDealt, Inv, Types
<1>2. Split' = Split /\ Current' = Current /\ Phase' = Phase
  BY DEF Split, Current, Furthest, Phase, PhaseNumber
<1>3. pc'[c] = at /\ \A d \in Cta : d # c => pc'[d] = pc[d]
  BY <1>1
<1>4. \A d \in Cta : Began(d)' <=> Began(d)
  BY <1>1, <1>2, <1>3 DEF Began, Body
<1>5. ASSUME NEW i \in Nat
      PROVE  Stage(i)' = IF i = item[c] THEN (IF at = "append" THEN "done" ELSE at)
                                        ELSE Stage(i)
  <2>1. i % Workers \in Cta
    BY <1>1, SMT DEF Cta
  <2>2. CASE i = item[c]
    BY <1>1, <1>3, <1>4, <2>1, <2>2 DEF Stage
  <2>3. CASE i # item[c] /\ i % Workers # c
    BY <1>1, <1>3, <1>4, <2>1, <2>3 DEF Stage
  <2>4. CASE i # item[c] /\ i % Workers = c
    BY <1>1, <1>3, <1>4, <2>1, <2>4 DEF Stage
  <2>5. QED
    BY <2>2, <2>3, <2>4
<1>6. ASSUME NEW r \in Row, NEW j \in 0 .. Split - 1
      PROVE  /\ r * Split + j \in Nat
             /\ r * Split + j = item[c] <=> r = q /\ j = k
  <2>1. r \in 0 .. Rows - 1 /\ q \in 0 .. Rows - 1
    BY DEF Row
  <2>2. r * Split + j \in Nat
    BY <1>1, <2>1, ChunkIsItem
  <2>3. r \in Nat /\ q \in Nat
    BY <1>1, <2>1
  <2>4. QED
    BY <1>1, <2>2, <2>3, SameItem
<1>7. Stages(q)' = [Stages(q) EXCEPT ![k] = IF at = "append" THEN "done" ELSE at]
  BY <1>2, <1>5, <1>6 DEF Stages
<1>8. ASSUME NEW r \in Row, r # q
      PROVE  Stages(r)' = Stages(r)
  BY <1>2, <1>5, <1>6, <1>8 DEF Stages
<1>9. ASSUME NEW r \in Row
      PROVE  Appended(r)' <=> Appended(r)
  <2>1. r * Split + 0 \in Nat /\ r * Split \in Int
    BY <1>1, <1>6 DEF Row
  <2>2. (r * Split) % Workers \in Cta
    BY <1>1, <2>1, SMT DEF Cta
  <2>3. QED
    BY <1>2, <1>4, <2>2 DEF Appended
<1>10. QED
  BY <1>2, <1>7, <1>8, <1>9

(* Setting one counter of a row.                                           *)
LEMMA ExchangeSet ==
  ASSUME NEW f \in [Row -> [exchange : Nat, finish : Nat]], NEW q \in Row, NEW n \in Nat,
         NEW g, g = [f EXCEPT ![q].exchange = n]
  PROVE  /\ g \in [Row -> [exchange : Nat, finish : Nat]]
         /\ g[q].exchange = n /\ g[q].finish = f[q].finish
         /\ \A r \in Row : r # q => g[r] = f[r]
<1>1. f[q] \in [exchange : Nat, finish : Nat]
  OBVIOUS
<1>2. PICK v : v = [f[q] EXCEPT !.exchange = n]
  OBVIOUS
<1>3. v \in [exchange : Nat, finish : Nat] /\ v.exchange = n /\ v.finish = f[q].finish
  BY <1>1, <1>2
<1>4. g = [f EXCEPT ![q] = v]
  BY <1>2
<1>5. QED
  BY <1>3, <1>4

LEMMA FinishSet ==
  ASSUME NEW f \in [Row -> [exchange : Nat, finish : Nat]], NEW q \in Row, NEW n \in Nat,
         NEW g, g = [f EXCEPT ![q].finish = n]
  PROVE  /\ g \in [Row -> [exchange : Nat, finish : Nat]]
         /\ g[q].finish = n /\ g[q].exchange = f[q].exchange
         /\ \A r \in Row : r # q => g[r] = f[r]
<1>1. f[q] \in [exchange : Nat, finish : Nat]
  OBVIOUS
<1>2. PICK v : v = [f[q] EXCEPT !.finish = n]
  OBVIOUS
<1>3. v \in [exchange : Nat, finish : Nat] /\ v.finish = n /\ v.exchange = f[q].exchange
  BY <1>1, <1>2
<1>4. g = [f EXCEPT ![q] = v]
  BY <1>2
<1>5. QED
  BY <1>3, <1>4

(* A step of CTA c within its item, to the place at, and what such a step  *)
(* must say of the row q it is in, whose chunks come to the stages R.      *)
ItemStep(c, at) ==
  /\ pc[c] \in Body /\ HasItem(c) /\ pc' = [pc EXCEPT ![c] = at]
  /\ at # "append" => InUse(keys[c]) > 1
  /\ UNCHANGED <<prompt, call, layer, keys, item>> /\ UNCHANGED kvVars

RowResult(q, R) ==
  /\ RowTypes'
  /\ \A r \in Row : r # q =>
       /\ counters'[r] = counters[r] /\ output'[r] = output[r]
       /\ stats'[r] = stats[r] /\ partials'[r] = partials[r]
  /\ RowState(R, counters'[q].exchange, counters'[q].finish, output'[q] - Phase + 1)
  /\ Split > 1 => /\ \A j \in Published(R) : stats'[q][j] = Phase
                  /\ \A j \in Finished(R) : partials'[q][j] = Phase

LEMMA RowMoved ==
  ASSUME RowInv, NEW c \in Cta, NEW at \in Body \ {"item"}, ItemStep(c, at),
         NEW q \in Row, NEW k \in 0 .. Split - 1, item[c] = q * Split + k,
         NEW to, to = (IF at = "append" THEN "done" ELSE at),
         NEW R, R = [Stages(q) EXCEPT ![k] = to], RowResult(q, R)
  PROVE  RowInv'
<1>1. Inv'
  BY BodyStep DEF RowInv, kvVars, ItemStep
<1>2. /\ Split' = Split /\ Current' = Current /\ Phase' = Phase
      /\ Stages(q)' = R
      /\ \A r \in Row : r # q => Stages(r)' = Stages(r)
      /\ \A r \in Row : Appended(r)' <=> Appended(r)
  <2>1. /\ Split' = Split /\ Current' = Current /\ Phase' = Phase
        /\ Stages(q)' = [Stages(q) EXCEPT ![k] = IF at = "append" THEN "done" ELSE at]
        /\ \A r \in Row : r # q => Stages(r)' = Stages(r)
        /\ \A r \in Row : Appended(r)' <=> Appended(r)
    BY StageMoved, Zenon DEF ItemStep
  <2>2. QED
    BY <2>1
<1>3. pc'[c] = at /\ \A d \in Cta : d # c => pc'[d] = pc[d]
  BY DEF RowInv, Inv, Types, ItemStep
<1>4. ItemsDealt'
  <2>1. SUFFICES ASSUME NEW d \in Cta
                 PROVE  /\ item[d] % Workers = d
                        /\ pc'[d] \in Body \ {"item"} => HasItem(d)
                        /\ pc'[d] \in Body \ {"item", "append"} => InUse(keys[d]) > 1
                        /\ pc'[d] \in {"barrier", "advance"} => ~ HasItem(d)
    BY DEF ItemsDealt, HasItem, ItemStep
  <2>2. CASE d = c
    BY <1>3, <2>2 DEF RowInv, ItemsDealt, Body, ItemStep
  <2>3. CASE d # c
    BY <1>3, <2>3 DEF RowInv, ItemsDealt
  <2>4. QED
    BY <2>2, <2>3
<1>5. CacheHolds'
  <2>1. SUFFICES ASSUME NEW l \in Layer, NEW r \in Row, NEW j \in 0 .. KvLength - 1,
                        Settled(l, r, j)'
                 PROVE  cache[l][r][j] = j + 1
    BY DEF CacheHolds, kvVars, ItemStep
  <2>2. Settled(l, r, j)
    BY <1>2, <2>1 DEF Settled, ItemStep
  <2>3. QED
    BY <2>2 DEF RowInv, CacheHolds
<1>6. ASSUME NEW r \in Row
      PROVE  RowHolds(r)'
  <2>1. CASE r = q
    BY <1>2, <2>1 DEF RowHolds, RowResult
  <2>2. CASE r # q
    BY <1>2, <2>2 DEF RowHolds, RowInv, RowResult
  <2>3. QED
    BY <2>1, <2>2
<1>7. QED
  BY <1>1, <1>4, <1>5, <1>6 DEF RowInv, RowResult

LEMMA PhaseTyped ==
  ASSUME Inv
  PROVE  Phase \in Int
<1>1. Current \in Int /\ call \in Int /\ Layers \in Int
  BY CurrentLayer, Sizes DEF Inv, Types
<1>2. (call - 1) * Layers \in Int
  BY <1>1, SMT
<1>3. QED
  BY <1>1, <1>2 DEF Phase, PhaseNumber

LEMMA PublishStep == ASSUME RowInv, NEW c \in Cta, Publish(c) PROVE RowInv'
<1>1. pc[c] = "item" /\ HasItem(c) /\ InUse(keys[c]) > 1 /\ pc[c] \in Body
  BY DEF Publish, Body
<1>2. PICK q, k : q = Chunk(c).row /\ k = Chunk(c).chunk
  OBVIOUS
<1>3. /\ InUse(keys[c]) = Split /\ layer[c] = Current
      /\ q \in Row /\ k \in 0 .. Split - 1 /\ item[c] = q * Split + k
      /\ Stages(q) \in [0 .. Split - 1 -> StageName] /\ Stages(q)[k] = "pending"
  BY <1>1, <1>2, ChunkHere
<1>4. /\ stats' = [stats EXCEPT ![q][k] = Phase]
      /\ counters' = [counters EXCEPT ![q].exchange = counters[q].exchange + 1]
      /\ pc' = [pc EXCEPT ![c] = "wait"] /\ UNCHANGED <<partials, output>>
      /\ UNCHANGED <<prompt, call, layer, keys, item>> /\ UNCHANGED kvVars
  BY <1>2, <1>3 DEF Publish, Goto, Phase
<1>5. Split \in Nat \ {0} /\ k \in 0 .. Chunks - 1 /\ Phase \in Int
  BY <1>3, SplitBounds, PhaseTyped DEF RowInv
<1>6. /\ stats \in [Row -> [0 .. Chunks - 1 -> Int]]
      /\ counters \in [Row -> [exchange : Nat, finish : Nat]]
      /\ counters[q].exchange + 1 \in Nat
  BY <1>3 DEF RowInv, RowTypes
<1>7. /\ counters' \in [Row -> [exchange : Nat, finish : Nat]]
      /\ counters'[q].exchange = counters[q].exchange + 1
      /\ counters'[q].finish = counters[q].finish
      /\ \A r \in Row : r # q => counters'[r] = counters[r]
  BY <1>3, <1>4, <1>6, ExchangeSet
<1>8. /\ stats' \in [Row -> [0 .. Chunks - 1 -> Int]] /\ stats'[q][k] = Phase
      /\ \A j \in 0 .. Chunks - 1 : j # k => stats'[q][j] = stats[q][j]
      /\ \A r \in Row : r # q => stats'[r] = stats[r]
  <2>1. q \in Row /\ stats' = [stats EXCEPT ![q][k] = Phase]
    BY <1>3, <1>4
  <2>2. QED
    BY <1>5, <1>6, <2>1
<1>9. PICK R : R = [Stages(q) EXCEPT ![k] = "wait"]
  OBVIOUS
<1>10. RowHolds(q)
  BY <1>3 DEF RowInv
<1>11. /\ RowState(R, counters'[q].exchange, counters'[q].finish, output'[q] - Phase + 1)
       /\ Published(R) = Published(Stages(q)) \cup {k} /\ Finished(R) = Finished(Stages(q))
  <2> DEFINE S == Stages(q)
             T == [S EXCEPT ![k] = "wait"]
  <2>1. RowState(S, counters[q].exchange, counters[q].finish, output[q] - Phase + 1)
    BY <1>10 DEF RowHolds
  <2>2. S \in [0 .. Split - 1 -> StageName] /\ S[k] = "pending"
    BY <1>3
  <2> HIDE DEF S
  <2>3. /\ RowState(T, counters[q].exchange + 1, counters[q].finish, output[q] - Phase + 1)
        /\ Published(T) = Published(S) \cup {k} /\ Finished(T) = Finished(S)
    BY <1>3, <1>5, <2>1, <2>2, RowPublish, Zenon
  <2>4. R = T /\ output' = output
    BY <1>4, <1>9 DEF S
  <2> HIDE DEF T
  <2>5. QED
    BY <1>7, <2>3, <2>4 DEF S
<1>12. Split > 1 => /\ \A j \in Published(R) : stats'[q][j] = Phase
                    /\ \A j \in Finished(R) : partials'[q][j] = Phase
  <2>1. Published(Stages(q)) \subseteq 0 .. Chunks - 1
    BY <1>3, <1>5, SplitBounds DEF Published, RowInv
  <2>2. QED
    BY <1>4, <1>8, <1>10, <1>11, <2>1 DEF RowHolds
<1>13. RowTypes'
  BY <1>4, <1>7, <1>8 DEF RowInv, RowTypes, kvVars
<1>14. RowResult(q, R)
  BY <1>4, <1>7, <1>8, <1>11, <1>12, <1>13 DEF RowResult
<1>15. ItemStep(c, "wait") /\ "wait" \in Body \ {"item"}
  BY <1>1, <1>4 DEF ItemStep, Body
<1>16. "wait" = IF "wait" = "append" THEN "done" ELSE "wait"
  OBVIOUS
<1>17. QED
  BY <1>3, <1>9, <1>14, <1>15, <1>16, RowMoved, Zenon

LEMMA WaitStep == ASSUME RowInv, NEW c \in Cta, Wait(c) PROVE RowInv'
<1>1. pc[c] = "wait" /\ pc[c] \in Body /\ HasItem(c) /\ InUse(keys[c]) > 1
  BY DEF RowInv, ItemsDealt, Wait, Body
<1>2. PICK q, k : q = Chunk(c).row /\ k = Chunk(c).chunk
  OBVIOUS
<1>3. /\ InUse(keys[c]) = Split /\ layer[c] = Current
      /\ q \in Row /\ k \in 0 .. Split - 1 /\ item[c] = q * Split + k
      /\ Stages(q) \in [0 .. Split - 1 -> StageName] /\ Stages(q)[k] = "wait"
  BY <1>1, <1>2, ChunkHere
<1>4. /\ counters[q].exchange >= Split
      /\ pc' = [pc EXCEPT ![c] = "finish"]
      /\ UNCHANGED <<counters, stats, partials, output>>
      /\ UNCHANGED <<prompt, call, layer, keys, item>> /\ UNCHANGED kvVars
  BY <1>2, <1>3 DEF Wait, Goto, scratch
<1>5. Split \in Nat \ {0} /\ counters[q].exchange \in Nat
  BY <1>3, SplitBounds DEF RowInv, RowTypes
<1>7. counters' = counters /\ output' = output
  BY <1>4
<1>9. PICK R : R = [Stages(q) EXCEPT ![k] = "finish"]
  OBVIOUS
<1>10. RowHolds(q)
  BY <1>3 DEF RowInv
<1>11. /\ RowState(R, counters'[q].exchange, counters'[q].finish, output'[q] - Phase + 1)
       /\ Published(R) = Published(Stages(q)) /\ Finished(R) = Finished(Stages(q))
  <2> DEFINE S == Stages(q)
             T == [S EXCEPT ![k] = "finish"]
  <2>1. RowState(S, counters[q].exchange, counters[q].finish, output[q] - Phase + 1)
    BY <1>10 DEF RowHolds
  <2>2. S \in [0 .. Split - 1 -> StageName] /\ S[k] = "wait" /\ counters[q].exchange >= Split
    BY <1>3, <1>4
  <2> HIDE DEF S
  <2>3. /\ RowState(T, counters[q].exchange, counters[q].finish, output[q] - Phase + 1)
        /\ Published(T) = Published(S) /\ Finished(T) = Finished(S)
    BY <1>3, <1>5, <2>1, <2>2, RowWait, Zenon
  <2>4. R = T
    BY <1>9 DEF S
  <2> HIDE DEF T
  <2>5. QED
    BY <1>4, <1>7, <2>3, <2>4 DEF S
<1>12. RowTypes'
  BY <1>4 DEF RowInv, RowTypes, kvVars
<1>13. Split > 1 => /\ \A j \in Published(R) : stats'[q][j] = Phase
                    /\ \A j \in Finished(R) : partials'[q][j] = Phase
  BY <1>4, <1>10, <1>11 DEF RowHolds
<1>14. RowResult(q, R)
  BY <1>4, <1>11, <1>12, <1>13 DEF RowResult
<1>15. ItemStep(c, "finish") /\ "finish" \in Body \ {"item"}
  BY <1>1, <1>4 DEF ItemStep, Body
<1>16. "finish" = IF "finish" = "append" THEN "done" ELSE "finish"
  OBVIOUS
<1>17. QED
  BY <1>3, <1>9, <1>14, <1>15, <1>16, RowMoved, Zenon

LEMMA SumStep == ASSUME RowInv, NEW c \in Cta, Sum(c) PROVE RowInv'
<1>1. pc[c] = "sum" /\ pc[c] \in Body /\ HasItem(c) /\ InUse(keys[c]) > 1
  BY DEF RowInv, ItemsDealt, Sum, Body
<1>2. PICK q, k : q = Chunk(c).row /\ k = Chunk(c).chunk
  OBVIOUS
<1>3. /\ InUse(keys[c]) = Split /\ layer[c] = Current
      /\ q \in Row /\ k \in 0 .. Split - 1 /\ item[c] = q * Split + k
      /\ Stages(q) \in [0 .. Split - 1 -> StageName] /\ Stages(q)[k] = "sum"
  BY <1>1, <1>2, ChunkHere
<1>4. /\ output' = [output EXCEPT ![q] = output[q] + 1]
      /\ pc' = [pc EXCEPT ![c] = "reset_exchange"]
      /\ UNCHANGED <<counters, stats, partials>>
      /\ UNCHANGED <<prompt, call, layer, keys, item>> /\ UNCHANGED kvVars
  BY <1>2, <1>3 DEF Sum, Goto, scratch
<1>5. Split \in Nat \ {0} /\ Phase \in Int
  BY <1>3, SplitBounds, PhaseTyped DEF RowInv
<1>6. output \in [Row -> Int]
  BY DEF RowInv, RowTypes
<1>7. /\ counters' = counters /\ output'[q] - Phase + 1 = (output[q] - Phase + 1) + 1
      /\ output' \in [Row -> Int] /\ \A r \in Row : r # q => output'[r] = output[r]
  BY <1>3, <1>4, <1>5, <1>6
<1>9. PICK R : R = [Stages(q) EXCEPT ![k] = "reset_exchange"]
  OBVIOUS
<1>10. RowHolds(q)
  BY <1>3 DEF RowInv
<1>11. /\ RowState(R, counters'[q].exchange, counters'[q].finish, output'[q] - Phase + 1)
       /\ Published(R) = Published(Stages(q)) /\ Finished(R) = Finished(Stages(q))
  <2> DEFINE S == Stages(q)
             T == [S EXCEPT ![k] = "reset_exchange"]
  <2>1. RowState(S, counters[q].exchange, counters[q].finish, output[q] - Phase + 1)
    BY <1>10 DEF RowHolds
  <2>2. S \in [0 .. Split - 1 -> StageName] /\ S[k] = "sum"
    BY <1>3
  <2> HIDE DEF S
  <2>3. /\ RowState(T, counters[q].exchange, counters[q].finish, (output[q] - Phase + 1) + 1)
        /\ Published(T) = Published(S) /\ Finished(T) = Finished(S)
    BY <1>3, <1>5, <2>1, <2>2, RowSum, Zenon
  <2>4. R = T
    BY <1>9 DEF S
  <2> HIDE DEF T
  <2>5. QED
    BY <1>4, <1>7, <2>3, <2>4 DEF S
<1>12. RowTypes'
  BY <1>4, <1>7 DEF RowInv, RowTypes, kvVars
<1>13. Split > 1 => /\ \A j \in Published(R) : stats'[q][j] = Phase
                    /\ \A j \in Finished(R) : partials'[q][j] = Phase
  BY <1>4, <1>10, <1>11 DEF RowHolds
<1>14. RowResult(q, R)
  BY <1>4, <1>7, <1>11, <1>12, <1>13 DEF RowResult
<1>15. ItemStep(c, "reset_exchange") /\ "reset_exchange" \in Body \ {"item"}
  BY <1>1, <1>4 DEF ItemStep, Body
<1>16. "reset_exchange" = IF "reset_exchange" = "append" THEN "done" ELSE "reset_exchange"
  OBVIOUS
<1>17. QED
  BY <1>3, <1>9, <1>14, <1>15, <1>16, RowMoved, Zenon

LEMMA ResetExchangeStep == ASSUME RowInv, NEW c \in Cta, ResetExchange(c) PROVE RowInv'
<1>1. pc[c] = "reset_exchange" /\ pc[c] \in Body /\ HasItem(c) /\ InUse(keys[c]) > 1
  BY DEF RowInv, ItemsDealt, ResetExchange, Body
<1>2. PICK q, k : q = Chunk(c).row /\ k = Chunk(c).chunk
  OBVIOUS
<1>3. /\ InUse(keys[c]) = Split /\ layer[c] = Current
      /\ q \in Row /\ k \in 0 .. Split - 1 /\ item[c] = q * Split + k
      /\ Stages(q) \in [0 .. Split - 1 -> StageName] /\ Stages(q)[k] = "reset_exchange"
  BY <1>1, <1>2, ChunkHere
<1>4. /\ counters' = [counters EXCEPT ![q].exchange = 0]
      /\ pc' = [pc EXCEPT ![c] = "reset_finish"]
      /\ UNCHANGED <<stats, partials, output>>
      /\ UNCHANGED <<prompt, call, layer, keys, item>> /\ UNCHANGED kvVars
  BY <1>2, <1>3 DEF ResetExchange, Goto
<1>5. Split \in Nat \ {0}
  BY SplitBounds DEF RowInv
<1>6. counters \in [Row -> [exchange : Nat, finish : Nat]]
  BY DEF RowInv, RowTypes
<1>7. /\ counters' \in [Row -> [exchange : Nat, finish : Nat]]
      /\ counters'[q].exchange = 0 /\ counters'[q].finish = counters[q].finish
      /\ \A r \in Row : r # q => counters'[r] = counters[r]
  <2>1. q \in Row /\ 0 \in Nat /\ counters' = [counters EXCEPT ![q].exchange = 0]
    BY <1>3, <1>4
  <2>2. QED
    BY <1>6, <2>1, ExchangeSet
<1>9. PICK R : R = [Stages(q) EXCEPT ![k] = "reset_finish"]
  OBVIOUS
<1>10. RowHolds(q)
  BY <1>3 DEF RowInv
<1>11. /\ RowState(R, counters'[q].exchange, counters'[q].finish, output'[q] - Phase + 1)
       /\ Published(R) = Published(Stages(q)) /\ Finished(R) = Finished(Stages(q))
  <2> DEFINE S == Stages(q)
             T == [S EXCEPT ![k] = "reset_finish"]
  <2>1. RowState(S, counters[q].exchange, counters[q].finish, output[q] - Phase + 1)
    BY <1>10 DEF RowHolds
  <2>2. S \in [0 .. Split - 1 -> StageName] /\ S[k] = "reset_exchange"
    BY <1>3
  <2> HIDE DEF S
  <2>3. /\ RowState(T, 0, counters[q].finish, output[q] - Phase + 1)
        /\ Published(T) = Published(S) /\ Finished(T) = Finished(S)
    BY <1>3, <1>5, <2>1, <2>2, RowResetExchange, Zenon
  <2>4. R = T
    BY <1>9 DEF S
  <2> HIDE DEF T
  <2>5. QED
    BY <1>4, <1>7, <2>3, <2>4 DEF S
<1>12. RowTypes'
  BY <1>4, <1>7 DEF RowInv, RowTypes, kvVars
<1>13. Split > 1 => /\ \A j \in Published(R) : stats'[q][j] = Phase
                    /\ \A j \in Finished(R) : partials'[q][j] = Phase
  BY <1>4, <1>10, <1>11 DEF RowHolds
<1>14. RowResult(q, R)
  BY <1>4, <1>7, <1>11, <1>12, <1>13 DEF RowResult
<1>15. ItemStep(c, "reset_finish") /\ "reset_finish" \in Body \ {"item"}
  BY <1>1, <1>4 DEF ItemStep, Body
<1>16. "reset_finish" = IF "reset_finish" = "append" THEN "done" ELSE "reset_finish"
  OBVIOUS
<1>17. QED
  BY <1>3, <1>9, <1>14, <1>15, <1>16, RowMoved, Zenon

LEMMA ResetFinishStep == ASSUME RowInv, NEW c \in Cta, ResetFinish(c) PROVE RowInv'
<1>1. pc[c] = "reset_finish" /\ pc[c] \in Body /\ HasItem(c) /\ InUse(keys[c]) > 1
  BY DEF RowInv, ItemsDealt, ResetFinish, Body
<1>2. PICK q, k : q = Chunk(c).row /\ k = Chunk(c).chunk
  OBVIOUS
<1>3. /\ InUse(keys[c]) = Split /\ layer[c] = Current
      /\ q \in Row /\ k \in 0 .. Split - 1 /\ item[c] = q * Split + k
      /\ Stages(q) \in [0 .. Split - 1 -> StageName] /\ Stages(q)[k] = "reset_finish"
  BY <1>1, <1>2, ChunkHere
<1>4. /\ counters' = [counters EXCEPT ![q].finish = 0]
      /\ pc' = [pc EXCEPT ![c] = "append"]
      /\ UNCHANGED <<stats, partials, output>>
      /\ UNCHANGED <<prompt, call, layer, keys, item>> /\ UNCHANGED kvVars
  BY <1>2, <1>3 DEF ResetFinish, Goto
<1>5. Split \in Nat \ {0}
  BY SplitBounds DEF RowInv
<1>6. counters \in [Row -> [exchange : Nat, finish : Nat]]
  BY DEF RowInv, RowTypes
<1>7. /\ counters' \in [Row -> [exchange : Nat, finish : Nat]]
      /\ counters'[q].finish = 0 /\ counters'[q].exchange = counters[q].exchange
      /\ \A r \in Row : r # q => counters'[r] = counters[r]
  BY <1>3, <1>4, <1>6, FinishSet
<1>9. PICK R : R = [Stages(q) EXCEPT ![k] = "done"]
  OBVIOUS
<1>10. RowHolds(q)
  BY <1>3 DEF RowInv
<1>11. /\ RowState(R, counters'[q].exchange, counters'[q].finish, output'[q] - Phase + 1)
       /\ Published(R) = Published(Stages(q)) /\ Finished(R) = Finished(Stages(q))
  <2> DEFINE S == Stages(q)
             T == [S EXCEPT ![k] = "done"]
  <2>1. RowState(S, counters[q].exchange, counters[q].finish, output[q] - Phase + 1)
    BY <1>10 DEF RowHolds
  <2>2. S \in [0 .. Split - 1 -> StageName] /\ S[k] = "reset_finish"
    BY <1>3
  <2> HIDE DEF S
  <2>3. /\ RowState(T, counters[q].exchange, 0, output[q] - Phase + 1)
        /\ Published(T) = Published(S) /\ Finished(T) = Finished(S)
    BY <1>3, <1>5, <2>1, <2>2, RowResetFinish, Zenon
  <2>4. R = T
    BY <1>9 DEF S
  <2> HIDE DEF T
  <2>5. QED
    BY <1>4, <1>7, <2>3, <2>4 DEF S
<1>12. RowTypes'
  BY <1>4, <1>7 DEF RowInv, RowTypes, kvVars
<1>13. Split > 1 => /\ \A j \in Published(R) : stats'[q][j] = Phase
                    /\ \A j \in Finished(R) : partials'[q][j] = Phase
  BY <1>4, <1>10, <1>11 DEF RowHolds
<1>14. RowResult(q, R)
  BY <1>4, <1>7, <1>11, <1>12, <1>13 DEF RowResult
<1>15. ItemStep(c, "append") /\ "append" \in Body \ {"item"}
  BY <1>1, <1>4 DEF ItemStep, Body
<1>16. "done" = IF "append" = "append" THEN "done" ELSE "append"
  OBVIOUS
<1>17. QED
  BY <1>3, <1>9, <1>14, <1>15, <1>16, RowMoved, Zenon

LEMMA WholeRowStep == ASSUME RowInv, NEW c \in Cta, WholeRow(c) PROVE RowInv'
<1>1. pc[c] = "item" /\ pc[c] \in Body /\ HasItem(c) /\ InUse(keys[c]) = 1
  BY DEF WholeRow, Body
<1>2. PICK q, k : q = Chunk(c).row /\ k = Chunk(c).chunk
  OBVIOUS
<1>3. /\ Split = 1 /\ layer[c] = Current
      /\ q \in Row /\ k \in 0 .. Split - 1 /\ item[c] = q * Split + k
      /\ Stages(q) \in [0 .. Split - 1 -> StageName] /\ Stages(q)[k] = "pending"
  BY <1>1, <1>2, ChunkHere
<1>4. /\ output' = [output EXCEPT ![q] = output[q] + 1]
      /\ pc' = [pc EXCEPT ![c] = "append"]
      /\ UNCHANGED <<counters, stats, partials>>
      /\ UNCHANGED <<prompt, call, layer, keys, item>> /\ UNCHANGED kvVars
  BY <1>2 DEF WholeRow, Goto, scratch
<1>5. k = 0 /\ Phase \in Int /\ output \in [Row -> Int]
  BY <1>3, PhaseTyped DEF RowInv, RowTypes
<1>6. /\ counters' = counters /\ output'[q] - Phase + 1 = (output[q] - Phase + 1) + 1
      /\ output' \in [Row -> Int] /\ \A r \in Row : r # q => output'[r] = output[r]
  BY <1>3, <1>4, <1>5
<1>7. PICK R : R = [Stages(q) EXCEPT ![k] = "done"]
  OBVIOUS
<1>8. RowState(R, counters'[q].exchange, counters'[q].finish, output'[q] - Phase + 1)
  <2> DEFINE S == Stages(q)
             T == [S EXCEPT ![0] = "done"]
  <2>1. RowState(S, counters[q].exchange, counters[q].finish, output[q] - Phase + 1)
    BY <1>3 DEF RowInv, RowHolds
  <2>2. S \in [0 .. 0 -> StageName] /\ S[0] = "pending"
    BY <1>3, <1>5
  <2> HIDE DEF S
  <2>3. RowState(T, counters[q].exchange, counters[q].finish, (output[q] - Phase + 1) + 1)
    BY <2>1, <2>2, RowWhole, Zenon
  <2>4. R = T
    BY <1>5, <1>7 DEF S
  <2> HIDE DEF T
  <2>5. QED
    BY <1>6, <2>3, <2>4 DEF S
<1>9. RowTypes'
  BY <1>4, <1>6 DEF RowInv, RowTypes, kvVars
<1>10. RowResult(q, R)
  BY <1>3, <1>4, <1>6, <1>8, <1>9 DEF RowResult
<1>11. ItemStep(c, "append") /\ "append" \in Body \ {"item"}
  BY <1>1, <1>4 DEF ItemStep, Body
<1>12. "done" = IF "append" = "append" THEN "done" ELSE "append"
  OBVIOUS
<1>13. QED
  BY <1>3, <1>7, <1>10, <1>11, <1>12, RowMoved, Zenon

LEMMA FinishStep == ASSUME RowInv, NEW c \in Cta, Finish(c) PROVE RowInv'
<1>1. pc[c] = "finish" /\ pc[c] \in Body /\ HasItem(c) /\ InUse(keys[c]) > 1
  BY DEF RowInv, ItemsDealt, Finish, Body
<1>2. PICK q, k : q = Chunk(c).row /\ k = Chunk(c).chunk
  OBVIOUS
<1>3. /\ InUse(keys[c]) = Split /\ layer[c] = Current
      /\ q \in Row /\ k \in 0 .. Split - 1 /\ item[c] = q * Split + k
      /\ Stages(q) \in [0 .. Split - 1 -> StageName] /\ Stages(q)[k] = "finish"
  BY <1>1, <1>2, ChunkHere
<1>4. PICK to, st : /\ to = (IF IsLast(c) THEN "sum" ELSE "append")
                    /\ st = (IF counters[q].finish = Split - 1 THEN "sum" ELSE "done")
  OBVIOUS
<1>5. /\ IsLast(c) <=> counters[q].finish = Split - 1
      /\ partials' = [partials EXCEPT ![q][k] = Phase]
      /\ counters' = [counters EXCEPT ![q].finish = counters[q].finish + 1]
      /\ pc' = [pc EXCEPT ![c] = to] /\ UNCHANGED <<stats, output>>
      /\ UNCHANGED <<prompt, call, layer, keys, item>> /\ UNCHANGED kvVars
  BY <1>2, <1>3, <1>4 DEF Finish, IsLast, Goto, Phase
<1>6. to \in {"sum", "append"} /\ st = IF to = "append" THEN "done" ELSE to
  BY <1>4, <1>5
<1>7. Split \in Nat \ {0} /\ k \in 0 .. Chunks - 1 /\ Phase \in Int
  BY <1>3, SplitBounds, PhaseTyped DEF RowInv
<1>8. /\ partials \in [Row -> [0 .. Chunks - 1 -> Int]]
      /\ counters \in [Row -> [exchange : Nat, finish : Nat]]
      /\ counters[q].finish + 1 \in Nat
  BY <1>3 DEF RowInv, RowTypes
<1>9. /\ counters' \in [Row -> [exchange : Nat, finish : Nat]]
      /\ counters'[q].finish = counters[q].finish + 1
      /\ counters'[q].exchange = counters[q].exchange
      /\ \A r \in Row : r # q => counters'[r] = counters[r]
  <2>1. PICK n \in Nat : n = counters[q].finish + 1
    BY <1>8
  <2>2. q \in Row /\ counters' = [counters EXCEPT ![q].finish = n]
    BY <1>3, <1>5, <2>1
  <2>3. /\ counters' \in [Row -> [exchange : Nat, finish : Nat]]
        /\ counters'[q].finish = n /\ counters'[q].exchange = counters[q].exchange
        /\ \A r \in Row : r # q => counters'[r] = counters[r]
    BY SMTT(30), <1>8, <2>2, FinishSet
  <2>4. QED
    BY <2>1, <2>3
<1>10. /\ partials' \in [Row -> [0 .. Chunks - 1 -> Int]] /\ partials'[q][k] = Phase
       /\ \A j \in 0 .. Chunks - 1 : j # k => partials'[q][j] = partials[q][j]
       /\ \A r \in Row : r # q => partials'[r] = partials[r]
  <2>1. q \in Row /\ partials' = [partials EXCEPT ![q][k] = Phase]
    BY <1>3, <1>5
  <2>2. QED
    BY <1>7, <1>8, <2>1
<1>11. PICK R : R = [Stages(q) EXCEPT ![k] = st]
  OBVIOUS
<1>12. RowHolds(q)
  BY <1>3 DEF RowInv
<1>13. /\ RowState(R, counters'[q].exchange, counters'[q].finish, output'[q] - Phase + 1)
       /\ Published(R) = Published(Stages(q)) /\ Finished(R) = Finished(Stages(q)) \cup {k}
  <2>1. PICK S, ex, fi, wr : /\ S = Stages(q) /\ wr = output[q] - Phase + 1
                             /\ ex = counters[q].exchange /\ fi = counters[q].finish
    OBVIOUS
  <2>2. RowState(S, ex, fi, wr)
    BY <1>12, <2>1 DEF RowHolds
  <2>3. PICK u \in Nat \ {0} : u = Split
    BY <1>7
  <2>4. /\ S \in [0 .. u - 1 -> StageName] /\ S[k] = "finish" /\ k \in 0 .. u - 1
        /\ FinishesTo(st, fi, u) /\ R = [S EXCEPT ![k] = st]
    BY <1>3, <1>4, <1>11, <2>1, <2>3 DEF FinishesTo
  <2>5. /\ RowState(R, ex, fi + 1, wr)
        /\ Published(R) = Published(S) /\ Finished(R) = Finished(S) \cup {k}
    <3>1. u \in Nat \ {0} /\ S \in [0 .. u - 1 -> StageName] /\ k \in 0 .. u - 1 /\ S[k] = "finish"
      BY <2>3, <2>4
    <3>2. \A a, b, d : RowState(S, a, b, d) =>
            \A v : FinishesTo(v, b, u) => \A T : T = [S EXCEPT ![k] = v] =>
              /\ RowState(T, a, b + 1, d)
              /\ Published(T) = Published(S) /\ Finished(T) = Finished(S) \cup {k}
      BY <3>1, RowFinish
    <3>3. FinishesTo(st, fi, u) /\ R = [S EXCEPT ![k] = st]
      BY <2>4
    <3>4. QED
      BY <2>2, <3>2, <3>3
  <2>6. QED
    BY <1>5, <1>9, <2>1, <2>4, <2>5
<1>14. Split > 1 => /\ \A j \in Published(R) : stats'[q][j] = Phase
                    /\ \A j \in Finished(R) : partials'[q][j] = Phase
  <2>1. Finished(Stages(q)) \subseteq 0 .. Chunks - 1
    BY <1>3, <1>7, SplitBounds DEF Finished, RowInv
  <2>2. QED
    BY <1>5, <1>10, <1>12, <1>13, <2>1 DEF RowHolds
<1>15. RowTypes'
  BY <1>5, <1>9, <1>10 DEF RowInv, RowTypes, kvVars
<1>16. RowResult(q, R)
  BY <1>5, <1>9, <1>10, <1>13, <1>14, <1>15 DEF RowResult
<1>17. ItemStep(c, to) /\ to \in Body \ {"item"}
  BY <1>1, <1>5, <1>6 DEF ItemStep, Body
<1>18. QED
  BY <1>3, <1>6, <1>11, <1>16, <1>17, RowMoved, Zenon

(* A step that leaves every chunk of the phase where it is.                *)
LEMMA RowsKept ==
  ASSUME RowInv, UNCHANGED <<counters, stats, partials, output>>,
         Split' = Split, Phase' = Phase, \A r \in Row : Stages(r)' = Stages(r)
  PROVE  \A r \in Row : RowHolds(r)'
<1>1. ASSUME NEW r \in Row
      PROVE  RowHolds(r)'
  BY <1>1 DEF RowInv, RowHolds
<1>2. QED
  BY <1>1

(* The item of a row's chunk, and the CTA it goes to.                      *)
LEMMA RowItems ==
  ASSUME Inv, NEW r \in Row, NEW k \in 0 .. Split - 1
  PROVE  /\ r * Split + k \in Nat /\ r * Split + k < Rows * Split
         /\ (r * Split + k) % Workers \in Cta
         /\ r * Split \in Nat /\ r * Split < Rows * Split /\ (r * Split) % Workers \in Cta
<1>1. /\ Split \in Nat \ {0} /\ Rows \in Nat \ {0} /\ Workers \in Nat \ {0}
      /\ r \in 0 .. Rows - 1 /\ 0 \in 0 .. Split - 1
  BY SplitBounds DEF Row
<1>2. r * Split + k \in Nat /\ r * Split + k < Rows * Split
  BY <1>1, ChunkIsItem
<1>3. r * Split + 0 \in Nat /\ r * Split + 0 < Rows * Split
  BY <1>1, ChunkIsItem
<1>4. r * Split \in Int
  BY <1>1, SMT
<1>5. r * Split \in Nat /\ r * Split < Rows * Split
  BY <1>3, <1>4
<1>6. \A i \in Nat : i % Workers \in Cta
  BY <1>1, SMT DEF Cta
<1>7. QED
  BY <1>2, <1>5, <1>6

(* A CTA that has run out of items has done all its items of the phase, so *)
(* where it waits makes no difference to them.                             *)
LEMMA WaitingMoved ==
  ASSUME RowInv, NEW c \in Cta, pc[c] \in {"item", "barrier", "advance"}, ~ HasItem(c),
         NEW at \in {"barrier", "advance"}, pc' = [pc EXCEPT ![c] = at],
         UNCHANGED <<prompt, call, layer, keys, item>>,
         UNCHANGED <<counters, stats, partials, output>>, UNCHANGED cache, Inv'
  PROVE  RowInv'
<1>1. Split' = Split /\ Current' = Current /\ Phase' = Phase
  BY DEF Split, Current, Furthest, Phase, PhaseNumber
<1>2. pc'[c] = at /\ \A d \in Cta : d # c => pc'[d] = pc[d]
  BY DEF RowInv, Inv, Types
<1>3. \A d \in Cta : Began(d)' <=> Began(d)
  BY <1>1, <1>2 DEF Began
<1>4. /\ Inv /\ \A d \in Cta : item[d] \in Nat
      /\ Split \in Nat \ {0} /\ Rows \in Nat \ {0}
  BY SplitBounds DEF RowInv, RowTypes
<1>5. Rows * Split \in Int /\ item[c] >= Rows * Split
  <2>1. keys[c] = prompt + call
    BY <1>4 DEF Inv, KeysOfStep
  <2>2. ~ (item[c] < Rows * Split)
    BY <2>1 DEF HasItem, Split
  <2>3. Rows * Split \in Int
    BY <1>4, SMT
  <2>4. QED
    BY <1>4, <2>2, <2>3
<1>6. ASSUME NEW i \in Nat, i < Rows * Split, i % Workers \in Cta
      PROVE  Stage(i)' = Stage(i)
  BY <1>2, <1>3, <1>4, <1>5, <1>6 DEF Stage
<1>7. ASSUME NEW r \in Row
      PROVE  Stages(r)' = Stages(r)
  BY <1>1, <1>4, <1>6, RowItems DEF Stages
<1>8. \A r \in Row : RowHolds(r)'
  BY <1>1, <1>7, RowsKept
<1>9. ItemsDealt'
  <2>1. SUFFICES ASSUME NEW d \in Cta
                 PROVE  /\ item[d] % Workers = d
                        /\ pc'[d] \in Body \ {"item"} => HasItem(d)
                        /\ pc'[d] \in Body \ {"item", "append"} => InUse(keys[d]) > 1
                        /\ pc'[d] \in {"barrier", "advance"} => ~ HasItem(d)
    BY DEF ItemsDealt, HasItem
  <2>2. CASE d = c
    BY <1>2, <2>2 DEF RowInv, ItemsDealt, Body
  <2>3. CASE d # c
    BY <1>2, <2>3 DEF RowInv, ItemsDealt
  <2>4. QED
    BY <2>2, <2>3
<1>10. CacheHolds'
  <2>1. SUFFICES ASSUME NEW l \in Layer, NEW r \in Row, NEW j \in 0 .. KvLength - 1,
                        Settled(l, r, j)'
                 PROVE  cache[l][r][j] = j + 1
    BY DEF CacheHolds
  <2>2. (r * Split) % Workers \in Cta
    <3>1. 0 \in 0 .. Split - 1
      BY <1>4
    <3>2. QED
      BY <1>4, <3>1, RowItems
  <2>3. Appended(r)' <=> Appended(r)
    BY <1>1, <1>3, <2>2 DEF Appended
  <2>4. Settled(l, r, j)
    BY <1>1, <2>1, <2>3 DEF Settled
  <2>5. QED
    BY <2>4 DEF RowInv, CacheHolds
<1>11. RowTypes'
  BY DEF RowInv, RowTypes
<1>12. QED
  BY <1>8, <1>9, <1>10, <1>11 DEF RowInv

(* Before it reads the length a CTA has done none of its items, and after  *)
(* it neither, since its first one is the CTA's own number.                *)
LEMMA ReadRows == ASSUME RowInv, NEW c \in Cta, ReadLength(c) PROVE RowInv'
<1>1. /\ pc[c] = "start" /\ pc' = [pc EXCEPT ![c] = "item"]
      /\ item' = [item EXCEPT ![c] = c]
      /\ keys' = [keys EXCEPT ![c] = length[layer[c]] + 1]
      /\ UNCHANGED <<prompt, call, layer, counters, stats, partials, output, cache>>
  BY DEF ReadLength, Goto, scratch, kvVars
<1>2. Inv /\ Inv'
  BY ReadStep DEF RowInv
<1>3. /\ Split' = Split /\ Current' = Current /\ Phase' = Phase
      /\ Split \in Nat \ {0} /\ Workers \in Nat \ {0}
  BY <1>1, <1>2, SplitBounds DEF Split, Current, Furthest, Phase, PhaseNumber
<1>4. /\ pc'[c] = "item" /\ item'[c] = c /\ c \in Nat
      /\ \A d \in Cta : d # c => pc'[d] = pc[d] /\ item'[d] = item[d] /\ keys'[d] = keys[d]
      /\ \A d \in Cta : item[d] \in Nat
  BY <1>1, <1>2, Sizes DEF RowInv, RowTypes, Inv, Types
<1>5. ~ Began(c) /\ \A d \in Cta : d # c => (Began(d)' <=> Began(d))
  BY <1>1, <1>3, <1>4 DEF Began
<1>6. ASSUME NEW i \in Nat, i % Workers = c
      PROVE  i >= c
  BY <1>3, <1>6, SMT
<1>7. ASSUME NEW i \in Nat, i % Workers \in Cta
      PROVE  Stage(i)' = Stage(i)
  <2>1. CASE i % Workers = c
    <3>1. i >= c
      BY <1>6, <2>1
    <3>2. Stage(i)' = "pending"
      BY <1>4, <2>1, <3>1 DEF Stage
    <3>3. Stage(i) = "pending"
      BY <1>5, <2>1 DEF Stage
    <3>4. QED
      BY <3>2, <3>3
  <2>2. CASE i % Workers # c
    BY <1>4, <1>5, <1>7, <2>2 DEF Stage
  <2>3. QED
    BY <2>1, <2>2
<1>8. ASSUME NEW r \in Row
      PROVE  Stages(r)' = Stages(r)
  BY <1>2, <1>3, <1>7, RowItems DEF Stages
<1>9. \A r \in Row : RowHolds(r)'
  BY <1>1, <1>3, <1>8, RowsKept
<1>10. ItemsDealt'
  <2>1. SUFFICES ASSUME NEW d \in Cta
                 PROVE  /\ item'[d] % Workers = d
                        /\ pc'[d] \in Body \ {"item"} => HasItem(d)'
                        /\ pc'[d] \in Body \ {"item", "append"} => InUse(keys'[d]) > 1
                        /\ pc'[d] \in {"barrier", "advance"} => ~ HasItem(d)'
    BY DEF ItemsDealt
  <2>2. CASE d = c
    <3>1. c % Workers = c
      BY <1>3, SMT DEF Cta
    <3>2. QED
      BY <1>4, <2>2, <3>1
  <2>3. CASE d # c
    <3>1. HasItem(d)' <=> HasItem(d)
      BY <1>4, <2>3 DEF HasItem
    <3>2. QED
      BY <1>4, <2>3, <3>1 DEF RowInv, ItemsDealt
  <2>4. QED
    BY <2>2, <2>3
<1>11. CacheHolds'
  <2>1. SUFFICES ASSUME NEW l \in Layer, NEW r \in Row, NEW j \in 0 .. KvLength - 1,
                        Settled(l, r, j)'
                 PROVE  cache[l][r][j] = j + 1
    BY <1>1 DEF CacheHolds
  <2>2. r * Split \in Nat /\ (r * Split) % Workers \in Cta
    <3>1. 0 \in 0 .. Split - 1
      BY <1>3
    <3>2. QED
      BY <1>2, <3>1, RowItems
  <2>3. Appended(r)' => Appended(r)
    <3>1. CASE (r * Split) % Workers = c
      BY <1>3, <1>4, <1>6, <2>2, <3>1 DEF Appended
    <3>2. CASE (r * Split) % Workers # c
      BY <1>3, <1>4, <1>5, <2>2, <3>2 DEF Appended
    <3>3. QED
      BY <3>1, <3>2
  <2>4. Settled(l, r, j)
    BY <1>1, <1>3, <2>1, <2>3 DEF Settled
  <2>5. QED
    BY <2>4 DEF RowInv, CacheHolds
<1>12. RowTypes'
  <2>1. item' \in [Cta -> Nat]
    BY <1>1, <1>4 DEF RowInv, RowTypes
  <2>2. QED
    BY <1>1, <2>1 DEF RowInv, RowTypes
<1>13. QED
  BY <1>2, <1>9, <1>10, <1>11, <1>12 DEF RowInv

(* Appending ends an item; the CTA's next one is a round of CTAs on.       *)
LEMMA AppendRows == ASSUME RowInv, NEW c \in Cta, Append(c) PROVE RowInv'
<1>1. pc[c] = "append" /\ pc[c] \in Body /\ HasItem(c)
  BY DEF Append, RowInv, ItemsDealt, Body
<1>2. PICK q, k : q = Chunk(c).row /\ k = Chunk(c).chunk
  OBVIOUS
<1>3. /\ layer[c] = Current /\ Began(c) /\ q \in Row /\ k \in 0 .. Split - 1
      /\ item[c] = q * Split + k /\ item[c] % Workers = c
  BY <1>1, <1>2, ChunkHere
<1>4. Inv /\ Inv'
  BY <1>1, BodyStep DEF RowInv, Append, Goto, Body
<1>5. /\ Split \in Nat \ {0} /\ Workers \in Nat \ {0} /\ Rows \in Nat \ {0}
      /\ keys[c] = prompt + call /\ prompt \in Nat /\ call \in Nat \ {0}
      /\ \A d \in Cta : item[d] \in Nat
  <2>1. pc[c] \notin {"start", "end"}
    BY <1>1
  <2>2. keys[c] = prompt + call /\ prompt \in Nat /\ call \in Nat \ {0}
    BY <1>4, <2>1 DEF Inv, KeysOfStep, Types
  <2>3. QED
    BY <1>4, <2>2, SplitBounds DEF RowInv, RowTypes
<1>6. PICK m \in Nat : m = prompt + call - 1
  BY <1>5
<1>7. /\ pc' = [pc EXCEPT ![c] = "item"]
      /\ item' = [item EXCEPT ![c] = item[c] + Workers]
      /\ cache' = IF k = 0 THEN [cache EXCEPT ![Current][q][m] = m + 1] ELSE cache
      /\ UNCHANGED <<prompt, call, layer, keys, counters, stats, partials, output>>
  <2>1. prompt + call = m + 1
    BY <1>5, <1>6
  <2>2. keys[c] - 1 = m /\ layer[c] = Current
    BY <1>3, <1>5, <1>6
  <2>3. /\ pc' = [pc EXCEPT ![c] = "item"]
        /\ item' = [item EXCEPT ![c] = item[c] + Workers]
        /\ UNCHANGED <<prompt, call, layer, keys, counters, stats, partials, output>>
    BY DEF Append, Goto, scratch
  <2>4. cache' = IF k = 0 THEN [cache EXCEPT ![layer[c]][q][keys[c] - 1] = prompt + call]
                          ELSE cache
    BY <1>2 DEF Append, NewPosition
  <2>5. QED
    BY <2>1, <2>2, <2>3, <2>4
<1>8. Split' = Split /\ Current' = Current /\ Phase' = Phase
  BY <1>7 DEF Split, Current, Furthest, Phase, PhaseNumber
<1>9. /\ pc'[c] = "item" /\ item'[c] = item[c] + Workers
      /\ \A d \in Cta : d # c => pc'[d] = pc[d] /\ item'[d] = item[d]
  BY <1>4, <1>7 DEF RowInv, RowTypes, Inv, Types
<1>10. \A d \in Cta : Began(d)' <=> Began(d)
  BY <1>1, <1>7, <1>8, <1>9 DEF Began
<1>11. ASSUME NEW i \in Nat, i % Workers = c, item[c] < i
       PROVE  item[c] + Workers <= i
  BY <1>3, <1>5, <1>11, RoundApart
<1>12. ASSUME NEW i \in Nat, i % Workers \in Cta
       PROVE  Stage(i)' = Stage(i)
  <2>1. CASE i % Workers = c
    <3>1. CASE i <= item[c]
      BY <1>1, <1>3, <1>5, <1>9, <1>10, <2>1, <3>1 DEF Stage
    <3>2. CASE item[c] < i
      BY SMTT(30), <1>3, <1>5, <1>9, <1>10, <1>11, <2>1, <3>2 DEF Stage
    <3>3. QED
      BY <1>5, <3>1, <3>2
  <2>2. CASE i % Workers # c
    BY <1>9, <1>10, <1>12, <2>2 DEF Stage
  <2>3. QED
    BY <2>1, <2>2
<1>13. ASSUME NEW r \in Row
       PROVE  Stages(r)' = Stages(r)
  BY <1>4, <1>8, <1>12, RowItems DEF Stages
<1>14. \A r \in Row : RowHolds(r)'
  BY <1>7, <1>8, <1>13, RowsKept
<1>15. ItemsDealt'
  <2>1. SUFFICES ASSUME NEW d \in Cta
                 PROVE  /\ item'[d] % Workers = d
                        /\ pc'[d] \in Body \ {"item"} => HasItem(d)'
                        /\ pc'[d] \in Body \ {"item", "append"} => InUse(keys[d]) > 1
                        /\ pc'[d] \in {"barrier", "advance"} => ~ HasItem(d)'
    BY <1>7 DEF ItemsDealt
  <2>2. CASE d = c
    <3>1. (item[c] + Workers) % Workers = c
      BY <1>3, <1>5, NextRound
    <3>2. QED
      BY <1>9, <2>2, <3>1
  <2>3. CASE d # c
    <3>1. HasItem(d)' <=> HasItem(d)
      BY <1>7, <1>9, <2>3 DEF HasItem
    <3>2. QED
      BY <1>9, <2>3, <3>1 DEF RowInv, ItemsDealt
  <2>4. QED
    BY <2>2, <2>3
<1>16. cache' \in [Layer -> [Row -> [0 .. KvLength - 1 -> Int]]]
  <2>1. cache \in [Layer -> [Row -> [0 .. KvLength - 1 -> Int]]] /\ m + 1 \in Int
    BY DEF RowInv, RowTypes
  <2>2. QED
    BY <1>7, <2>1
<1>17. CacheHolds'
  <2>1. SUFFICES ASSUME NEW l \in Layer, NEW r \in Row, NEW j \in 0 .. KvLength - 1,
                        Settled(l, r, j)'
                 PROVE  cache'[l][r][j] = j + 1
    BY DEF CacheHolds
  <2>2. r * Split \in Nat /\ (r * Split) % Workers \in Cta /\ r \in Nat /\ q \in Nat
    <3>1. 0 \in 0 .. Split - 1
      BY <1>5
    <3>2. r \in 0 .. Rows - 1 /\ q \in 0 .. Rows - 1
      BY <1>3 DEF Row
    <3>3. QED
      BY <1>4, <1>5, <3>1, <3>2, RowItems
  <2>3. cache'[l][r][j] = IF k = 0 /\ l = Current /\ r = q /\ j = m THEN m + 1
                                                                  ELSE cache[l][r][j]
    <3>1. cache \in [Layer -> [Row -> [0 .. KvLength - 1 -> Int]]]
      BY DEF RowInv, RowTypes
    <3>2. cache' = IF k = 0 THEN [cache EXCEPT ![Current][q][m] = m + 1] ELSE cache
      BY <1>7
    <3>3. QED
      BY <3>1, <3>2
  <2>4. CASE k = 0 /\ l = Current /\ r = q /\ j = m
    BY <2>3, <2>4
  <2>5. CASE ~ (k = 0 /\ l = Current /\ r = q /\ j = m)
    <3>1. CASE Settled(l, r, j)
      BY <2>3, <2>5, <3>1 DEF RowInv, CacheHolds
    <3>2. CASE ~ Settled(l, r, j)
      <4>1. j = m /\ l = Current /\ Appended(r)' /\ ~ Appended(r)
        BY <1>6, <1>7, <1>8, <2>1, <3>2 DEF Settled
      <4>2. (r * Split) % Workers = c
        BY <1>8, <1>9, <1>10, <2>2, <4>1 DEF Appended
      <4>3. r * Split < item[c] + Workers /\ ~ (r * Split < item[c])
        BY <1>3, <1>8, <1>9, <4>1, <4>2 DEF Appended
      <4>4. r * Split = item[c]
        BY <1>5, <1>11, <2>2, <4>2, <4>3
      <4>5. r * Split + 0 = q * Split + k /\ 0 \in 0 .. Split - 1
        BY <1>3, <1>5, <2>2, <4>4
      <4>6. r = q /\ k = 0
        BY <1>3, <1>5, <2>2, <4>5, SameItem
      <4>7. QED
        BY <2>5, <4>1, <4>6
    <3>3. QED
      BY <3>1, <3>2
  <2>6. QED
    BY <2>4, <2>5
<1>18. RowTypes'
  <2>1. item' \in [Cta -> Nat]
    BY <1>5, <1>7 DEF RowInv, RowTypes
  <2>2. QED
    BY <1>7, <1>16, <2>1 DEF RowInv, RowTypes
<1>19. QED
  BY <1>4, <1>14, <1>15, <1>17, <1>18 DEF RowInv

-----------------------------------------------------------------------------
(* Between two phases: nobody has begun the items of the next one.         *)

NoneBegan == \A c \in Cta : ~ Began(c)

RowsAtStart ==
  \A r \in Row :
    counters[r].exchange = 0 /\ counters[r].finish = 0 /\ output[r] = Phase - 1

LEMMA FreshRows ==
  Inv /\ RowTypes /\ NoneBegan => (RowsAtStart <=> \A r \in Row : RowHolds(r))
<1>1. SUFFICES ASSUME Inv, RowTypes, NoneBegan, NEW r \in Row
               PROVE  RowHolds(r) <=> /\ counters[r].exchange = 0 /\ counters[r].finish = 0
                                      /\ output[r] = Phase - 1
  BY DEF RowsAtStart
<1>2. Split \in Nat \ {0} /\ output[r] \in Int /\ Phase \in Int
  BY <1>1, SplitBounds, PhaseTyped DEF RowTypes
<1>3. \A k \in 0 .. Split - 1 : Stage(r * Split + k) = "pending"
  BY <1>1, RowItems DEF Stage, NoneBegan
<1>4. Stages(r) \in [0 .. Split - 1 -> StageName] /\ \A k \in 0 .. Split - 1 : Stages(r)[k] = "pending"
  BY <1>3 DEF Stages, StageName
<1>5. Published(Stages(r)) = {} /\ Finished(Stages(r)) = {}
  BY <1>4 DEF Published, Finished
<1>6. output[r] - Phase + 1 = 0 <=> output[r] = Phase - 1
  BY <1>2
<1>7. RowState(Stages(r), counters[r].exchange, counters[r].finish, output[r] - Phase + 1)
        <=> /\ counters[r].exchange = 0 /\ counters[r].finish = 0
            /\ output[r] - Phase + 1 = 0
  BY <1>2, <1>4, RowAtStart
<1>8. QED
  BY <1>5, <1>6, <1>7 DEF RowHolds

(* A CTA at the barrier has done all its items.                            *)
LEMMA ItemsPast ==
  ASSUME RowInv, NEW c \in Cta, pc[c] \in {"barrier", "advance"}
  PROVE  Rows * Split \in Int /\ item[c] \in Nat /\ item[c] >= Rows * Split
<1>1. keys[c] = prompt + call /\ ~ HasItem(c) /\ item[c] \in Nat
  BY DEF RowInv, Inv, KeysOfStep, ItemsDealt, RowTypes
<1>2. ~ (item[c] < Rows * Split)
  BY <1>1 DEF HasItem, Split
<1>3. Split \in Nat \ {0} /\ Rows \in Nat \ {0}
  BY SplitBounds DEF RowInv
<1>4. Rows * Split \in Int
  BY <1>3, SMT
<1>5. QED
  BY <1>1, <1>2, <1>4

(* When all CTAs stand at the barrier of the phase, its rows are complete. *)
LEMMA PhaseComplete ==
  ASSUME RowInv,
         \A c \in Cta : layer[c] = Current /\ pc[c] \in {"barrier", "advance"}
  PROVE  \A r \in Row : /\ counters[r].exchange = 0 /\ counters[r].finish = 0
                        /\ output[r] = Phase /\ Appended(r)
<1>1. SUFFICES ASSUME NEW r \in Row
               PROVE  /\ counters[r].exchange = 0 /\ counters[r].finish = 0
                      /\ output[r] = Phase /\ Appended(r)
  OBVIOUS
<1>2. Split \in Nat \ {0} /\ output[r] \in Int /\ Phase \in Int /\ Inv
  BY SplitBounds, PhaseTyped DEF RowInv, RowTypes
<1>3. ASSUME NEW i \in Nat, i < Rows * Split, NEW c \in Cta
      PROVE  Began(c) /\ item[c] > i
  BY <1>3, ItemsPast DEF Began
<1>4. ASSUME NEW k \in 0 .. Split - 1
      PROVE  Stage(r * Split + k) = "done"
  <2>1. PICK i \in Nat : i = r * Split + k /\ i < Rows * Split /\ i % Workers \in Cta
    BY <1>2, <1>4, RowItems
  <2>2. Began(i % Workers) /\ item[i % Workers] > i /\ item[i % Workers] \in Nat
    BY <1>3, <2>1 DEF RowInv, RowTypes
  <2>3. ~ (item[i % Workers] < i) /\ item[i % Workers] # i
    BY <2>2
  <2>4. QED
    BY <2>1, <2>2, <2>3 DEF Stage
<1>5. Stages(r) \in [0 .. Split - 1 -> StageName] /\ \A k \in 0 .. Split - 1 : Stages(r)[k] = "done"
  BY <1>4 DEF Stages, StageName
<1>6. RowState(Stages(r), counters[r].exchange, counters[r].finish, output[r] - Phase + 1)
  BY <1>1 DEF RowInv, RowHolds
<1>7. /\ counters[r].exchange = 0 /\ counters[r].finish = 0
      /\ output[r] - Phase + 1 = 1
  BY <1>2, <1>5, <1>6, RowAtEnd
<1>8. Appended(r)
  <2>1. 0 \in 0 .. Split - 1
    BY <1>2
  <2>2. r * Split \in Nat /\ r * Split < Rows * Split /\ (r * Split) % Workers \in Cta
    BY <1>2, <2>1, RowItems
  <2>3. QED
    BY <1>3, <2>2 DEF Appended
<1>9. QED
  BY <1>2, <1>7, <1>8

(* A CTA goes on to the next layer: either the others are there already,   *)
(* or it is the first and all rows of the phase are complete.              *)
LEMMA LayerRows ==
  ASSUME RowInv, Inv', NEW c \in Cta, pc[c] \in {"barrier", "advance"}, NextLayer(c),
         \A d \in Cta : \/ layer[d] > layer[c]
                        \/ layer[d] = layer[c] /\ pc[d] \in {"barrier", "advance"},
         UNCHANGED <<prompt, call, keys, item>>,
         UNCHANGED <<counters, stats, partials, output>>, UNCHANGED cache
  PROVE  RowInv'
<1>1. /\ \A d \in Cta : layer[d] \in Int /\ layer[d] <= Current /\ layer'[d] \in Int
      /\ Current \in Int /\ call \in Int /\ Layers \in Int
      /\ \E d \in Cta : layer[d] = Current
      /\ Split \in Nat \ {0} /\ Split' = Split
  BY CurrentLayer, SplitBounds, Sizes DEF RowInv, Inv, Types, Split
<1>2. /\ layer'[c] = layer[c] + 1 /\ pc'[c] \in {"start", "end"}
      /\ \A d \in Cta : d # c => layer'[d] = layer[d] /\ pc'[d] = pc[d]
  BY DEF NextLayer, Goto, RowInv, Inv, Types
<1>3. ASSUME NEW e \in Cta, \A d \in Cta : layer'[d] <= layer'[e]
      PROVE  Current' = layer'[e]
  <2>1. PICK at : at = layer'
    OBVIOUS
  <2>2. at \in [Cta -> Int] /\ \A a, b \in Cta : at[a] <= at[b] + 1
    BY <2>1 DEF Inv, Types, LockStep
  <2>3. Furthest(at) = at[e]
    BY <1>3, <2>1, <2>2, FurthestIs
  <2>4. QED
    BY <2>1, <2>3 DEF Current, Furthest
<1>4. ItemsDealt'
  <2>1. SUFFICES ASSUME NEW d \in Cta
                 PROVE  /\ item[d] % Workers = d
                        /\ pc'[d] \in Body \ {"item"} => HasItem(d)
                        /\ pc'[d] \in Body \ {"item", "append"} => InUse(keys[d]) > 1
                        /\ pc'[d] \in {"barrier", "advance"} => ~ HasItem(d)
    BY DEF ItemsDealt, HasItem
  <2>2. CASE d = c
    BY <1>2, <2>2 DEF RowInv, ItemsDealt, Body
  <2>3. CASE d # c
    BY <1>2, <2>3 DEF RowInv, ItemsDealt
  <2>4. QED
    BY <2>2, <2>3
<1>5. RowTypes'
  BY DEF RowInv, RowTypes
<1>6. \A r \in Row : (r * Split) % Workers \in Cta
  <2>1. 0 \in 0 .. Split - 1
    BY <1>1
  <2>2. QED
    BY <2>1, RowItems DEF RowInv
<1>7. CASE layer[c] < Current
  <2>1. PICK e \in Cta : layer[e] = Current
    BY <1>1
  <2>2. layer'[e] = Current /\ \A d \in Cta : layer'[d] <= layer'[e]
    BY <1>1, <1>2, <1>7, <2>1
  <2>3. Current' = Current
    BY <1>3, <2>2
  <2>4. Phase' = Phase
    BY <2>3 DEF Phase, PhaseNumber
  <2>5. \A d \in Cta : Began(d)' <=> Began(d)
    BY <1>1, <1>2, <1>7, <2>3 DEF Began
  <2>6. ~ Began(c)
    BY <1>7, <1>1 DEF Began
  <2>7. ASSUME NEW i \in Nat, i % Workers \in Cta
        PROVE  Stage(i)' = Stage(i)
    BY <1>2, <2>5, <2>6, <2>7 DEF Stage
  <2>8. ASSUME NEW r \in Row
        PROVE  Stages(r)' = Stages(r)
    BY <1>1, <2>7, RowItems DEF Stages, RowInv
  <2>9. \A r \in Row : RowHolds(r)'
    BY <1>1, <2>4, <2>8, RowsKept
  <2>10. CacheHolds'
    <3>1. SUFFICES ASSUME NEW l \in Layer, NEW r \in Row, NEW j \in 0 .. KvLength - 1,
                          Settled(l, r, j)'
                   PROVE  cache[l][r][j] = j + 1
      BY DEF CacheHolds
    <3>2. Appended(r)' <=> Appended(r)
      BY <1>1, <1>6, <2>5 DEF Appended
    <3>3. Settled(l, r, j)
      BY <2>3, <3>1, <3>2 DEF Settled
    <3>4. QED
      BY <3>3 DEF RowInv, CacheHolds
  <2>11. QED
    BY <1>4, <1>5, <2>9, <2>10 DEF RowInv
<1>8. CASE layer[c] = Current
  <2>1. \A d \in Cta : layer[d] = Current /\ pc[d] \in {"barrier", "advance"}
    BY <1>1, <1>8
  <2>2. \A r \in Row : /\ counters[r].exchange = 0 /\ counters[r].finish = 0
                       /\ output[r] = Phase /\ Appended(r)
    BY <2>1, PhaseComplete
  <2>3. layer'[c] = Current + 1 /\ \A d \in Cta : layer'[d] <= layer'[c]
    BY <1>1, <1>2, <1>8, <2>1
  <2>4. Current' = Current + 1
    BY <1>3, <2>3
  <2>5. Phase' = Phase + 1
    <3>1. (call - 1) * Layers \in Int
      BY <1>1, SMT
    <3>2. QED
      BY <1>1, <2>4, <3>1 DEF Phase, PhaseNumber
  <2>6. NoneBegan'
    BY <1>1, <1>2, <2>1, <2>4 DEF NoneBegan, Began
  <2>7. RowsAtStart'
    <3>1. Phase \in Int
      BY PhaseTyped DEF RowInv
    <3>2. QED
      BY <2>2, <2>5, <3>1 DEF RowsAtStart
  <2>8. (Inv /\ RowTypes /\ NoneBegan => (RowsAtStart <=> \A r \in Row : RowHolds(r)))'
    BY FreshRows, PTL
  <2>9. \A r \in Row : RowHolds(r)'
    BY <1>5, <2>6, <2>7, <2>8
  <2>10. CacheHolds'
    <3>1. SUFFICES ASSUME NEW l \in Layer, NEW r \in Row, NEW j \in 0 .. KvLength - 1,
                          Settled(l, r, j)'
                   PROVE  cache[l][r][j] = j + 1
      BY DEF CacheHolds
    <3>2. ~ Appended(r)'
      BY <1>1, <1>6, <2>6 DEF Appended, NoneBegan
    <3>3. l \in Int
      BY DEF Layer
    <3>4. Settled(l, r, j)
      BY <1>1, <2>2, <2>4, <3>1, <3>2, <3>3 DEF Settled
    <3>5. QED
      BY <3>4 DEF RowInv, CacheHolds
  <2>11. QED
    BY <1>4, <1>5, <2>9, <2>10 DEF RowInv
<1>9. QED
  BY <1>1, <1>7, <1>8

(* Leaving the barrier, and block 0's publication behind it.               *)
LEMMA LeaveRows == ASSUME RowInv, NEW c \in Cta, LeaveBarrier(c) PROVE RowInv'
<1>1. /\ pc[c] = "barrier"
      /\ \A d \in Cta : \/ layer[d] > layer[c]
                        \/ layer[d] = layer[c] /\ pc[d] \in {"barrier", "advance"}
      /\ UNCHANGED <<prompt, call, keys, item>>
      /\ UNCHANGED <<counters, stats, partials, output>> /\ UNCHANGED cache
  BY DEF LeaveBarrier, kvVars, scratch
<1>2. Inv'
  BY LeaveStep DEF RowInv
<1>3. CASE c # 0
  <2>1. NextLayer(c)
    BY <1>3 DEF LeaveBarrier
  <2>2. QED
    BY <1>1, <1>2, <2>1, LayerRows
<1>4. CASE c = 0
  <2>1. pc' = [pc EXCEPT ![c] = "advance"] /\ UNCHANGED <<prompt, call, layer, keys, item>>
    BY <1>4 DEF LeaveBarrier, Goto
  <2>2. ~ HasItem(c)
    BY <1>1 DEF RowInv, ItemsDealt
  <2>3. QED
    BY <1>1, <1>2, <2>1, <2>2, WaitingMoved
<1>5. QED
  BY <1>3, <1>4

LEMMA AdvanceRows == ASSUME RowInv, NEW c \in Cta, AdvanceLength(c) PROVE RowInv'
<1>1. /\ pc[c] = "advance" /\ NextLayer(c)
      /\ UNCHANGED <<prompt, call, keys, item>>
      /\ UNCHANGED <<counters, stats, partials, output>> /\ UNCHANGED cache
  BY DEF AdvanceLength, scratch
<1>2. \A d \in Cta : \/ layer[d] > layer[c]
                     \/ layer[d] = layer[c] /\ pc[d] \in {"barrier", "advance"}
  <2>1. TAKE d \in Cta
  <2>2. layer[d] \in Int /\ layer[c] \in Int
    BY DEF RowInv, Inv, Types
  <2>3. layer[d] >= layer[c] /\ (layer[d] = layer[c] => pc[d] \in {"barrier", "advance"})
    BY <1>1 DEF RowInv, Inv, LockStep
  <2>4. QED
    BY <2>2, <2>3
<1>3. Inv'
  BY AdvanceStep DEF RowInv
<1>4. QED
  BY <1>1, <1>2, <1>3, LayerRows

LEMMA ArriveRows == ASSUME RowInv, NEW c \in Cta, ArriveBarrier(c) PROVE RowInv'
<1>1. /\ pc[c] = "item" /\ ~ HasItem(c) /\ pc' = [pc EXCEPT ![c] = "barrier"]
      /\ UNCHANGED <<prompt, call, layer, keys, item>> /\ UNCHANGED length
      /\ UNCHANGED <<counters, stats, partials, output>> /\ UNCHANGED cache
  BY DEF ArriveBarrier, Goto, scratch, kvVars
<1>2. Inv'
  BY <1>1, BodyStep DEF RowInv, Body
<1>3. QED
  BY <1>1, <1>2, WaitingMoved

LEMMA SplitTyped == Inv => Split \in Nat \ {0}
<1>1. QED
  BY SplitBounds

(* The next decode step: every layer has its key, and its rows are at rest. *)
LEMMA CallRows == ASSUME RowInv, NextCall PROVE RowInv'
<1>1. /\ \A c \in Cta : pc[c] = "end"
      /\ call' = call + 1 /\ layer' = [c \in Cta |-> 1] /\ pc' = [c \in Cta |-> "start"]
      /\ UNCHANGED <<prompt, keys, item>> /\ UNCHANGED <<counters, stats, partials, output>>
      /\ UNCHANGED cache
  BY DEF NextCall, KernelEnded, scratch, kvVars
<1>2. Inv /\ Inv' /\ RowTypes
  BY CallStep DEF RowInv
<1>3. Current = Layers + 1 /\ Layers \in Nat /\ call \in Nat /\ prompt \in Nat /\ 0 \in Cta
  <2>1. \A d \in Cta : layer[d] = Layers + 1
    BY <1>1, <1>2 DEF Inv, EndedBehindLayers
  <2>2. QED
    BY <1>2, <2>1, CurrentLayer, Sizes DEF Inv, Types
<1>4. Current' = 1
  BY <1>1, <1>3 DEF Current, Furthest
<1>5. Phase' = Phase
  <2>1. call * Layers = (call - 1) * Layers + Layers /\ (call - 1) * Layers \in Int
    BY <1>3, SMT
  <2>2. Phase = (call - 1) * Layers + (Layers + 1)
    BY <1>3 DEF Phase, PhaseNumber
  <2>3. Phase' = (call + 1 - 1) * Layers + 1
    BY <1>1, <1>3, <1>4 DEF Phase, PhaseNumber
  <2>4. call + 1 - 1 = call
    BY <1>3
  <2>5. QED
    BY <1>3, <2>1, <2>2, <2>3, <2>4
<1>6. NoneBegan /\ NoneBegan'
  BY <1>1 DEF NoneBegan, Began
<1>7. RowTypes'
  BY <1>1, <1>2 DEF RowTypes
<1>8. RowsAtStart
  BY <1>2, <1>6, FreshRows DEF RowInv
<1>9. RowsAtStart'
  BY <1>1, <1>5, <1>8 DEF RowsAtStart
<1>10. (Inv /\ RowTypes /\ NoneBegan => (RowsAtStart <=> \A r \in Row : RowHolds(r)))'
  BY FreshRows, PTL
<1>11. \A r \in Row : RowHolds(r)'
  BY <1>2, <1>6, <1>7, <1>9, <1>10
<1>12. ItemsDealt'
  BY <1>1 DEF RowInv, ItemsDealt, Body
<1>13. CacheHolds'
  <2>1. SUFFICES ASSUME NEW l \in Layer, NEW r \in Row, NEW j \in 0 .. KvLength - 1,
                        Settled(l, r, j)'
                 PROVE  cache[l][r][j] = j + 1
    BY <1>1 DEF CacheHolds
  <2>2. l \in 1 .. Layers
    BY DEF Layer
  <2>3. ~ Appended(r)'
    <3>1. Split' \in Nat \ {0}
      <4>1. (Inv => Split \in Nat \ {0})'
        BY SplitTyped, PTL
      <4>2. QED
        BY <1>2, <4>1
    <3>2. PICK u \in Nat \ {0} : u = Split'
      BY <3>1
    <3>3. r * u \in Nat /\ Workers \in Nat \ {0}
      <4>1. r \in Nat
        BY <1>2, SplitBounds DEF Row
      <4>2. QED
        BY <1>2, <4>1, SplitBounds, SMT
    <3>4. (r * u) % Workers \in Cta
      BY <3>3, SMT DEF Cta
    <3>5. QED
      BY <1>6, <3>2, <3>4 DEF Appended, NoneBegan
  <2>4. j < prompt + call
    BY <1>1, <1>3, <1>4, <2>1, <2>2, <2>3 DEF Settled
  <2>5. Settled(l, r, j)
    BY <1>3, <2>2, <2>4 DEF Settled
  <2>6. QED
    BY <2>5 DEF RowInv, CacheHolds
<1>14. QED
  BY <1>2, <1>7, <1>11, <1>12, <1>13 DEF RowInv

LEMMA RowsInit == Init => RowInv
<1>1. SUFFICES ASSUME Init PROVE RowInv
  OBVIOUS
<1>2. Inv
  BY <1>1, InvInit
<1>3. /\ \A c \in Cta : layer[c] = 1 /\ pc[c] = "start" /\ item[c] = c
      /\ call = 1 /\ prompt \in Nat /\ Layers \in Int /\ Workers \in Nat \ {0}
      /\ 0 \in Cta /\ Cta \subseteq Nat
  BY <1>1, Sizes DEF Init
<1>4. RowTypes
  <2>1. cache \in [Layer -> [Row -> [0 .. KvLength - 1 -> Int]]]
    BY <1>1 DEF Init
  <2>2. /\ counters \in [Row -> [exchange : Nat, finish : Nat]]
        /\ stats \in [Row -> [0 .. Chunks - 1 -> Int]]
        /\ partials \in [Row -> [0 .. Chunks - 1 -> Int]]
        /\ output \in [Row -> Int] /\ item \in [Cta -> Nat]
    BY <1>1, <1>3 DEF Init
  <2>3. QED
    BY <2>1, <2>2 DEF RowTypes
<1>5. ItemsDealt
  <2>1. \A c \in Cta : c % Workers = c
    BY <1>3, SMT DEF Cta
  <2>2. QED
    BY <1>3, <2>1 DEF ItemsDealt, Body
<1>6. Current = 1 /\ Phase = 1
  <2>1. Current = 1
    BY <1>3 DEF Current, Furthest
  <2>2. (call - 1) * Layers = 0
    BY <1>3, SMT
  <2>3. QED
    BY <2>1, <2>2 DEF Phase, PhaseNumber
<1>7. NoneBegan
  BY <1>3 DEF NoneBegan, Began
<1>8. RowsAtStart
  BY <1>1, <1>6 DEF RowsAtStart, Init
<1>9. \A r \in Row : RowHolds(r)
  BY <1>2, <1>4, <1>7, <1>8, FreshRows
<1>10. CacheHolds
  <2>1. SUFFICES ASSUME NEW l \in Layer, NEW r \in Row, NEW j \in 0 .. KvLength - 1,
                        Settled(l, r, j)
                 PROVE  cache[l][r][j] = j + 1
    BY DEF CacheHolds
  <2>2. (r * Split) % Workers \in Cta
    <3>1. 0 \in 0 .. Split - 1
      BY <1>2, SplitBounds
    <3>2. QED
      BY <1>2, <3>1, RowItems
  <2>3. ~ Appended(r)
    BY <1>7, <2>2 DEF NoneBegan, Appended
  <2>4. l \in 1 .. Layers
    BY DEF Layer
  <2>5. j < prompt
    BY <1>3, <1>6, <2>1, <2>3, <2>4 DEF Settled
  <2>6. QED
    BY <1>1, <2>5 DEF Init
<1>11. QED
  BY <1>2, <1>4, <1>5, <1>9, <1>10 DEF RowInv

LEMMA RowsStuttered == ASSUME RowInv, UNCHANGED vars PROVE RowInv'
<1>1. Inv'
  BY InvStep DEF RowInv
<1>2. /\ UNCHANGED <<prompt, call, layer, pc, keys, item>>
      /\ UNCHANGED <<counters, stats, partials, output, cache>>
  BY DEF vars, ctaVars, scratch, kvVars
<1>3. Split' = Split /\ Current' = Current /\ Phase' = Phase
  BY <1>2 DEF Split, Current, Furthest, Phase, PhaseNumber
<1>4. \A c : Began(c)' <=> Began(c)
  BY <1>2, <1>3 DEF Began
<1>5. \A i : Stage(i)' = Stage(i)
  BY <1>2, <1>4 DEF Stage
<1>6. \A r : Stages(r)' = Stages(r) /\ (Appended(r)' <=> Appended(r))
  BY <1>2, <1>3, <1>4, <1>5 DEF Stages, Appended
<1>7. \A r \in Row : RowHolds(r)'
  BY <1>2, <1>3, <1>6, RowsKept
<1>8. RowTypes'
  BY <1>2 DEF RowInv, RowTypes
<1>9. ItemsDealt'
  BY <1>2 DEF RowInv, ItemsDealt, HasItem
<1>10. CacheHolds'
  BY <1>2, <1>3, <1>6 DEF RowInv, CacheHolds, Settled
<1>11. QED
  BY <1>1, <1>7, <1>8, <1>9, <1>10 DEF RowInv

LEMMA RowsStep == RowInv /\ [Next]_vars => RowInv'
<1>1. SUFFICES ASSUME RowInv, [Next]_vars PROVE RowInv'
  OBVIOUS
<1>2. CASE UNCHANGED vars
  BY <1>1, <1>2, RowsStuttered
<1>3. CASE NextCall
  BY <1>1, <1>3, CallRows
<1>4. CASE HostDone
  BY <1>1, <1>2, <1>4 DEF HostDone
<1>5. ASSUME NEW c \in Cta, CtaStep(c) PROVE RowInv'
  <2>1. CASE ReadLength(c)
    BY <1>1, <2>1, ReadRows
  <2>2. CASE WholeRow(c)
    BY <1>1, <2>2, WholeRowStep
  <2>3. CASE Publish(c)
    BY <1>1, <2>3, PublishStep
  <2>4. CASE Wait(c)
    BY <1>1, <2>4, WaitStep
  <2>5. CASE Finish(c)
    BY <1>1, <2>5, FinishStep
  <2>6. CASE Sum(c)
    BY <1>1, <2>6, SumStep
  <2>7. CASE ResetExchange(c)
    BY <1>1, <2>7, ResetExchangeStep
  <2>8. CASE ResetFinish(c)
    BY <1>1, <2>8, ResetFinishStep
  <2>9. CASE Append(c)
    BY <1>1, <2>9, AppendRows
  <2>10. CASE ArriveBarrier(c)
    BY <1>1, <2>10, ArriveRows
  <2>11. CASE LeaveBarrier(c)
    BY <1>1, <2>11, LeaveRows
  <2>12. CASE AdvanceLength(c)
    BY <1>1, <2>12, AdvanceRows
  <2>13. QED
    BY <1>5, <2>1, <2>2, <2>3, <2>4, <2>5, <2>6, <2>7, <2>8, <2>9, <2>10, <2>11, <2>12
       DEF CtaStep
<1>6. QED
  BY <1>1, <1>2, <1>3, <1>4, <1>5 DEF Next

(* The two counters of a row, its statistics and partial values and the    *)
(* rows written so far are what the stages of its chunks say (the exchange *)
(* of the attention body), and the cache holds every key that an earlier   *)
(* step or a first chunk of this one has put there.                        *)
THEOREM RowInvariance == Spec => []RowInv
<1>1. QED
  BY RowsInit, RowsStep, PTL DEF Spec

(* What a chunk past the exchange reads, every chunk of its row has        *)
(* published in this phase, and what the last one sums, every chunk has    *)
(* finished: the two waits of the attention body, for any number of CTAs,  *)
(* rows, chunks, layers and steps.                                         *)
THEOREM ExchangeIsComplete == Spec => []ExchangeComplete
<1>1. RowInv => ExchangeComplete
  <2>1. SUFFICES ASSUME RowInv, NEW c \in Cta, pc[c] \in {"finish", "sum"},
                        NEW j \in 0 .. InUse(keys[c]) - 1
                 PROVE  /\ pc[c] = "finish" => stats[Chunk(c).row][j] = PhaseNumber(layer[c])
                        /\ pc[c] = "sum" => partials[Chunk(c).row][j] = PhaseNumber(layer[c])
    BY DEF ExchangeComplete
  <2>2. pc[c] \in Body /\ HasItem(c) /\ InUse(keys[c]) > 1
    BY <2>1 DEF RowInv, ItemsDealt, Body
  <2>3. PICK q, k : q = Chunk(c).row /\ k = Chunk(c).chunk
    OBVIOUS
  <2>4. /\ InUse(keys[c]) = Split /\ layer[c] = Current
        /\ q \in Row /\ k \in 0 .. Split - 1
        /\ Stages(q) \in [0 .. Split - 1 -> StageName] /\ Stages(q)[k] = pc[c]
    <3>1. pc[c] # "item" /\ pc[c] # "append"
      BY <2>1
    <3>2. QED
      BY <2>1, <2>2, <2>3, <3>1, ChunkHere
  <2>5. /\ Crossed(Stages(q)) /\ OneCloses(Stages(q))
        /\ \A i \in Published(Stages(q)) : stats[q][i] = Phase
        /\ \A i \in Finished(Stages(q)) : partials[q][i] = Phase
    BY <2>1, <2>2, <2>4 DEF RowInv, RowHolds, RowState
  <2>6. CASE pc[c] = "finish"
    <3>1. Published(Stages(q)) = 0 .. Split - 1
      BY <2>4, <2>5, <2>6 DEF Crossed
    <3>2. QED
      BY <2>1, <2>3, <2>4, <2>5, <2>6, <3>1 DEF Phase
  <2>7. CASE pc[c] = "sum"
    <3>1. Finished(Stages(q)) = 0 .. Split - 1
      BY <2>4, <2>5, <2>7 DEF OneCloses, Closing
    <3>2. QED
      BY <2>1, <2>3, <2>4, <2>5, <2>7, <3>1 DEF Phase
  <2>8. QED
    BY <2>1, <2>6, <2>7
<1>2. QED
  BY <1>1, RowInvariance, PTL

(* A row in which nobody is between its arrival and its end has both       *)
(* counters at zero ("reset for the next phase"), so the phase that uses   *)
(* the scratch next starts from zero.                                      *)
THEOREM RowsAreAtRest == Spec => []RowsRestAtZero
<1>1. RowInv => RowsRestAtZero
  <2>1. SUFFICES ASSUME RowInv, NEW r \in Row, \A c \in Cta : ~ InRow(c, r)
                 PROVE  counters[r].exchange = 0 /\ counters[r].finish = 0
    BY DEF RowsRestAtZero
  <2>2. /\ Inv /\ Split \in Nat \ {0} /\ Rows \in Nat
        /\ Stages(r) \in [0 .. Split - 1 -> StageName]
    BY <2>1, SplitBounds, StagesTyped DEF RowInv
  <2>3. ASSUME NEW j \in 0 .. Split - 1, Stages(r)[j] \notin {"pending", "done"}
        PROVE  FALSE
    <3>1. PICK i \in Nat : i = r * Split + j /\ i % Workers \in Cta
      BY <2>2, RowItems
    <3>2. PICK c \in Cta : c = i % Workers
      BY <3>1
    <3>3. Stage(i) = Stages(r)[j] /\ Stages(r)[j] \in StageName
      BY <2>2, <3>1 DEF Stages
    <3>4. item[c] = i /\ Stage(i) = pc[c] /\ Began(c)
      <4>1. item[c] \in Nat
        BY <2>1 DEF RowInv, RowTypes
      <4>2. QED
        BY <2>3, <3>2, <3>3, <4>1 DEF Stage
    <3>5. pc[c] \in {"wait", "finish", "sum", "reset_exchange", "reset_finish"}
      BY <2>3, <3>3, <3>4 DEF StageName
    <3>6. pc[c] \in Body /\ HasItem(c)
      BY <2>1, <3>5 DEF RowInv, ItemsDealt, Body
    <3>7. PICK q, k : q = Chunk(c).row /\ k = Chunk(c).chunk
      OBVIOUS
    <3>8. q \in Row /\ k \in 0 .. Split - 1 /\ item[c] = q * Split + k
      BY <2>1, <3>6, <3>7, ChunkHere
    <3>9. q \in Nat /\ r \in Nat /\ r * Split + j = q * Split + k
      BY <2>2, <3>1, <3>4, <3>8 DEF Row
    <3>10. r = q
      BY <2>2, <3>8, <3>9, SameItem
    <3>11. QED
      BY <2>1, <3>5, <3>7, <3>10 DEF InRow
  <2>4. RowState(Stages(r), counters[r].exchange, counters[r].finish, output[r] - Phase + 1)
    BY <2>1 DEF RowInv, RowHolds
  <2>5. QED
    BY <2>2, <2>3, <2>4, RowAtRest
<1>2. QED
  BY <1>1, RowInvariance, PTL

(* At the closing barrier every row has been written exactly once in each  *)
(* phase so far, whichever of its chunks finished last.                    *)
THEOREM WrittenOnce == Spec => []RowsWrittenOnce
<1>1. RowInv => RowsWrittenOnce
  <2>1. SUFFICES ASSUME RowInv, \A c \in Cta : pc[c] = "barrier" /\ layer[c] = layer[0]
                 PROVE  \A r \in Row : output[r] = PhaseNumber(layer[0])
    BY DEF RowsWrittenOnce
  <2>2. Current = layer[0]
    BY <2>1, CurrentLayer DEF RowInv
  <2>3. \A r \in Row : output[r] = Phase
    BY <2>1, <2>2, PhaseComplete
  <2>4. QED
    BY <2>2, <2>3 DEF Phase
<1>2. QED
  BY <1>1, RowInvariance, PTL

(* The steps taken fit the caches.                                         *)
Fits == prompt \in Nat /\ call \in Nat /\ call <= MaxCalls /\ prompt <= KvLength - MaxCalls

LEMMA FitsAlways == Spec => []Fits
<1>1. KvLength \in Nat /\ MaxCalls \in Nat \ {0} /\ Prompts \subseteq 0 .. KvLength - MaxCalls
  BY SizesAssumption
<1>2. Init => Fits
  BY <1>1 DEF Init, Fits
<1>3. Fits /\ [Next]_vars => Fits'
  <2>1. SUFFICES ASSUME Fits, [Next]_vars PROVE Fits'
    OBVIOUS
  <2>2. CASE NextCall
    BY <1>1, <2>1, <2>2 DEF Fits, NextCall
  <2>3. CASE ~ NextCall
    <3>1. UNCHANGED <<prompt, call>>
      BY <2>1, <2>3 DEF Next, vars, HostDone, CtaStep, ReadLength, WholeRow, Publish, Wait,
         Finish, Sum, ResetExchange, ResetFinish, Append, ArriveBarrier, LeaveBarrier,
         AdvanceLength
    <3>2. QED
      BY <2>1, <3>1 DEF Fits
  <2>4. QED
    BY <2>2, <2>3
<1>4. QED
  BY <1>2, <1>3, PTL DEF Spec

(* A chunk reads no place of the cache that its step writes: every place   *)
(* it does read holds the key an earlier step, or the prompt, put there    *)
(* ("appending here cannot race with readers").                            *)
THEOREM ReadsAreSettled == Spec => []ReadsSettledKeys
<1>1. RowInv /\ Fits => ReadsSettledKeys
  <2>1. SUFFICES ASSUME RowInv, Fits, NEW c \in Cta, pc[c] \in {"item", "wait", "finish"},
                        HasItem(c),
                        NEW p \in Start(Chunk(c).chunk, keys[c])
                                    .. CachedStop(Chunk(c).chunk, keys[c]) - 1
                 PROVE  cache[layer[c]][Chunk(c).row][p] = p + 1
    BY DEF ReadsSettledKeys
  <2>2. PICK q, k : q = Chunk(c).row /\ k = Chunk(c).chunk
    OBVIOUS
  <2>3. pc[c] \in Body
    BY <2>1 DEF Body
  <2>4. /\ InUse(keys[c]) = Split /\ layer[c] = Current
        /\ q \in Row /\ k \in 0 .. Split - 1
    BY <2>1, <2>2, <2>3, ChunkHere
  <2>5. keys[c] = prompt + call /\ layer[c] \in Layer /\ Split \in Nat \ {0}
        /\ prompt + call \in Nat \ {0}
    <3>1. pc[c] \notin {"start", "end"}
      BY <2>1
    <3>2. Inv
      BY <2>1 DEF RowInv
    <3>3. keys[c] = prompt + call
      BY <3>1, <3>2 DEF Inv, KeysOfStep
    <3>4. layer[c] \in 1 .. Layers + 1 /\ layer[c] # Layers + 1 /\ Layers \in Nat
      BY <3>1, <3>2, Sizes DEF Inv, Types, EndedBehindLayers
    <3>5. QED
      BY <3>2, <3>3, <3>4, SplitBounds DEF Layer
  <2>6. ChunkKeys(keys[c]) \in Nat
    BY <2>4, <2>5, CeilDivCovers DEF ChunkKeys
  <2>7. Start(k, keys[c]) \in Nat
    BY <2>4, <2>5, <2>6, SMT DEF Start
  <2>8. CachedStop(k, keys[c]) <= keys[c] - 1 /\ CachedStop(k, keys[c]) \in Int
    <3>1. PICK n \in Nat \ {0}, s \in Nat, g \in Nat :
             n = keys[c] /\ s = Start(k, keys[c]) /\ g = ChunkKeys(keys[c])
      BY <2>5, <2>6, <2>7
    <3>2. CachedStop(k, keys[c]) = Least(Least(s + g, n), n - 1)
      BY <3>1 DEF CachedStop, Stop
    <3>3. QED
      BY <3>1, <3>2 DEF Least
  <2>9. p \in Nat /\ p < prompt + call - 1
    <3>1. PICK s \in Nat, e \in Int :
             s = Start(k, keys[c]) /\ e = CachedStop(k, keys[c]) /\ e <= keys[c] - 1
      BY <2>7, <2>8
    <3>2. p \in s .. e - 1
      BY <2>1, <2>2, <3>1
    <3>3. keys[c] = prompt + call /\ prompt \in Int /\ call \in Int
      BY <2>1, <2>5 DEF Fits
    <3>4. e <= prompt + call - 1
      BY <3>1, <3>3
    <3>5. QED
      BY <3>1, <3>2, <3>3, <3>4
  <2>10. p \in 0 .. KvLength - 1
    BY <2>1, <2>9, SizesAssumption DEF Fits
  <2>11. Settled(layer[c], q, p)
    BY <2>9 DEF Settled
  <2>12. QED
    BY <2>1, <2>2, <2>4, <2>5, <2>10, <2>11 DEF RowInv, CacheHolds
<1>2. QED
  BY <1>1, RowInvariance, FitsAlways, PTL

=============================================================================
