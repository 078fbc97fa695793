---------------------------- MODULE DecodeAttention ----------------------------
(***************************************************************************)
(* Split-context decode: the stateful attention phases of a table launch   *)
(* (bodies/cuda/sm90/attention.py) and the KV lengths the phase loop       *)
(* publishes for them (codegen.py).                                        *)
(*                                                                         *)
(* A row's visible keys split into chunks, one work item each, dealt round *)
(* robin over the CTAs.  Inside a phase, with no grid barrier to help, the *)
(* chunks of a row meet twice on two counters: each publishes its          *)
(* statistics and WAITS until every chunk has, and the last to finish sums *)
(* the partial values and resets both counters.  The counters and partials *)
(* are phase scratch that the next interval uses again.  The phase's KV    *)
(* length decides how many chunks there are; block 0 adds one to it behind *)
(* the barrier that closes the interval.                                   *)
(*                                                                         *)
(* A layer's phase closes its own interval, as a published length needs.   *)
(* A store that a fence and an atomic add follow is one step with them.    *)
(***************************************************************************)
EXTENDS Integers, FiniteSets

CONSTANTS
  Workers,         \* CTAs of the cooperative launch
  Rows,            \* query rows of a phase, each with a KV head of its own
  Layers,          \* stateful attention phases of one call
  KvLength,        \* capacity of the caches
  MaxChunks,       \* DECODE_MAX_CHUNKS
  MinChunkKeys,    \* DECODE_MIN_CHUNK_KEYS
  SecondWaveKeys,  \* DECODE_SECOND_WAVE_KEYS
  Prompts,         \* visible keys before the first decode step
  MaxCalls         \* bound on the decode steps

ASSUME SizesAssumption ==
  /\ Workers \in Nat \ {0} /\ Rows \in Nat \ {0} /\ Layers \in Nat \ {0}
  /\ MaxChunks \in Nat \ {0} /\ MinChunkKeys \in Nat \ {0} /\ SecondWaveKeys \in Nat
  /\ KvLength \in Nat /\ MaxCalls \in Nat \ {0}
  /\ Prompts \subseteq 0 .. KvLength - MaxCalls

Cta   == 0 .. Workers - 1
Row   == 0 .. Rows - 1
Layer == 1 .. Layers

Least(a, b)      == IF a <= b THEN a ELSE b
Most(a, b)       == IF a >= b THEN a ELSE b
CeilDiv(a, b)    == (a + b - 1) \div b

(* decode_chunks: the fewest chunks of the least cost, passes / chunks with *)
(* 15% more for every pass after the first.                                *)
Chunks ==
  LET passes(k)   == CeilDiv(Rows * k, Workers)
      cost(k)     == passes(k) * (20 + 3 * (passes(k) - 1))   \* times 20 * k
      Cheaper(a, b) == \/ cost(a) * b < cost(b) * a
                       \/ cost(a) * b = cost(b) * a /\ a <= b
      candidates  == 1 .. Least(MaxChunks, Workers)
  IN  CHOOSE a \in candidates : \A b \in candidates : Cheaper(a, b)

(* As with the code's 16 and 64: below, a chunk might have no key.         *)
ASSUME ChunksAssumption == Chunks \in 1 .. MinChunkKeys

(* One wave of items.                                                      *)
Wave == Most(1, Workers \div Rows)

(* The chunks in use for a number of visible keys: no more than can be     *)
(* resident at once, and one wave of items while there are few keys.       *)
InUse(keys) ==
  LET wanted == Least(CeilDiv(keys, MinChunkKeys), Chunks)
  IN  IF keys < SecondWaveKeys THEN Least(wanted, Wave) ELSE wanted

(* Fault: rounded down, so the last chunk ends before the new key.         *)
ChunkKeysDown(n) == n \div InUse(n)

(* The keys of chunk k: Start(k, n) up to, not including, Stop(k, n).  The *)
(* new key n - 1 is not in the cache: the chunk that stops at n adds it.   *)
ChunkKeys(n)     == CeilDiv(n, InUse(n))
Start(k, n)      == k * ChunkKeys(n)
Stop(k, n)       == Least(Start(k, n) + ChunkKeys(n), n)
CachedStop(k, n) == Least(Stop(k, n), n - 1)

(* Fault: chunk-major items.                                               *)
ItemOfChunk(i, n) == [row |-> i % Rows, chunk |-> i \div Rows]

(* Row-major: a row's items are consecutive.                               *)
Item(i, n) == [row |-> i \div n, chunk |-> i % n]

VARIABLES
  prompt,    \* keys visible before the first step
  call,      \* decode steps started
  layer,     \* phase each CTA is at; Layers + 1 when it has ended
  pc,        \* where in the phase each CTA is
  keys,      \* visible keys each CTA computed from the length it read
  item,      \* item of each CTA
  counters,  \* the two counters of each row
  stats,     \* phase that published the statistics of a row's chunk last
  partials,  \* phase that stored its partial values last
  output,    \* history: rows written so far, for each row
  length,    \* KV valid length of each layer
  cache      \* for each layer and row, which key its places hold, 0 for none

ctaVars == <<layer, pc, keys, item>>
scratch == <<counters, stats, partials>>
kvVars  == <<length, cache>>
vars    == <<prompt, call, ctaVars, scratch, output, kvVars>>

(* Phases are numbered through all calls.                                  *)
PhaseNumber(l) == (call - 1) * Layers + l

Chunk(c)     == Item(item[c], InUse(keys[c]))
HasItem(c)   == item[c] < Rows * InUse(keys[c])
Goto(c, at)  == pc' = [pc EXCEPT ![c] = at]

Init ==
  /\ prompt \in Prompts
  /\ call = 1
  /\ layer = [c \in Cta |-> 1]
  /\ pc    = [c \in Cta |-> "start"]
  /\ keys  = [c \in Cta |-> 1]
  /\ item  = [c \in Cta |-> c]
  /\ counters = [r \in Row |-> [exchange |-> 0, finish |-> 0]]
  /\ stats    = [r \in Row |-> [k \in 0 .. Chunks - 1 |-> 0]]
  /\ partials = [r \in Row |-> [k \in 0 .. Chunks - 1 |-> 0]]
  /\ output   = [r \in Row |-> 0]
  /\ length   = [l \in Layer |-> prompt]
  /\ cache    = [l \in Layer |-> [r \in Row |->
                   [k \in 0 .. KvLength - 1 |-> IF k < prompt THEN k + 1 ELSE 0]]]

-----------------------------------------------------------------------------
(* The body. *)

ReadLength(c) ==
  /\ pc[c] = "start"
  /\ keys' = [keys EXCEPT ![c] = length[layer[c]] + 1]
  /\ item' = [item EXCEPT ![c] = c]
  /\ Goto(c, "item")
  /\ UNCHANGED <<prompt, call, layer, scratch, output, kvVars>>

(* A row in one chunk needs no exchange.                                   *)
WholeRow(c) ==
  /\ pc[c] = "item" /\ HasItem(c) /\ InUse(keys[c]) = 1
  /\ output' = [output EXCEPT ![Chunk(c).row] = @ + 1]
  /\ Goto(c, "append")
  /\ UNCHANGED <<prompt, call, layer, keys, item, scratch, kvVars>>

(* The chunk's maxima and sums, and its arrival.                           *)
Publish(c) ==
  /\ pc[c] = "item" /\ HasItem(c) /\ InUse(keys[c]) > 1
  /\ LET at == Chunk(c)
     IN  /\ stats' = [stats EXCEPT ![at.row][at.chunk] = PhaseNumber(layer[c])]
         /\ counters' = [counters EXCEPT ![at.row].exchange = @ + 1]
  /\ Goto(c, "wait")
  /\ UNCHANGED <<prompt, call, layer, keys, item, partials, output, kvVars>>

(* Fault: a chunk does not wait for the last one.                          *)
WaitOneShort(c) ==
  /\ pc[c] = "wait"
  /\ counters[Chunk(c).row].exchange >= InUse(keys[c]) - 1
  /\ Goto(c, "finish")
  /\ UNCHANGED <<prompt, call, layer, keys, item, scratch, output, kvVars>>

Wait(c) ==
  /\ pc[c] = "wait"
  /\ counters[Chunk(c).row].exchange >= InUse(keys[c])
  /\ Goto(c, "finish")
  /\ UNCHANGED <<prompt, call, layer, keys, item, scratch, output, kvVars>>

(* Fault: the chunk that finishes first takes itself for the last.         *)
IsFirst(c) == counters[Chunk(c).row].finish = 0

IsLast(c) == counters[Chunk(c).row].finish = InUse(keys[c]) - 1

(* The chunk's partial values, and its second arrival.                     *)
Finish(c) ==
  /\ pc[c] = "finish"
  /\ LET at == Chunk(c)
     IN  /\ partials' = [partials EXCEPT ![at.row][at.chunk] = PhaseNumber(layer[c])]
         /\ counters' = [counters EXCEPT ![at.row].finish = @ + 1]
  /\ Goto(c, IF IsLast(c) THEN "sum" ELSE "append")
  /\ UNCHANGED <<prompt, call, layer, keys, item, stats, output, kvVars>>

Sum(c) ==
  /\ pc[c] = "sum"
  /\ output' = [output EXCEPT ![Chunk(c).row] = @ + 1]
  /\ Goto(c, "reset_exchange")
  /\ UNCHANGED <<prompt, call, layer, keys, item, scratch, kvVars>>

(* Fault: only the counter of the exchange is reset.                       *)
ResetOnlyExchange(c) ==
  /\ pc[c] = "reset_exchange"
  /\ counters' = [counters EXCEPT ![Chunk(c).row].exchange = 0]
  /\ Goto(c, "append")
  /\ UNCHANGED <<prompt, call, layer, keys, item, stats, partials, output, kvVars>>

ResetExchange(c) ==
  /\ pc[c] = "reset_exchange"
  /\ counters' = [counters EXCEPT ![Chunk(c).row].exchange = 0]
  /\ Goto(c, "reset_finish")
  /\ UNCHANGED <<prompt, call, layer, keys, item, stats, partials, output, kvVars>>

ResetFinish(c) ==
  /\ pc[c] = "reset_finish"
  /\ counters' = [counters EXCEPT ![Chunk(c).row].finish = 0]
  /\ Goto(c, "append")
  /\ UNCHANGED <<prompt, call, layer, keys, item, stats, partials, output, kvVars>>

(* Fault: the new key goes behind itself.                                  *)
NewPositionBehind(c) == keys[c] % KvLength

(* Keys before the current length come from the cache and the new one does *)
(* not, so the first chunk appends it there.                               *)
NewPosition(c) == keys[c] - 1

Append(c) ==
  /\ pc[c] = "append"
  /\ cache' = IF Chunk(c).chunk = 0
                THEN [cache EXCEPT ![layer[c]][Chunk(c).row][NewPosition(c)] = prompt + call]
                ELSE cache
  /\ item' = [item EXCEPT ![c] = @ + Workers]
  /\ Goto(c, "item")
  /\ UNCHANGED <<prompt, call, layer, keys, scratch, output, length>>

-----------------------------------------------------------------------------
(* The phase loop around it. *)

(* Fault: block 0 publishes the length before the barrier.                 *)
ArriveAndAdvance(c) ==
  /\ pc[c] = "item" /\ ~ HasItem(c)
  /\ Goto(c, "barrier")
  /\ length' = IF c = 0 THEN [length EXCEPT ![layer[c]] = @ + 1] ELSE length
  /\ UNCHANGED <<prompt, call, layer, keys, item, scratch, output, cache>>

ArriveBarrier(c) ==
  /\ pc[c] = "item" /\ ~ HasItem(c)
  /\ Goto(c, "barrier")
  /\ UNCHANGED <<prompt, call, layer, keys, item, scratch, output, kvVars>>

NextLayer(c) ==
  /\ layer' = [layer EXCEPT ![c] = @ + 1]
  /\ Goto(c, IF layer[c] = Layers THEN "end" ELSE "start")

(* GridBarrier!Leave; block 0 goes on to publish the length.               *)
LeaveBarrier(c) ==
  /\ pc[c] = "barrier"
  /\ \A d \in Cta : layer[d] > layer[c] \/ (layer[d] = layer[c] /\ pc[d] \in {"barrier", "advance"})
  /\ IF c = 0 THEN Goto(c, "advance") /\ UNCHANGED layer ELSE NextLayer(c)
  /\ UNCHANGED <<prompt, call, keys, item, scratch, output, kvVars>>

AdvanceLength(c) ==
  /\ pc[c] = "advance"
  /\ length' = [length EXCEPT ![layer[c]] = @ + 1]
  /\ NextLayer(c)
  /\ UNCHANGED <<prompt, call, keys, item, scratch, output, cache>>

KernelEnded == \A c \in Cta : pc[c] = "end"

(* The next decode step, behind this one on the stream.                    *)
NextCall ==
  /\ KernelEnded /\ call < MaxCalls
  /\ call'  = call + 1
  /\ layer' = [c \in Cta |-> 1]
  /\ pc'    = [c \in Cta |-> "start"]
  /\ UNCHANGED <<prompt, keys, item, scratch, output, kvVars>>

HostDone == KernelEnded /\ call = MaxCalls /\ UNCHANGED vars

CtaStep(c) ==
  \/ ReadLength(c) \/ WholeRow(c) \/ Publish(c) \/ Wait(c) \/ Finish(c) \/ Sum(c)
  \/ ResetExchange(c) \/ ResetFinish(c) \/ Append(c)
  \/ ArriveBarrier(c) \/ LeaveBarrier(c) \/ AdvanceLength(c)

Next == NextCall \/ HostDone \/ (\E c \in Cta : CtaStep(c))

Spec == Init /\ [][Next]_vars

(* CTAs of a cooperative launch are all resident and run until they end.   *)
FairSpec == Spec /\ \A c \in Cta : WF_vars(CtaStep(c))

-----------------------------------------------------------------------------

InRow(c, r) ==
  /\ pc[c] \in {"wait", "finish", "sum", "reset_exchange", "reset_finish"}
  /\ Chunk(c).row = r

TypeOK ==
  /\ prompt \in Prompts /\ call \in 1 .. MaxCalls
  /\ layer \in [Cta -> 1 .. Layers + 1]
  /\ pc \in [Cta -> {"start", "item", "wait", "finish", "sum", "reset_exchange", "reset_finish",
                     "append", "barrier", "advance", "end"}]
  /\ keys \in [Cta -> 1 .. KvLength]
  /\ item \in [Cta -> Nat]
  /\ counters \in [Row -> [exchange : 0 .. Chunks, finish : 0 .. Chunks]]
  /\ stats \in [Row -> [0 .. Chunks - 1 -> 0 .. MaxCalls * Layers]]
  /\ partials \in [Row -> [0 .. Chunks - 1 -> 0 .. MaxCalls * Layers]]
  /\ output \in [Row -> Nat]
  /\ length \in [Layer -> 0 .. KvLength]
  /\ cache \in [Layer -> [Row -> [0 .. KvLength - 1 -> 0 .. KvLength]]]

(* A chunk that is past the exchange computes with the statistics of every *)
(* chunk of its row, and the one that sums with the partial values of all: *)
(* those of this phase, and not what an earlier phase or call has left in  *)
(* the same scratch.                                                       *)
ExchangeComplete ==
  \A c \in Cta :
    LET at    == Chunk(c)
        inUse == 0 .. InUse(keys[c]) - 1
    IN  /\ pc[c] = "finish" => \A k \in inUse : stats[at.row][k] = PhaseNumber(layer[c])
        /\ pc[c] = "sum"    => \A k \in inUse : partials[at.row][k] = PhaseNumber(layer[c])

(* "Every chunk has passed the wait: reset for the next phase."  A row in  *)
(* which no chunk is between its arrival and its end has both counters at  *)
(* zero, whatever phase uses them next.                                    *)
RowsRestAtZero ==
  \A r \in Row :
    (\A c \in Cta : ~ InRow(c, r)) => counters[r].exchange = 0 /\ counters[r].finish = 0

(* All CTAs of a phase split the same number of keys: nobody sees the      *)
(* length of the next step while others still work on this one.            *)
OneLength ==
  \A c, d \in Cta :
    layer[c] = layer[d] /\ {pc[c], pc[d]} \cap {"start", "end"} = {} => keys[c] = keys[d]

(* At the closing barrier every row has been written exactly once in every *)
(* phase so far, whichever chunk came last.                                *)
RowsWrittenOnce ==
  (\A c \in Cta : pc[c] = "barrier" /\ layer[c] = layer[0]) =>
    \A r \in Row : output[r] = PhaseNumber(layer[0])

(* No chunk is empty and the last is the only one that reaches the end of  *)
(* the visible keys, so the new key, which that test selects, goes into    *)
(* the attention exactly once.                                             *)
NewKeyOnce ==
  \A c \in Cta : pc[c] # "start" =>
    LET n == keys[c]
    IN  \A k \in 0 .. InUse(n) - 1 :
          /\ Start(k, n) < Stop(k, n)
          /\ Stop(k, n) = n <=> k = InUse(n) - 1

(* A chunk reads no place of the cache that this step writes: "appending   *)
(* here cannot race with readers".  Each place it does read holds the key  *)
(* that an earlier step, or the prompt, put there.                         *)
ReadsSettledKeys ==
  \A c \in Cta : pc[c] \in {"item", "wait", "finish"} /\ HasItem(c) =>
    LET at == Chunk(c)
    IN  \A k \in Start(at.chunk, keys[c]) .. CachedStop(at.chunk, keys[c]) - 1 :
          cache[layer[c]][at.row][k] = k + 1

(* Every decode step ends: a waiting CTA only waits for items that are     *)
(* some CTA's current or next item.                                        *)
CallsEnd == \A n \in 1 .. MaxCalls : call = n ~> KernelEnded /\ call = n

=============================================================================
