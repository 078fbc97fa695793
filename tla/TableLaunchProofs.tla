-------------------------- MODULE TableLaunchProofs --------------------------
(***************************************************************************)
(* What a table launch promises, for every sound plan, grid, ring size and *)
(* limit of the device words, and whatever the caller mixes of launches    *)
(* prepared ahead, captures, replays and wraps.                            *)
(*                                                                         *)
(* 1. The host's _calls and the device's call counter agree.  The two are  *)
(* apart while the stream holds work, by as much as that work adds to the  *)
(* counter, and a reset in it starts the count over.  Queue therefore gives*)
(* every operation in the stream the number the counter has when its turn  *)
(* comes, from the counter as it is to the host's next number; launches    *)
(* carry that number, and the ring entry it leads to is stamped with it.   *)
(*                                                                         *)
(* 2. The kernel finds its operands.  A full binding puts every value where*)
(* the graph says it lies in the tensors of the call (FullRight), and one  *)
(* from roots does the same by the distances kept of a full one (FastRight)*)
(* since a view stays as far from its root in every call (TracedRight).  So*)
(* what is uploaded and what goes with a launch are right when they are    *)
(* enqueued; OpsRight and TableReady say that they still are when the      *)
(* kernel's turn comes, and Queue that the kernel reads the row of its own *)
(* launch.  Nobody reads the table before block 0 has copied that row,     *)
(* because the arrivals of the kernel that runs are level (BarrierInv).    *)
(*                                                                         *)
(* The hypothesis OneGraph leaves out two uses that the code does not      *)
(* count right: a graph of several launches, which it replays as one, and  *)
(* a capture of the call that resets the words; SoundPlans, a plan that    *)
(* lists an output before the one it is a view of.                         *)
(***************************************************************************)
EXTENDS TableLaunch, SequenceTheorems, FiniteSetTheorems, WellFoundedInduction, TLAPS

OneGraph == LaunchesPerGraph = 1 /\ ~CaptureMayWrap

(* The counter after an operation that finds it at n. *)
After(op, n) == IF op.op = "reset" THEN 0 ELSE IF op.op = "upload" THEN n ELSE n + 1

(* Numbers N that the operations of s find, and the next one after them.   *)
Numbering(s, N, first, next) ==
  /\ N \in [1 .. Len(s) + 1 -> Nat]
  /\ N[1] = first /\ N[Len(s) + 1] = next
  /\ \A i \in 1 .. Len(s) : /\ N[i + 1] = After(s[i], N[i])
                            /\ s[i].op = "launch" => s[i].number = N[i]

Stamped(r, s) ==
  \A i \in 1 .. Len(s) : s[i].op = "launch" => r[s[i].number % Ring].stamp = s[i].number

Queue(s, r, first, next) ==
  /\ \E S : s \in Seq(S)
  /\ \E N : Numbering(s, N, first, next)
  /\ Stamped(r, s)

(* What may join a queue whose next number is n. *)
Fits(op, n, r) == op.op = "launch" => op.number = n /\ r[n % Ring].stamp = n

(* Launches prepared ahead have the last of the host's numbers.            *)
Prepared ==
  /\ \E T : tokens \in Seq(T)
  /\ unrun = Len(tokens) /\ Len(tokens) <= Ahead
  /\ calls \in Nat /\ calls - Len(tokens) \in Nat
  /\ \A i \in 1 .. Len(tokens) : /\ tokens[i].op = "launch"
                                 /\ tokens[i].number = calls - Len(tokens) + i - 1
  /\ Stamped(ring, tokens)

(* Block 0 has advanced the counter in the kernel that runs.               *)
Advanced == done[0] > 0 /\ pc[0] # "advance"

Mirrored ==
  \E first \in Nat :
    /\ Queue(stream, ring, first, calls - Len(tokens))
    /\ word = IF Advanced THEN first + 1 ELSE first
    /\ pc[0] # "start" => call[0] = first

Positions == {"start", "check", "copy", "arrive", "wait", "advance", "end"}

(* Block 0 is in a kernel only while one runs, and leaves its first        *)
(* barrier before it ends.                                                 *)
Block0 ==
  /\ pc \in [Cta -> Positions] /\ call \in [Cta -> Nat] /\ done \in [Cta -> Nat]
  /\ pc[0] # "start" => stream # <<>> /\ IsKernel(Head(stream))
  /\ pc[0] \in {"start", "check", "copy"} => done[0] = 0
  /\ pc[0] \in {"advance", "end"} => done[0] > 0

HostSide ==
  /\ ring = [e \in Entries |-> ring[e]]
  /\ owner \in {"callable", "sampler"} /\ graph \in {"none", "launch"}

TableInv == HostSide /\ Prepared /\ Mirrored /\ Block0 /\ ~trapped

-----------------------------------------------------------------------------
(* Queues. *)

LEMMA EmptyQueue ==
  ASSUME NEW r, NEW n \in Nat
  PROVE  Queue(<<>>, r, n, n)
<1>1. <<>> \in Seq({}) /\ Len(<<>>) = 0
  BY EmptySeq
<1>2. Numbering(<<>>, [i \in 1 .. 1 |-> n], n, n)
  BY <1>1 DEF Numbering
<1>3. Stamped(r, <<>>)
  BY <1>1 DEF Stamped
<1>4. QED
  BY <1>1, <1>2, <1>3 DEF Queue

(* The bounds of a queue are numbers. *)
LEMMA QueueNumbers ==
  ASSUME NEW s, NEW r, NEW first, NEW next, Queue(s, r, first, next)
  PROVE  first \in Nat /\ next \in Nat
<1>1. PICK S : s \in Seq(S)
  BY DEF Queue
<1>2. PICK N : Numbering(s, N, first, next)
  BY DEF Queue
<1>3. Len(s) \in Nat
  BY <1>1, LenProperties
<1>4. QED
  BY <1>2, <1>3 DEF Numbering

(* An operation joins the queue with the next number. *)
LEMMA QueueAppend ==
  ASSUME NEW s, NEW r, NEW first, NEW next, Queue(s, r, first, next),
         NEW op, Fits(op, next, r)
  PROVE  /\ Queue(Append(s, op), r, first, After(op, next))
         /\ Append(s, op) = s \o <<op>>
         /\ Append(s, op) # <<>>
         /\ s # <<>> => Head(Append(s, op)) = Head(s)
<1>1. PICK R : s \in Seq(R)
  BY DEF Queue
<1>2. PICK N : Numbering(s, N, first, next)
  BY DEF Queue
<1>3. first \in Nat /\ next \in Nat /\ Stamped(r, s)
  BY QueueNumbers DEF Queue
<1> DEFINE S == R \cup {op}
           t == Append(s, op)
           M == [i \in 1 .. Len(s) + 2 |-> IF i = Len(s) + 2 THEN After(op, next) ELSE N[i]]
<1>4. s \in Seq(S) /\ op \in S
  BY <1>1, SeqMonotonic
<1>5. /\ t \in Seq(S) /\ t # <<>> /\ Len(t) = Len(s) + 1
      /\ \A i \in 1 .. Len(s) : t[i] = s[i]
      /\ t[Len(s) + 1] = op
  BY <1>4, AppendProperties
<1>6. Len(s) \in Nat
  BY <1>4, LenProperties
<1>7. t = s \o <<op>>
  BY <1>4, AppendIsConcat
<1>8. s # <<>> => Head(t) = Head(s)
  BY <1>4, HeadTailAppend
<1>9. Numbering(t, M, first, After(op, next))
  <2> HIDE DEF t, S
  <2>1. After(op, next) \in Nat
    BY <1>3 DEF After
  <2>2. N \in [1 .. Len(s) + 1 -> Nat] /\ N[1] = first /\ N[Len(s) + 1] = next
    BY <1>2 DEF Numbering
  <2>3. M \in [1 .. Len(t) + 1 -> Nat]
    BY <1>5, <1>6, <2>1, <2>2
  <2>4. M[1] = first /\ M[Len(t) + 1] = After(op, next)
    BY <1>5, <1>6, <2>2
  <2>5. ASSUME NEW i \in 1 .. Len(t)
        PROVE  M[i + 1] = After(t[i], M[i]) /\ (t[i].op = "launch" => t[i].number = M[i])
    <3>1. CASE i = Len(s) + 1
      <4>1. M[i] = next /\ M[i + 1] = After(op, next) /\ t[i] = op
        BY <1>5, <1>6, <2>2, <3>1
      <4>2. QED
        BY <4>1 DEF Fits
    <3>2. CASE i \in 1 .. Len(s)
      <4>1. M[i] = N[i] /\ M[i + 1] = N[i + 1] /\ t[i] = s[i]
        BY <1>5, <1>6, <2>2, <3>2
      <4>2. N[i + 1] = After(s[i], N[i]) /\ (s[i].op = "launch" => s[i].number = N[i])
        BY <1>2, <3>2 DEF Numbering
      <4>3. QED
        BY <4>1, <4>2
    <3>3. QED
      BY <1>5, <1>6, <3>1, <3>2
  <2>6. QED
    BY <2>3, <2>4, <2>5 DEF Numbering
<1>10. Stamped(r, t)
  <2> HIDE DEF t, S
  <2>1. ASSUME NEW i \in 1 .. Len(t), t[i].op = "launch"
        PROVE  r[t[i].number % Ring].stamp = t[i].number
    <3>1. CASE i = Len(s) + 1
      BY <1>5, <2>1, <3>1 DEF Fits
    <3>2. CASE i \in 1 .. Len(s)
      BY <1>3, <1>5, <2>1, <3>2 DEF Stamped
    <3>3. QED
      BY <1>5, <1>6, <3>1, <3>2
  <2>2. QED
    BY <2>1 DEF Stamped
<1>11. QED
  BY <1>5, <1>7, <1>8, <1>9, <1>10 DEF Queue

(* Its head has the first number, and leaves with the counter after it.    *)
LEMMA QueueTail ==
  ASSUME NEW s, NEW r, NEW first, NEW next, Queue(s, r, first, next), s # <<>>
  PROVE  /\ Queue(Tail(s), r, After(Head(s), first), next)
         /\ Head(s).op = "launch" => Head(s).number = first /\ r[first % Ring].stamp = first
<1>1. PICK S : s \in Seq(S)
  BY DEF Queue
<1>2. PICK N : Numbering(s, N, first, next)
  BY DEF Queue
<1>3. Stamped(r, s)
  BY DEF Queue
<1> DEFINE t == Tail(s)
           M == [i \in 1 .. Len(s) |-> N[i + 1]]
<1>4. /\ t \in Seq(S) /\ Len(t) = Len(s) - 1
      /\ \A i \in 1 .. Len(t) : t[i] = s[i + 1]
  BY <1>1, HeadTailProperties
<1>5. Len(s) \in Nat \ {0}
  BY <1>1, EmptySeq
<1>6. Head(s) = s[1]
  BY <1>1
<1>7. /\ N \in [1 .. Len(s) + 1 -> Nat] /\ N[1] = first /\ N[Len(s) + 1] = next
      /\ \A i \in 1 .. Len(s) : /\ N[i + 1] = After(s[i], N[i])
                                /\ s[i].op = "launch" => s[i].number = N[i]
  BY <1>2 DEF Numbering
<1>8. Numbering(t, M, After(Head(s), first), next)
  <2> HIDE DEF t
  <2>1. M \in [1 .. Len(t) + 1 -> Nat]
    BY <1>4, <1>5, <1>7
  <2>2. M[1] = After(Head(s), first)
    BY <1>5, <1>6, <1>7
  <2>3. M[Len(t) + 1] = next
    BY <1>4, <1>5, <1>7
  <2>4. ASSUME NEW i \in 1 .. Len(t)
        PROVE  M[i + 1] = After(t[i], M[i]) /\ (t[i].op = "launch" => t[i].number = M[i])
    <3>1. i + 1 \in 1 .. Len(s) /\ i \in 1 .. Len(s) /\ t[i] = s[i + 1]
      BY <1>4, <1>5
    <3>2. M[i] = N[i + 1] /\ M[i + 1] = N[i + 1 + 1]
      BY <3>1
    <3>3. QED
      BY <1>7, <3>1, <3>2
  <2>5. QED
    BY <2>1, <2>2, <2>3, <2>4 DEF Numbering
<1>9. Stamped(r, t)
  <2> HIDE DEF t
  <2>1. ASSUME NEW i \in 1 .. Len(t), t[i].op = "launch"
        PROVE  r[t[i].number % Ring].stamp = t[i].number
    <3>1. i + 1 \in 1 .. Len(s) /\ t[i] = s[i + 1]
      BY <1>4, <1>5
    <3>2. QED
      BY <1>3, <2>1, <3>1 DEF Stamped
  <2>2. QED
    BY <2>1 DEF Stamped
<1>10. Head(s).op = "launch" => Head(s).number = first /\ r[first % Ring].stamp = first
  <2>1. 1 \in 1 .. Len(s)
    BY <1>5
  <2>2. s[1].op = "launch" => s[1].number = first
    BY <1>7, <2>1
  <2>3. s[1].op = "launch" => r[s[1].number % Ring].stamp = s[1].number
    BY <1>3, <2>1 DEF Stamped
  <2>4. QED
    BY <1>6, <2>2, <2>3
<1>11. QED
  BY <1>4, <1>8, <1>9, <1>10 DEF Queue

(* It does not mind an entry no launch of it uses. *)
LEMMA QueueRing ==
  ASSUME NEW s, NEW r, NEW first, NEW next, Queue(s, r, first, next), NEW e, NEW x,
         r = [k \in Entries |-> r[k]],
         ~ \E i \in DOMAIN s : s[i].op = "launch" /\ s[i].number % Ring = e
  PROVE  Queue(s, [r EXCEPT ![e] = x], first, next)
<1>1. PICK S : s \in Seq(S)
  BY DEF Queue
<1>2. PICK N : Numbering(s, N, first, next)
  BY DEF Queue
<1>3. DOMAIN s = 1 .. Len(s) /\ Len(s) \in Nat
  BY <1>1, LenProperties
<1>4. ASSUME NEW i \in 1 .. Len(s), s[i].op = "launch"
      PROVE  [r EXCEPT ![e] = x][s[i].number % Ring].stamp = s[i].number
  <2>1. s[i].number \in Nat
    BY <1>2, <1>3, <1>4 DEF Numbering
  <2>2. s[i].number % Ring \in Entries
    BY <2>1, SizesAssumption, SMTT(60) DEF Entries
  <2>3. s[i].number % Ring # e
    BY <1>3, <1>4
  <2>4. [r EXCEPT ![e] = x][s[i].number % Ring] = r[s[i].number % Ring]
    BY <2>2, <2>3
  <2>5. QED
    BY <1>4, <2>4 DEF Queue, Stamped
<1>5. QED
  BY <1>1, <1>2, <1>4 DEF Queue, Stamped

(* Numbers less than a ring apart have entries of their own. *)
LEMMA EntriesApart ==
  ASSUME NEW a \in Nat, NEW b \in Nat, a < b, b - a < Ring
  PROVE  a % Ring # b % Ring
<1>1. Ring \in Nat \ {0}
  BY SizesAssumption
<1> DEFINE p == a \div Ring
           q == b \div Ring
<1>2. p \in Int /\ q \in Int /\ a = Ring * p + (a % Ring) /\ b = Ring * q + (b % Ring)
  BY <1>1, SMT
<1>3. SUFFICES ASSUME a % Ring = b % Ring PROVE FALSE
  OBVIOUS
<1>4. a % Ring \in Int
  BY <1>1
<1> HIDE DEF p, q
<1>5. b - a = Ring * (q - p)
  BY <1>1, <1>2, <1>3, <1>4, SMT
<1>6. q - p >= 1
  <2>1. SUFFICES ASSUME q - p <= 0 PROVE FALSE
    BY <1>2
  <2>2. Ring * (q - p) <= 0
    BY <1>1, <1>2, <2>1, SMT
  <2>3. QED
    BY <1>5, <2>2
<1>7. Ring * (q - p) >= Ring
  BY <1>1, <1>2, <1>6, SMT
<1>8. QED
  BY <1>1, <1>5, <1>7

(* The same for a sequence of one operation or none. *)
LEMMA QueueJoin ==
  ASSUME NEW s, NEW r, NEW first, NEW next, Queue(s, r, first, next),
         NEW ops, NEW after,
         \/ ops = <<>> /\ after = next
         \/ \E op : /\ ops = <<op>> /\ after = After(op, next) /\ Fits(op, next, r)
  PROVE  /\ Queue(s \o ops, r, first, after)
         /\ s # <<>> => s \o ops # <<>> /\ Head(s \o ops) = Head(s)
<1>1. CASE ops = <<>> /\ after = next
  <2>1. PICK S : s \in Seq(S)
    BY DEF Queue
  <2>2. s \o ops = s
    BY <1>1, <2>1, ConcatEmptySeq
  <2>3. QED
    BY <1>1, <2>2
<1>2. ASSUME NEW op, ops = <<op>>, after = After(op, next), Fits(op, next, r)
      PROVE  /\ Queue(s \o ops, r, first, after)
             /\ s # <<>> => s \o ops # <<>> /\ Head(s \o ops) = Head(s)
  <2>1. /\ Queue(Append(s, op), r, first, After(op, next))
        /\ Append(s, op) = s \o <<op>>
        /\ Append(s, op) # <<>>
        /\ s # <<>> => Head(Append(s, op)) = Head(s)
    BY <1>2, QueueAppend, ZenonT(60)
  <2>2. s \o ops = Append(s, op)
    BY <1>2, <2>1
  <2>3. QED
    BY <1>2, <2>1, <2>2
<1>3. QED
  BY <1>1, <1>2

-----------------------------------------------------------------------------
(* The invariant at the start, and over the steps of the host. *)

LEMMA Sizes ==
  /\ Ring \in Nat \ {0} /\ Workers \in Nat \ {0} /\ Epochs \in Nat \ {0}
  /\ 0 \in Cta
  /\ \A n \in Nat : n % Ring \in Entries
BY SizesAssumption DEF Cta, Entries

LEMMA TableInit ==
  ASSUME Init
  PROVE  TableInv
<1>1. HostSide
  <2>1. ring = [e \in Entries |-> ring[e]]
    BY DEF Init
  <2>2. QED
    BY <2>1 DEF Init, HostSide
<1>2. Prepared
  <2>1. tokens = <<>> /\ tokens \in Seq({}) /\ Len(tokens) = 0
    BY EmptySeq DEF Init
  <2>2. 0 <= Ahead
    BY Sizes DEF Ahead
  <2>3. Stamped(ring, tokens)
    BY <2>1 DEF Stamped
  <2>4. QED
    BY <2>1, <2>2, <2>3 DEF Init, Prepared
<1>3. Mirrored
  <2>1. Queue(stream, ring, 0, 0)
    BY EmptyQueue DEF Init
  <2>2. calls - Len(tokens) = 0 /\ word = 0 /\ pc[0] = "start" /\ ~Advanced
    <3>1. Len(tokens) = 0 /\ calls = 0
      BY EmptySeq DEF Init
    <3>2. word = 0 /\ pc[0] = "start" /\ done[0] = 0
      BY Sizes DEF Init
    <3>3. QED
      BY <3>1, <3>2 DEF Advanced
  <2>3. QED
    BY <2>1, <2>2 DEF Mirrored
<1>4. Block0
  BY Sizes DEF Init, Block0, Positions
<1>5. QED
  BY <1>1, <1>2, <1>3, <1>4 DEF Init, TableInv

(* A step of the host that adds to the stream leaves block 0 where it is.  *)
LEMMA HostKeepsBlock0 ==
  ASSUME Block0, UNCHANGED <<pc, call, done>>,
         stream # <<>> => stream' # <<>> /\ Head(stream') = Head(stream)
  PROVE  Block0'
BY DEF Block0, IsKernel

(* With no launch prepared, a reset makes room for the host's next number. *)
LEMMA Wrapping ==
  ASSUME NEW r, NEW first, NEW next, Queue(stream, r, first, next), calls \in Nat,
         MustWrap => next = calls
  PROVE  /\ WrappedCall \in Nat
         /\ Queue(stream \o WrappedOps, r, first, IF MustWrap THEN 0 ELSE next)
         /\ stream # <<>> => /\ stream \o WrappedOps # <<>>
                             /\ Head(stream \o WrappedOps) = Head(stream)
<1>1. WrappedCall \in Nat
  BY DEF WrappedCall
<1>2. CASE MustWrap
  <2>1. WrappedOps = <<Reset>> /\ After(Reset, next) = 0 /\ Reset.op # "launch"
    BY <1>2 DEF WrappedOps, After, Reset
  <2>2. \E op : /\ WrappedOps = <<op>> /\ 0 = After(op, next)
                /\ Fits(op, next, r)
    BY <2>1 DEF Fits
  <2>3. /\ Queue(stream \o WrappedOps, r, first, 0)
        /\ stream # <<>> => /\ stream \o WrappedOps # <<>>
                            /\ Head(stream \o WrappedOps) = Head(stream)
    BY <2>2, QueueJoin
  <2>4. QED
    BY <1>1, <1>2, <2>3
<1>3. CASE ~MustWrap
  <2>1. WrappedOps = <<>>
    BY <1>3 DEF WrappedOps
  <2>2. /\ Queue(stream \o WrappedOps, r, first, next)
        /\ stream # <<>> => /\ stream \o WrappedOps # <<>>
                            /\ Head(stream \o WrappedOps) = Head(stream)
    BY <2>1, QueueJoin
  <2>3. QED
    BY <1>1, <1>3, <2>2
<1>4. QED
  BY <1>2, <1>3

LEMMA PrepareStep ==
  ASSUME TableInv, NEW inputs, Prepare(inputs)
  PROVE  TableInv'
<1> DEFINE n   == WrappedCall
           now == BoundBy(inputs, made + 1)
           L   == Len(tokens)
           launch == Launch(n, MeantBy(inputs, now.call))
           entry == [stamp |-> n, addresses |-> Dynamic(now)]
           base == calls - L
<1>1. /\ L < Ahead /\ MayWrap /\ ~Busy(n % Ring)
      /\ ring' = [ring EXCEPT ![n % Ring] = entry]
      /\ calls' = n + 1
      /\ tokens' = Append(tokens, launch)
      /\ stream' = stream \o WrappedOps \o Uploads(now)
      /\ unrun' = unrun + 1
      /\ UNCHANGED <<owner, graph, device>>
  BY DEF Prepare, PrepareLaunch
<1>2. UNCHANGED <<owner, graph, word, pc, call, done, trapped>>
  BY <1>1 DEF device
<1>3. /\ HostSide /\ Prepared /\ Mirrored /\ Block0 /\ ~trapped
  BY DEF TableInv
<1>4. /\ unrun = L /\ L <= Ahead /\ calls \in Nat /\ base \in Nat
      /\ \A i \in 1 .. L : tokens[i].op = "launch" /\ tokens[i].number = base + i - 1
      /\ Stamped(ring, tokens)
  BY <1>3 DEF Prepared
<1>5. PICK T : tokens \in Seq(T)
  BY <1>3 DEF Prepared
<1>6. L \in Nat
  BY <1>5, LenProperties
<1>7. MustWrap => L = 0
  BY <1>1, <1>4 DEF MayWrap
<1>8. n = base + L \/ (n = 0 /\ L = 0)
  BY <1>4, <1>6, <1>7 DEF WrappedCall
<1>9. n \in Nat
  BY <1>4 DEF WrappedCall
<1>10. L < Ring
  BY <1>1, <1>6, Sizes DEF Ahead
<1>11. ring = [k \in Entries |-> ring[k]]
  BY <1>3 DEF HostSide
<1>12. n % Ring \in Entries
  BY <1>9, Sizes
<1>13. HostSide'
  <2> HIDE DEF n, now, launch, entry
  <2>1. ring' = [e \in Entries |-> ring'[e]]
    BY <1>1, <1>11
  <2>2. QED
    BY <1>2, <1>3, <2>1 DEF HostSide
<1>14. /\ tokens' \in Seq(T \cup {launch}) /\ Len(tokens') = L + 1
       /\ \A i \in 1 .. L : tokens'[i] = tokens[i]
       /\ tokens'[L + 1] = launch
  <2>1. tokens \in Seq(T \cup {launch}) /\ launch \in T \cup {launch}
    BY <1>5, SeqMonotonic
  <2> HIDE DEF n, now, launch
  <2>2. QED
    BY <1>1, <2>1, AppendProperties
<1>15. launch.op = "launch" /\ launch.number = n
  BY DEF Launch
<1>16. Prepared'
  <2> HIDE DEF n, now, launch, base, L, entry
  <2>1. unrun' = Len(tokens)' /\ Len(tokens)' <= Ahead'
    <3>1. Ahead' = Ahead /\ Ahead \in Nat
      BY <1>2, Sizes DEF Ahead
    <3>2. QED
      BY <1>1, <1>4, <1>6, <1>14, <3>1
  <2>2. calls' \in Nat /\ calls' - Len(tokens') \in Nat
    BY <1>1, <1>4, <1>6, <1>8, <1>9, <1>14
  <2>3. ASSUME NEW i \in 1 .. L + 1
        PROVE  /\ tokens'[i].op = "launch"
               /\ tokens'[i].number = calls' - Len(tokens') + i - 1
               /\ tokens'[i].number \in Nat
               /\ i # L + 1 => tokens'[i].number < n /\ n - tokens'[i].number < Ring
                               /\ tokens'[i] = tokens[i]
    <3>1. CASE i = L + 1
      BY <1>1, <1>6, <1>9, <1>14, <1>15, <3>1
    <3>2. CASE i \in 1 .. L
      <4>1. tokens'[i] = tokens[i] /\ n = base + L
        BY <1>6, <1>8, <1>14, <3>2
      <4>2. tokens[i].op = "launch" /\ tokens[i].number = base + i - 1
        BY <1>4, <3>2
      <4>3. calls' - Len(tokens') = base
        BY <1>1, <1>4, <1>6, <1>14, <4>1
      <4>4. base + i - 1 \in Nat /\ base + i - 1 < n /\ n - (base + i - 1) < Ring
        BY <1>4, <1>6, <1>10, <3>2, <4>1, Sizes
      <4>5. QED
        BY <4>1, <4>2, <4>3, <4>4
    <3>3. QED
      BY <1>6, <3>1, <3>2
  <2>4. ASSUME NEW i \in 1 .. L + 1
        PROVE  ring'[tokens'[i].number % Ring].stamp = tokens'[i].number
    <3>1. CASE i = L + 1
      BY <1>1, <1>11, <1>12, <1>14, <1>15, <3>1 DEF entry
    <3>2. CASE i \in 1 .. L
      <4> DEFINE a == tokens'[i].number
      <4>1. a \in Nat /\ a < n /\ n - a < Ring /\ tokens'[i] = tokens[i]
        BY <1>6, <2>3, <3>2
      <4>2. a % Ring # n % Ring
        BY <1>9, <4>1, EntriesApart
      <4>3. a % Ring \in Entries
        BY <4>1, Sizes
      <4>4. ring'[a % Ring] = ring[a % Ring]
        BY <1>1, <1>11, <4>2, <4>3
      <4>5. ring[tokens[i].number % Ring].stamp = tokens[i].number
        BY <1>4, <3>2 DEF Stamped, L
      <4>6. QED
        BY <4>1, <4>4, <4>5
    <3>3. QED
      BY <1>6, <3>1, <3>2
  <2>5. Stamped(ring', tokens')
    BY <1>14, <2>4 DEF Stamped
  <2>6. \E S : tokens' \in Seq(S)
    BY <1>14
  <2>7. \A i \in 1 .. Len(tokens') : /\ tokens'[i].op = "launch"
                                     /\ tokens'[i].number = calls' - Len(tokens') + i - 1
    BY <1>14, <2>3
  <2>8. QED
    BY <2>1, <2>2, <2>5, <2>6, <2>7 DEF Prepared
<1>17. PICK first \in Nat :
         /\ Queue(stream, ring, first, base)
         /\ word = IF Advanced THEN first + 1 ELSE first
         /\ pc[0] # "start" => call[0] = first
  BY <1>3 DEF Mirrored
<1>18. /\ Queue(stream', ring', first, calls' - Len(tokens'))
       /\ stream # <<>> => stream' # <<>> /\ Head(stream') = Head(stream)
  <2> HIDE DEF n, launch
  <2>1. Queue(stream, ring', first, base)
    <3> HIDE DEF now, entry, base
    <3>1. ~ \E i \in DOMAIN stream : stream[i].op = "launch" /\ stream[i].number % Ring = n % Ring
      BY <1>1 DEF Busy
    <3>2. Queue(stream, [ring EXCEPT ![n % Ring] = entry], first, base)
      BY <1>11, <1>17, <3>1, QueueRing
    <3>3. QED
      BY <1>1, <3>2
  <2>2. MustWrap => base = calls
    BY <1>4, <1>7
  <2> HIDE DEF base, now, entry
  <2> DEFINE mid == stream \o WrappedOps
             num == IF MustWrap THEN 0 ELSE base
  <2>3. Queue(mid, ring', first, num) /\ (stream # <<>> => mid # <<>> /\ Head(mid) = Head(stream))
    BY <1>4, <2>1, <2>2, Wrapping DEF mid, num
  <2>4. \/ Uploads(now) = <<>> /\ num = num
        \/ \E op : /\ Uploads(now) = <<op>> /\ num = After(op, num)
                   /\ Fits(op, num, ring')
    <3>1. CASE Static(now) = mirror
      BY <3>1 DEF Uploads
    <3>2. CASE Static(now) # mirror
      <4> DEFINE up == Upload(Static(now))
      <4>1. Uploads(now) = <<up>> /\ up.op = "upload"
        BY <3>2 DEF Uploads, Upload
      <4> HIDE DEF up, num
      <4>2. num = After(up, num) /\ up.op # "launch"
        BY <4>1 DEF After
      <4>3. QED
        BY <4>1, <4>2 DEF Fits
    <3>3. QED
      BY <3>1, <3>2
  <2> HIDE DEF mid, num
  <2>5. /\ Queue(mid \o Uploads(now), ring', first, num)
        /\ mid # <<>> => mid \o Uploads(now) # <<>> /\ Head(mid \o Uploads(now)) = Head(mid)
    BY <2>3, <2>4, QueueJoin
  <2>6. stream' = mid \o Uploads(now)
    BY <1>1 DEF mid
  <2>7. calls' - Len(tokens') = num
    BY <1>1, <1>4, <1>6, <1>7, <1>14 DEF num, n, WrappedCall, base
  <2>8. QED
    BY <2>3, <2>5, <2>6, <2>7
<1>19. Mirrored'
  <2>1. Advanced' = Advanced
    BY <1>2 DEF Advanced
  <2>2. QED
    BY <1>2, <1>17, <1>18, <2>1 DEF Mirrored
<1>20. Block0'
  BY <1>2, <1>3, <1>18, HostKeepsBlock0
<1>21. QED
  BY <1>2, <1>3, <1>13, <1>16, <1>19, <1>20 DEF TableInv

(* Two operations join a queue one after the other. *)
LEMMA QueueTwo ==
  ASSUME NEW s, NEW a, NEW b, \E S : s \in Seq(S)
  PROVE  s \o <<a, b>> = Append(Append(s, a), b)
<1>1. PICK R : s \in Seq(R)
  OBVIOUS
<1> DEFINE S == R \cup {a, b}
<1>2. s \in Seq(S)
  BY <1>1, SeqMonotonic
<1>3. a \in S /\ b \in S /\ <<a>> \in Seq(S) /\ <<b>> \in Seq(S)
  OBVIOUS
<1>4. <<a>> \o <<b>> = <<a, b>>
  <2>1. <<a, b>> \in Seq(S)
    OBVIOUS
  <2>2. /\ <<a>> \o <<b>> \in Seq(S) /\ Len(<<a>> \o <<b>>) = 2
        /\ \A i \in 1 .. 2 : (<<a>> \o <<b>>)[i] = IF i <= 1 THEN <<a>>[i] ELSE <<b>>[i - 1]
    BY <1>3, ConcatProperties
  <2>3. \A i \in 1 .. 2 : (<<a>> \o <<b>>)[i] = <<a, b>>[i]
    BY <2>2
  <2>4. QED
    BY <2>1, <2>2, <2>3, SeqEqual, ZenonT(30)
<1> HIDE DEF S
<1>5. Append(s, a) = s \o <<a>> /\ Append(s, a) \in Seq(S)
  BY <1>2, <1>3, AppendIsConcat, AppendProperties
<1>6. Append(Append(s, a), b) = Append(s, a) \o <<b>>
  BY <1>3, <1>5, AppendIsConcat
<1>7. (s \o <<a>>) \o <<b>> = s \o (<<a>> \o <<b>>)
  BY <1>2, <1>3, ConcatAssociative
<1>8. QED
  BY <1>4, <1>5, <1>6, <1>7

LEMMA RunLaunchStep ==
  ASSUME TableInv, RunLaunch
  PROVE  TableInv'
<1> DEFINE L == Len(tokens)
           base == calls - L
           launch == Head(tokens)
<1>1. /\ tokens # <<>> /\ tokens' = Tail(tokens) /\ unrun' = unrun - 1
      /\ UNCHANGED <<owner, graph, ring, device>>
  BY DEF RunLaunch
<1>2. UNCHANGED <<owner, graph, ring, word, pc, call, done, trapped>>
  BY <1>1 DEF device
<1>3. HostSide /\ Prepared /\ Mirrored /\ Block0 /\ ~trapped
  BY DEF TableInv
<1>4. /\ unrun = L /\ L <= Ahead /\ calls \in Nat /\ base \in Nat
      /\ \A i \in 1 .. L : tokens[i].op = "launch" /\ tokens[i].number = base + i - 1
      /\ Stamped(ring, tokens)
  BY <1>3 DEF Prepared
<1>5. PICK T : tokens \in Seq(T)
  BY <1>3 DEF Prepared
<1>6. L \in Nat \ {0}
  BY <1>1, <1>5, EmptySeq
<1>7. /\ tokens' \in Seq(T) /\ Len(tokens') = L - 1
      /\ \A i \in 1 .. L - 1 : tokens'[i] = tokens[i + 1]
  BY <1>1, <1>5, HeadTailProperties
<1>8. launch = tokens[1]
  BY <1>1, <1>5
<1> HIDE DEF L, base, launch
<1>9. launch.op = "launch" /\ launch.number = base /\ ring[base % Ring].stamp = base
  <2>1. 1 \in 1 .. L
    BY <1>6
  <2>2. tokens[1].op = "launch" /\ tokens[1].number = base
    BY <1>4, <2>1
  <2>3. ring[tokens[1].number % Ring].stamp = tokens[1].number
    BY <1>4, <2>1, <2>2 DEF Stamped, L
  <2>4. QED
    BY <1>8, <2>2, <2>3
<1>10. \/ stream' = Append(stream, launch) /\ calls' = calls
       \/ stream' = stream \o <<launch, Reset>> /\ calls' = 0 /\ L = 1
  <2>1. CASE owner = "sampler"
    BY <2>1 DEF RunLaunch, launch
  <2>2. CASE owner # "sampler" /\ EpochWraps
    <3>1. L = 1
      BY <1>4, <1>6, <2>2 DEF Ahead
    <3>2. QED
      BY <2>2, <3>1 DEF RunLaunch, launch
  <2>3. CASE owner # "sampler" /\ ~EpochWraps
    BY <2>3 DEF RunLaunch, launch
  <2>4. QED
    BY <2>1, <2>2, <2>3
<1>11. HostSide'
  BY <1>2, <1>3 DEF HostSide
<1>12. Prepared'
  <2>1. unrun' = Len(tokens') /\ Len(tokens') <= Ahead'
    <3>1. Ahead' = Ahead /\ Ahead \in Nat
      BY <1>2, Sizes DEF Ahead
    <3>2. QED
      BY <1>1, <1>4, <1>6, <1>7, <3>1
  <2>2. calls' \in Nat /\ calls' - Len(tokens') \in Nat /\ (L # 1 => calls' - Len(tokens') = base + 1)
    BY <1>4, <1>6, <1>7, <1>10 DEF base
  <2>3. ASSUME NEW i \in 1 .. L - 1
        PROVE  /\ tokens'[i].op = "launch"
               /\ tokens'[i].number = calls' - Len(tokens') + i - 1
               /\ ring[tokens'[i].number % Ring].stamp = tokens'[i].number
    <3>1. i + 1 \in 1 .. L /\ L # 1 /\ tokens'[i] = tokens[i + 1]
      BY <1>6, <1>7
    <3>2. tokens[i + 1].op = "launch" /\ tokens[i + 1].number = base + (i + 1) - 1
      BY <1>4, <3>1
    <3>3. base + (i + 1) - 1 = calls' - Len(tokens') + i - 1
      BY <1>4, <2>2, <3>1
    <3>4. ring[tokens[i + 1].number % Ring].stamp = tokens[i + 1].number
      BY <1>4, <3>1, <3>2 DEF Stamped, L
    <3>5. QED
      BY <3>1, <3>2, <3>3, <3>4
  <2>4. Stamped(ring', tokens')
    BY <1>2, <1>7, <2>3 DEF Stamped
  <2>5. \A i \in 1 .. Len(tokens') : /\ tokens'[i].op = "launch"
                                     /\ tokens'[i].number = calls' - Len(tokens') + i - 1
    BY <1>7, <2>3
  <2>6. QED
    BY <1>7, <2>1, <2>2, <2>4, <2>5 DEF Prepared
<1>13. PICK first \in Nat :
         /\ Queue(stream, ring, first, base)
         /\ word = IF Advanced THEN first + 1 ELSE first
         /\ pc[0] # "start" => call[0] = first
  BY <1>3 DEF Mirrored, base, L
<1>14. /\ Queue(stream', ring', first, calls' - Len(tokens'))
       /\ stream # <<>> => stream' # <<>> /\ Head(stream') = Head(stream)
  <2> DEFINE one == Append(stream, launch)
             two == Append(one, Reset)
  <2>1. /\ Queue(one, ring, first, base + 1) /\ one # <<>>
        /\ stream # <<>> => Head(one) = Head(stream)
    <3>1. Fits(launch, base, ring) /\ After(launch, base) = base + 1
      BY <1>9 DEF Fits, After
    <3>2. /\ Queue(Append(stream, launch), ring, first, After(launch, base))
          /\ Append(stream, launch) # <<>>
          /\ stream # <<>> => Head(Append(stream, launch)) = Head(stream)
      BY ZenonT(30), <1>13, <3>1, QueueAppend
    <3>3. QED
      BY <3>1, <3>2
  <2> HIDE DEF one
  <2>2. /\ Queue(two, ring, first, 0) /\ two # <<>> /\ Head(two) = Head(one)
    <3>1. Fits(Reset, base + 1, ring) /\ After(Reset, base + 1) = 0
      BY DEF Fits, After, Reset
    <3>2. /\ Queue(Append(one, Reset), ring, first, After(Reset, base + 1))
          /\ Append(one, Reset) # <<>>
          /\ one # <<>> => Head(Append(one, Reset)) = Head(one)
      <4>1. Queue(one, ring, first, base + 1) /\ Fits(Reset, base + 1, ring)
        BY <2>1, <3>1
      <4> HIDE DEF base
      <4>2. QED
        BY <4>1, QueueAppend, ZenonT(30)
    <3>3. QED
      BY <2>1, <3>1, <3>2
  <2>3. stream \o <<launch, Reset>> = two
    <3>1. \E S : stream \in Seq(S)
      BY <1>13 DEF Queue
    <3>2. QED
      BY <3>1, QueueTwo DEF one
  <2>4. CASE stream' = Append(stream, launch) /\ calls' = calls
    <3>1. calls' - Len(tokens') = base + 1
      BY <1>4, <1>6, <1>7, <2>4 DEF base
    <3>2. QED
      BY <1>2, <2>1, <2>4, <3>1 DEF one
  <2>5. CASE stream' = stream \o <<launch, Reset>> /\ calls' = 0 /\ L = 1
    <3>1. calls' - Len(tokens') = 0
      BY <1>7, <2>5
    <3>2. QED
      BY <1>2, <2>1, <2>2, <2>3, <2>5, <3>1
  <2>6. QED
    BY <1>10, <2>4, <2>5
<1>15. Mirrored'
  <2>1. Advanced' = Advanced
    BY <1>2 DEF Advanced
  <2>2. QED
    BY <1>2, <1>13, <1>14, <2>1 DEF Mirrored
<1>16. Block0'
  BY <1>2, <1>3, <1>14, HostKeepsBlock0
<1>17. QED
  BY <1>2, <1>3, <1>11, <1>12, <1>15, <1>16 DEF TableInv

(* A capture enqueues nothing, and is not the call that wraps.             *)
LEMMA CaptureStep ==
  ASSUME TableInv, OneGraph, Capture
  PROVE  TableInv'
<1>1. ~EpochWraps
  BY DEF Capture, CaptureBinding, OneGraph
<1>2. /\ graph' = "launch" /\ calls' = calls
      /\ UNCHANGED <<owner, unrun, tokens, ring, stream, word, pc, call, done, trapped>>
  BY <1>1 DEF Capture, CaptureBinding, device
<1>3. HostSide' /\ Prepared' /\ ~trapped'
  <2>1. Ahead' = Ahead
    BY <1>2 DEF Ahead
  <2>2. HostSide'
    BY <1>2 DEF TableInv, HostSide
  <2>3. Prepared'
    BY <1>2, <2>1 DEF TableInv, Prepared
  <2>4. QED
    BY <1>2, <2>2, <2>3 DEF TableInv
<1>4. Mirrored'
  <2>1. Advanced' = Advanced
    BY <1>2 DEF Advanced
  <2>2. QED
    BY <1>2, <2>1 DEF TableInv, Mirrored
<1>5. Block0'
  BY <1>2 DEF TableInv, Block0
<1>6. QED
  BY <1>3, <1>4, <1>5 DEF TableInv

(* A replay takes one number, as the kernel it starts will.                *)
LEMMA ReplayStep ==
  ASSUME TableInv, OneGraph, Replay
  PROVE  TableInv'
<1>1. /\ graph # "none" /\ tokens = <<>> /\ MayWrap
      /\ calls' = WrappedCall + 1
      /\ stream' = stream \o WrappedOps \o ReplayedOps
      /\ UNCHANGED <<owner, unrun, tokens, graph, ring, word, pc, call, done, trapped>>
  BY DEF Replay, device
<1>2. HostSide /\ Prepared /\ Mirrored /\ Block0 /\ ~trapped
  BY DEF TableInv
<1>3. calls \in Nat /\ Len(tokens) = 0 /\ unrun = 0 /\ 0 <= Ahead
  <2>1. Len(tokens) = 0
    BY <1>1, EmptySeq
  <2>2. QED
    BY <1>2, <2>1 DEF Prepared
<1>4. HostSide'
  BY <1>1, <1>2 DEF HostSide
<1>5. Prepared'
  <2>1. Ahead' = Ahead
    BY <1>1 DEF Ahead
  <2>2. WrappedCall \in Nat
    BY <1>3 DEF WrappedCall
  <2>3. calls' \in Nat /\ calls' - Len(tokens') \in Nat
    BY <1>1, <1>3, <2>2
  <2>4. tokens' = <<>> /\ tokens' \in Seq({})
    BY <1>1, EmptySeq
  <2>5. Stamped(ring', tokens') /\ unrun' = Len(tokens') /\ Len(tokens') = 0
    BY <1>1, <1>3, <2>4 DEF Stamped
  <2>6. Len(tokens') <= Ahead'
    BY <1>3, <2>1, <2>5
  <2>7. \A i \in 1 .. Len(tokens') : /\ tokens'[i].op = "launch"
                                     /\ tokens'[i].number = calls' - Len(tokens') + i - 1
    BY <2>5
  <2>8. QED
    BY <2>3, <2>4, <2>5, <2>6, <2>7 DEF Prepared
<1>6. PICK first \in Nat :
         /\ Queue(stream, ring, first, calls)
         /\ word = IF Advanced THEN first + 1 ELSE first
         /\ pc[0] # "start" => call[0] = first
  <2>1. calls - Len(tokens) = calls
    BY <1>3
  <2>2. QED
    BY <1>2, <2>1 DEF Mirrored
<1>7. /\ Queue(stream', ring', first, calls' - Len(tokens'))
      /\ stream # <<>> => stream' # <<>> /\ Head(stream') = Head(stream)
  <2> DEFINE mid == stream \o WrappedOps
             num == IF MustWrap THEN 0 ELSE calls
             op == Replayed(captured)
  <2>1. Queue(mid, ring, first, num) /\ (stream # <<>> => mid # <<>> /\ Head(mid) = Head(stream))
    BY <1>3, <1>6, Wrapping
  <2>2. ReplayedOps = <<op>>
    <3>1. graph = "launch"
      BY <1>1, <1>2 DEF HostSide
    <3>2. ReplayedOps = [i \in 1 .. 1 |-> op] \o <<>>
      BY <3>1 DEF ReplayedOps, OneGraph
    <3> HIDE DEF op
    <3>3. [i \in 1 .. 1 |-> op] = <<op>>
      OBVIOUS
    <3>4. <<op>> \in Seq({op})
      OBVIOUS
    <3>5. <<op>> \o <<>> = <<op>>
      BY <3>4, ConcatEmptySeq
    <3>6. QED
      BY <3>2, <3>3, <3>5
  <2>3. op.op = "replay"
    BY DEF Replayed
  <2>4. calls' - Len(tokens') = num + 1 /\ num \in Nat
    BY <1>1, <1>3 DEF WrappedCall
  <2>5. stream' = mid \o <<op>>
    BY <1>1, <2>2
  <2> HIDE DEF mid, num, op
  <2>6. Fits(op, num, ring) /\ After(op, num) = num + 1
    BY <2>3 DEF Fits, After
  <2>7. /\ Queue(mid \o <<op>>, ring, first, num + 1)
        /\ mid # <<>> => mid \o <<op>> # <<>> /\ Head(mid \o <<op>>) = Head(mid)
    <3>1. \E o : <<op>> = <<o>> /\ num + 1 = After(o, num) /\ Fits(o, num, ring)
      BY <2>6
    <3>2. QED
      BY <2>1, <3>1, QueueJoin
  <2>8. QED
    BY <1>1, <2>1, <2>4, <2>5, <2>7
<1>8. Mirrored'
  <2>1. Advanced' = Advanced
    BY <1>1 DEF Advanced
  <2>2. QED
    BY <1>1, <1>6, <1>7, <2>1 DEF Mirrored
<1>9. Block0'
  BY <1>1, <1>2, <1>7, HostKeepsBlock0
<1>10. QED
  BY <1>1, <1>2, <1>4, <1>5, <1>8, <1>9 DEF TableInv

-----------------------------------------------------------------------------
(* Steps of the device. *)

LEMMA DeviceKeepsHost ==
  ASSUME TableInv, UNCHANGED host
  PROVE  HostSide' /\ Prepared'
<1>1. UNCHANGED <<owner, graph, ring, tokens, calls, unrun>>
  BY DEF host, counts
<1>2. Ahead' = Ahead
  BY <1>1 DEF Ahead
<1>3. HostSide'
  BY <1>1 DEF TableInv, HostSide
<1>4. Prepared'
  BY <1>1, <1>2 DEF TableInv, Prepared
<1>5. QED
  BY <1>3, <1>4

(* The head leaves the stream while block 0 is in no kernel, or at the end *)
(* of one.                                                                 *)
LEMMA HeadLeaves ==
  ASSUME TableInv, UNCHANGED host, stream # <<>>, stream' = Tail(stream), trapped' = trapped,
         Block0', pc'[0] = "start",
         \A first \in Nat : (/\ word = IF Advanced THEN first + 1 ELSE first
                             /\ pc[0] # "start" => call[0] = first)
                              => word' = After(Head(stream), first)
  PROVE  TableInv'
<1>1. UNCHANGED <<ring, calls, tokens>>
  BY DEF host, counts
<1> DEFINE next == calls - Len(tokens)
<1>2. PICK first \in Nat :
         /\ Queue(stream, ring, first, next)
         /\ word = IF Advanced THEN first + 1 ELSE first
         /\ pc[0] # "start" => call[0] = first
  BY DEF TableInv, Mirrored
<1>3. word' = After(Head(stream), first)
  BY <1>2
<1>4. next' = next
  BY <1>1
<1> HIDE DEF next
<1>5. Queue(stream', ring', word', next')
  BY <1>1, <1>2, <1>3, <1>4, QueueTail
<1>6. word' \in Nat
  BY <1>5, QueueNumbers
<1>7. ~Advanced'
  BY DEF Block0, Advanced
<1>8. Mirrored'
  BY <1>5, <1>6, <1>7 DEF Mirrored, next
<1>9. QED
  BY <1>8, DeviceKeepsHost DEF TableInv

LEMMA ResetReadyStep ==
  ASSUME TableInv, ResetReady
  PROVE  TableInv'
<1>1. /\ stream # <<>> /\ stream' = Tail(stream) /\ word' = 0 /\ Head(stream).op = "reset"
      /\ UNCHANGED <<host, pc, call, done, trapped>>
  BY DEF ResetReady
<1>2. pc[0] = "start"
  BY <1>1 DEF TableInv, Block0, IsKernel
<1>3. Block0'
  BY <1>1, <1>2 DEF TableInv, Block0
<1>4. \A first \in Nat : word' = After(Head(stream), first)
  BY <1>1 DEF After
<1>5. QED
  BY <1>1, <1>2, <1>3, <1>4, HeadLeaves

LEMMA UploadTableStep ==
  ASSUME TableInv, UploadTable
  PROVE  TableInv'
<1>1. /\ stream # <<>> /\ stream' = Tail(stream) /\ Head(stream).op = "upload"
      /\ UNCHANGED <<host, word, pc, call, done, trapped>>
  BY DEF UploadTable
<1>2. pc[0] = "start" /\ ~Advanced
  BY <1>1 DEF TableInv, Block0, IsKernel, Advanced
<1>3. Block0'
  BY <1>1, <1>2 DEF TableInv, Block0
<1>4. \A first \in Nat : (word = IF Advanced THEN first + 1 ELSE first)
                            => word' = After(Head(stream), first)
  BY <1>1, <1>2 DEF After
<1>5. QED
  BY <1>1, <1>2, <1>3, <1>4, HeadLeaves

LEMMA KernelEndsStep ==
  ASSUME TableInv, KernelEnds
  PROVE  TableInv'
<1>1. Running(0, "end")
  BY Sizes DEF KernelEnds
<1>2. /\ stream # <<>> /\ stream' = Tail(stream) /\ IsKernel(Head(stream)) /\ pc[0] = "end"
      /\ pc' = [c \in Cta |-> "start"] /\ done' = [c \in Cta |-> 0]
      /\ UNCHANGED <<host, word, call, trapped>>
  BY <1>1 DEF KernelEnds, Running
<1>3. pc'[0] = "start" /\ done'[0] = 0
  BY <1>2, Sizes
<1>4. Advanced
  BY <1>2 DEF TableInv, Block0, Advanced
<1>5. Block0'
  BY <1>2, <1>3, Sizes DEF TableInv, Block0, Positions
<1>6. \A first \in Nat : (word = IF Advanced THEN first + 1 ELSE first)
                            => word' = After(Head(stream), first)
  BY <1>2, <1>4 DEF After, IsKernel
<1>7. QED
  BY <1>2, <1>3, <1>5, <1>6, HeadLeaves

(* A step of a CTA: what it must keep of the counter and block 0's copy.   *)
LEMMA CtaKeeps ==
  ASSUME TableInv, UNCHANGED <<host, stream>>, trapped' = trapped, Block0',
         \A first \in Nat : (/\ word = IF Advanced THEN first + 1 ELSE first
                             /\ pc[0] # "start" => call[0] = first)
                              => /\ word' = IF Advanced' THEN first + 1 ELSE first
                                 /\ pc'[0] # "start" => call'[0] = first
  PROVE  TableInv'
<1>1. UNCHANGED <<ring, calls, tokens>>
  BY DEF host, counts
<1>2. PICK first \in Nat :
         /\ Queue(stream, ring, first, calls - Len(tokens))
         /\ word = IF Advanced THEN first + 1 ELSE first
         /\ pc[0] # "start" => call[0] = first
  BY DEF TableInv, Mirrored
<1>3. /\ word' = IF Advanced' THEN first + 1 ELSE first
      /\ pc'[0] # "start" => call'[0] = first
  BY <1>2
<1>4. Mirrored'
  BY <1>1, <1>2, <1>3 DEF Mirrored
<1>5. QED
  BY <1>4, DeviceKeepsHost DEF TableInv

(* The counter is a number.                                                *)
LEMMA WordTyped ==
  ASSUME TableInv
  PROVE  word \in Nat
BY DEF TableInv, Mirrored

(* The other CTAs do not touch either.                                     *)
LEMMA OthersStep ==
  ASSUME TableInv, NEW c \in Cta \ {0}, ReadCall(c) \/ Arrive(c) \/ Wait(c)
  PROVE  TableInv'
<1>1. /\ pc \in [Cta -> Positions] /\ call \in [Cta -> Nat] /\ done \in [Cta -> Nat]
      /\ 0 \in Cta /\ word \in Nat
  BY Sizes, WordTyped DEF TableInv, Block0
<1>2. /\ \E at \in Positions : pc' = [pc EXCEPT ![c] = at]
      /\ call' = [call EXCEPT ![c] = word] \/ call' = call
      /\ done' = [done EXCEPT ![c] = done[c] + 1] \/ done' = done
      /\ UNCHANGED <<host, stream, word, trapped>>
  <2>1. CASE ReadCall(c)
    BY <2>1 DEF ReadCall, Goto, Positions
  <2>2. CASE Arrive(c)
    BY <2>2 DEF Arrive, Goto, Positions
  <2>3. CASE Wait(c)
    BY <2>3 DEF Wait, Goto, Onward, Positions
  <2>4. QED
    BY <2>1, <2>2, <2>3
<1>3. /\ pc' \in [Cta -> Positions] /\ call' \in [Cta -> Nat] /\ done' \in [Cta -> Nat]
      /\ pc'[0] = pc[0] /\ call'[0] = call[0] /\ done'[0] = done[0]
  BY <1>1, <1>2
<1>4. Block0'
  BY <1>2, <1>3 DEF TableInv, Block0, IsKernel
<1>5. Advanced' = Advanced
  BY <1>3 DEF Advanced
<1>6. QED
  BY <1>2, <1>3, <1>4, <1>5, CtaKeeps

(* Block 0 finds its row stamped with the number it has read.              *)
LEMMA StampFound ==
  ASSUME TableInv, Running(0, "check")
  PROVE  Row(0).stamp \in {call[0], -1}
<1>1. PICK first \in Nat :
         /\ Queue(stream, ring, first, calls - Len(tokens))
         /\ pc[0] # "start" => call[0] = first
  BY DEF TableInv, Mirrored
<1>2. stream # <<>> /\ IsKernel(Head(stream)) /\ call[0] = first
  BY <1>1 DEF Running
<1>3. Head(stream).op = "launch" => ring[first % Ring].stamp = first
  BY <1>1, <1>2, QueueTail
<1>4. CASE Head(stream).op = "replay"
  BY <1>4 DEF Row
<1>5. CASE Head(stream).op = "launch"
  BY <1>2, <1>3, <1>5 DEF Row
<1>6. QED
  BY <1>2, <1>4, <1>5 DEF IsKernel

(* Block 0: how far it is, and what it changes.                            *)
LEMMA Block0Step ==
  ASSUME TableInv, CtaStep(0)
  PROVE  TableInv'
<1>1. /\ pc \in [Cta -> Positions] /\ call \in [Cta -> Nat] /\ done \in [Cta -> Nat]
      /\ 0 \in Cta /\ word \in Nat
  BY Sizes, WordTyped DEF TableInv, Block0
<1>2. /\ pc[0] \in {"start", "check", "copy"} => done[0] = 0
      /\ pc[0] \in {"advance", "end"} => done[0] > 0
      /\ done[0] \in Nat
  BY <1>1 DEF TableInv, Block0
<1>3. UNCHANGED <<host, stream>> /\ stream # <<>> /\ IsKernel(Head(stream))
  BY DEF CtaStep, ReadCall, Arrive, Wait, Check, Copy, Advance, Running
<1>4. CASE ReadCall(0)
  <2>1. /\ pc[0] = "start" /\ pc' = [pc EXCEPT ![0] = "check"]
        /\ call' = [call EXCEPT ![0] = word] /\ UNCHANGED <<word, done, trapped>>
    BY <1>4 DEF ReadCall, Running, Goto
  <2>2. /\ pc' \in [Cta -> Positions] /\ call' \in [Cta -> Nat]
        /\ pc'[0] = "check" /\ call'[0] = word /\ done'[0] = 0
    BY <1>1, <1>2, <2>1 DEF Positions
  <2>3. Block0' /\ ~Advanced' /\ ~Advanced
    BY <1>1, <1>2, <1>3, <2>1, <2>2 DEF Block0, Advanced, IsKernel
  <2>4. QED
    BY <1>3, <2>1, <2>2, <2>3, CtaKeeps
<1>5. CASE Check
  <2>1. Running(0, "check")
    BY <1>5 DEF Check
  <2>2. /\ pc[0] = "check" /\ pc' = [pc EXCEPT ![0] = "copy"]
        /\ UNCHANGED <<word, call, done, trapped>>
    BY <1>5, <2>1, StampFound DEF Check, Running, Goto
  <2>3. pc' \in [Cta -> Positions] /\ pc'[0] = "copy"
    BY <1>1, <2>2 DEF Positions
  <2>4. Block0' /\ ~Advanced' /\ ~Advanced
    BY <1>1, <1>2, <1>3, <2>2, <2>3 DEF Block0, Advanced, IsKernel
  <2>5. QED
    BY <1>3, <2>2, <2>3, <2>4, CtaKeeps
<1>6. CASE Copy
  <2>1. /\ pc[0] = "copy" /\ pc' = [pc EXCEPT ![0] = "arrive"]
        /\ UNCHANGED <<word, call, done, trapped>>
    BY <1>6 DEF Copy, Running, Goto
  <2>2. pc' \in [Cta -> Positions] /\ pc'[0] = "arrive"
    BY <1>1, <2>1 DEF Positions
  <2>3. Block0' /\ ~Advanced' /\ ~Advanced
    BY <1>1, <1>2, <1>3, <2>1, <2>2 DEF Block0, Advanced, IsKernel
  <2>4. QED
    BY <1>3, <2>1, <2>2, <2>3, CtaKeeps
<1>7. CASE Arrive(0)
  <2>1. /\ pc[0] = "arrive" /\ pc' = [pc EXCEPT ![0] = "wait"]
        /\ UNCHANGED <<word, call, done, trapped>>
    BY <1>7 DEF Arrive, Running, Goto
  <2>2. pc' \in [Cta -> Positions] /\ pc'[0] = "wait"
    BY <1>1, <2>1 DEF Positions
  <2>3. Block0' /\ Advanced' = Advanced
    BY <1>1, <1>2, <1>3, <2>1, <2>2 DEF Block0, Advanced, IsKernel
  <2>4. QED
    BY <1>3, <2>1, <2>2, <2>3, CtaKeeps
<1>8. CASE Wait(0)
  <2> DEFINE at == IF done[0] = 0 THEN "advance" ELSE Onward(done[0] + 1)
  <2>1. /\ pc[0] = "wait" /\ pc' = [pc EXCEPT ![0] = at]
        /\ done' = [done EXCEPT ![0] = done[0] + 1]
        /\ UNCHANGED <<word, call, trapped>>
    BY <1>8 DEF Wait, Running, Goto
  <2>2. at \in {"advance", "end", "arrive"} /\ (at = "advance" <=> done[0] = 0)
    BY DEF Onward
  <2> HIDE DEF at
  <2>3. pc' \in [Cta -> Positions] /\ pc'[0] = at /\ done' \in [Cta -> Nat]
        /\ done'[0] = done[0] + 1
    BY <1>1, <1>2, <2>1, <2>2 DEF Positions
  <2>4. Block0' /\ Advanced' = Advanced
    BY <1>1, <1>2, <1>3, <2>1, <2>2, <2>3 DEF Block0, Advanced, IsKernel
  <2>5. QED
    BY <1>3, <2>1, <2>3, <2>4, CtaKeeps
<1>9. CASE Advance
  <2> DEFINE at == Onward(done[0])
  <2>1. /\ pc[0] = "advance" /\ pc' = [pc EXCEPT ![0] = at] /\ word' = call[0] + 1
        /\ UNCHANGED <<call, done, trapped>>
    BY <1>9 DEF Advance, Running, Goto
  <2>2. at \in {"end", "arrive"}
    BY DEF Onward
  <2> HIDE DEF at
  <2>3. pc' \in [Cta -> Positions] /\ pc'[0] = at
    BY <1>1, <2>1, <2>2 DEF Positions
  <2>4. Block0' /\ Advanced' /\ ~Advanced
    BY <1>1, <1>2, <1>3, <2>1, <2>2, <2>3 DEF Block0, Advanced, IsKernel
  <2>5. QED
    BY <1>3, <2>1, <2>3, <2>4, CtaKeeps
<1>10. QED
  BY <1>4, <1>5, <1>6, <1>7, <1>8, <1>9 DEF CtaStep

LEMMA TableStep ==
  ASSUME TableInv, OneGraph, [Next]_vars
  PROVE  TableInv'
<1>1. CASE UNCHANGED vars
  <2>1. UNCHANGED <<host, stream, word, pc, call, done, trapped>>
    BY <1>1 DEF vars, device
  <2>2. Block0' /\ Advanced' = Advanced
    BY <2>1 DEF TableInv, Block0, Advanced
  <2>3. QED
    BY <2>1, <2>2, CtaKeeps
<1>2. CASE HostStep
  BY <1>2, PrepareStep, RunLaunchStep, CaptureStep, ReplayStep DEF HostStep
<1>3. CASE HostDone
  BY <1>1, <1>3 DEF HostDone
<1>4. CASE ResetReady \/ UploadTable \/ KernelEnds
  BY <1>4, ResetReadyStep, UploadTableStep, KernelEndsStep
<1>5. ASSUME NEW c \in Cta, CtaStep(c) PROVE TableInv'
  <2>1. CASE c = 0
    BY <1>5, <2>1, Block0Step
  <2>2. CASE c # 0
    BY <1>5, <2>2, OthersStep DEF CtaStep
  <2>3. QED
    BY <2>1, <2>2
<1>6. QED
  BY <1>1, <1>2, <1>3, <1>4, <1>5 DEF Next, DeviceStep

-----------------------------------------------------------------------------
(* Numbers. *)

(* Min of the community modules is the least of a set of naturals.         *)
LEMMA LeastNumber ==
  ASSUME NEW S \in SUBSET Nat, S # {}
  PROVE  Min(S) \in S /\ \A m \in S : Min(S) <= m
<1>1. PICK n \in S : \A m \in S : <<m, n>> \notin OpToRel(<, Nat)
  BY NatLessThanWellFounded, WFMin
<1>2. ASSUME NEW m \in S
      PROVE  n <= m
  <2>1. n \in Nat /\ m \in Nat
    OBVIOUS
  <2>2. ~ (m < n)
    BY <1>1, <2>1 DEF OpToRel
  <2>3. QED
    BY <2>1, <2>2
<1>3. QED
  BY <1>2 DEF Min

-----------------------------------------------------------------------------
(* Views. *)

(* The first views from v on. *)
Views(V, alias, v, m, f) ==
  /\ f \in [0 .. m -> V] /\ f[0] = v
  /\ \A k \in 1 .. m : f[k] = alias[f[k - 1]]

(* There are as many of them as one asks for.                              *)
LEMMA ViewsExist ==
  ASSUME NEW V, NEW alias \in [V -> V], NEW v \in V, NEW N \in Nat
  PROVE  \E f : Views(V, alias, v, N, f)
<1> DEFINE S == {m \in 0 .. N : ~ \E f : Views(V, alias, v, m, f)}
<1>1. SUFFICES ASSUME S # {} PROVE FALSE
  <2>1. N \in 0 .. N
    OBVIOUS
  <2>2. QED
    BY <2>1
<1>2. S \in SUBSET Nat
  OBVIOUS
<1>3. Min(S) \in S /\ \A k \in S : Min(S) <= k
  <2> HIDE DEF S
  <2>1. QED
    BY <1>1, <1>2, LeastNumber
<1>4. PICK m \in 0 .. N : /\ ~ \E f : Views(V, alias, v, m, f)
                          /\ \A k \in 0 .. N : (~ \E f : Views(V, alias, v, k, f)) => m <= k
  BY <1>3
<1>5. CASE m = 0
  <2>1. PICK f : f = [k \in 0 .. 0 |-> v]
    OBVIOUS
  <2>2. Views(V, alias, v, 0, f)
    BY <2>1 DEF Views
  <2>3. QED
    BY <1>4, <1>5, <2>2
<1>6. CASE m # 0
  <2>1. PICK n \in Nat : n = m - 1 /\ m = n + 1
    BY <1>6
  <2>2. n \in 0 .. N /\ ~ (m <= n)
    BY <2>1
  <2>3. PICK f : Views(V, alias, v, n, f)
    BY <1>4, <2>2
  <2>4. f \in [0 .. n -> V] /\ f[0] = v /\ \A k \in 1 .. n : f[k] = alias[f[k - 1]]
    BY <2>3 DEF Views
  <2>5. PICK a \in V : a = alias[f[n]]
    BY <2>1, <2>4
  <2>6. PICK h : h = [k \in 0 .. m |-> IF k = m THEN a ELSE f[k]]
    OBVIOUS
  <2>7. h[m] = a /\ \A k \in 0 .. n : h[k] = f[k]
    BY <2>1, <2>6
  <2>8. h \in [0 .. m -> V] /\ h[0] = v
    BY <2>1, <2>4, <2>6, <2>7
  <2>9. ASSUME NEW k \in 1 .. m PROVE h[k] = alias[h[k - 1]]
    <3>1. CASE k = m
      <4>1. k - 1 = n /\ n \in 0 .. n
        BY <2>1, <3>1
      <4>2. QED
        BY <2>5, <2>7, <3>1, <4>1
    <3>2. CASE k \in 1 .. n
      <4>1. k \in 0 .. n /\ k - 1 \in 0 .. n
        BY <3>2
      <4>2. QED
        BY <2>4, <2>7, <3>2, <4>1
    <3>3. QED
      BY <2>1, <3>1, <3>2
  <2>10. Views(V, alias, v, m, h)
    BY <2>8, <2>9 DEF Views
  <2>11. QED
    BY <1>4, <2>10
<1>7. QED
  BY <1>5, <1>6

(* The function Upward chooses exists, ...                                 *)
LEMMA UpwardExists ==
  ASSUME NEW g, GraphSound(g), NEW v \in g.values
  PROVE  /\ Cardinality(g.values) \in Nat
         /\ \E f : f = [k \in 0 .. Cardinality(g.values) |-> IF k = 0 THEN v ELSE g.alias[f[k - 1]]]
<1>1. Cardinality(g.values) \in Nat /\ g.alias \in [g.values -> g.values]
  BY FS_CardinalityType DEF GraphSound
<1>2. PICK f : Views(g.values, g.alias, v, Cardinality(g.values), f)
  BY <1>1, ViewsExist
<1>3. PICK h : h = [k \in 0 .. Cardinality(g.values) |-> IF k = 0 THEN v ELSE g.alias[f[k - 1]]]
  OBVIOUS
<1>4. \A k \in 0 .. Cardinality(g.values) : f[k] = h[k]
  BY <1>1, <1>2, <1>3 DEF Views
<1>5. f = [k \in 0 .. Cardinality(g.values) |-> f[k]]
  BY <1>2 DEF Views
<1>6. f = h
  BY <1>3, <1>4, <1>5
<1>7. f = [k \in 0 .. Cardinality(g.values) |-> IF k = 0 THEN v ELSE g.alias[f[k - 1]]]
  BY <1>3, <1>6
<1>8. QED
  BY <1>1, <1>7, Zenon

(* ... and starts at v and goes from a value to the one it is a view of.   *)
LEMMA UpwardIs ==
  ASSUME NEW g, GraphSound(g), NEW v \in g.values
  PROVE  LET N == Cardinality(g.values)  up == Upward(g, v)
         IN  /\ N \in Nat /\ up[0] = v
             /\ \A k \in 0 .. N : up[k] \in g.values
             /\ \A k \in 1 .. N : up[k] = g.alias[up[k - 1]]
<1>1. PICK N \in Nat : N = Cardinality(g.values)
  BY UpwardExists
<1>2. PICK up : up = Upward(g, v)
  OBVIOUS
<1>3. up = CHOOSE f : f = [k \in 0 .. Cardinality(g.values) |-> IF k = 0 THEN v ELSE g.alias[f[k - 1]]]
  BY <1>2, Zenon DEF Upward
<1>4. \E f : f = [k \in 0 .. Cardinality(g.values) |-> IF k = 0 THEN v ELSE g.alias[f[k - 1]]]
  BY UpwardExists, Zenon
<1>5. up = [k \in 0 .. Cardinality(g.values) |-> IF k = 0 THEN v ELSE g.alias[up[k - 1]]]
  BY <1>3, <1>4, Zenon
<1>6. PICK h : h = [k \in 0 .. N |-> IF k = 0 THEN v ELSE g.alias[up[k - 1]]]
  OBVIOUS
<1>7. up = h
  BY <1>1, <1>5, <1>6, Zenon
<1>8. up[0] = v /\ \A k \in 1 .. N : up[k] = g.alias[up[k - 1]]
  BY <1>6, <1>7
<1> DEFINE S == {k \in 0 .. N : up[k] \notin g.values}
<1>9. S = {}
  <2>1. SUFFICES ASSUME S # {} PROVE FALSE
    OBVIOUS
  <2>2. S \in SUBSET Nat
    OBVIOUS
  <2>3. Min(S) \in S /\ \A k \in S : Min(S) <= k
    <3> HIDE DEF S
    <3>1. QED
      BY <2>1, <2>2, LeastNumber
  <2>4. PICK m \in 0 .. N : up[m] \notin g.values /\ \A k \in S : m <= k
    BY <2>3
  <2>5. m # 0
    BY <1>8, <2>4
  <2>6. m - 1 \in 0 .. N /\ m \in 1 .. N /\ ~ (m <= m - 1)
    BY <2>5
  <2>7. up[m - 1] \in g.values
    BY <2>4, <2>6
  <2>8. g.alias[up[m - 1]] \in g.values
    BY <2>7 DEF GraphSound
  <2>9. QED
    BY <1>8, <2>4, <2>6, <2>8
<1>10. QED
  BY <1>1, <1>2, <1>8, <1>9

(* A value goes back to one.                                               *)
LEMMA HeightIs ==
  ASSUME NEW g, GraphSound(g), NEW v \in g.values
  PROVE  /\ Height(g, v) \in 0 .. Cardinality(g.values)
         /\ IsTop(g, v, Height(g, v))
         /\ \A n \in 0 .. Cardinality(g.values) : IsTop(g, v, n) => n = Height(g, v)
<1>1. PICK N \in Nat : N = Cardinality(g.values)
  BY UpwardIs
<1>2. PICK up : up = Upward(g, v)
  OBVIOUS
<1> DEFINE S == {n \in 0 .. N : g.alias[up[n]] = up[n]}
<1>3. S # {} /\ S \in SUBSET Nat
  BY <1>1, <1>2 DEF GraphSound
<1>4. Min(S) \in S /\ \A k \in S : Min(S) <= k
  <2> HIDE DEF S
  <2>1. QED
    BY <1>3, LeastNumber
<1>5. PICK m \in 0 .. N : g.alias[up[m]] = up[m] /\ \A k \in S : m <= k
  BY <1>4
<1>6. IsTop(g, v, m)
  BY <1>2, <1>5 DEF IsTop
<1>7. \A a, b \in 0 .. N : IsTop(g, v, a) /\ IsTop(g, v, b) => a = b
  BY <1>2 DEF IsTop
<1>8. Height(g, v) \in 0 .. N /\ IsTop(g, v, Height(g, v))
  BY <1>1, <1>6 DEF Height
<1>9. QED
  BY <1>1, <1>7, <1>8

(* The views of v, and what they go back to, which is what v goes back to. *)
LEMMA AncestryIs ==
  ASSUME NEW g, GraphSound(g), NEW v \in g.values
  PROVE  /\ StorageRoot(g, v) \in g.values
         /\ \A b \in g.values : (\E j \in DOMAIN Ancestry(g, v) : b = Ancestry(g, v)[j])
                                  => StorageRoot(g, b) = StorageRoot(g, v)
         /\ \E j \in DOMAIN Ancestry(g, v) : StorageRoot(g, v) = Ancestry(g, v)[j]
         /\ Len(Ancestry(g, v)) \in Nat /\ DOMAIN Ancestry(g, v) = 1 .. Len(Ancestry(g, v))
         /\ \A j \in DOMAIN Ancestry(g, v) : Ancestry(g, v)[j] \in g.values
         /\ StorageRoot(g, StorageRoot(g, v)) = StorageRoot(g, v)
<1>1. PICK N \in Nat : N = Cardinality(g.values)
  BY UpwardIs
<1>2. PICK up : up = Upward(g, v)
  OBVIOUS
<1>3. PICK h \in 0 .. N : h = Height(g, v)
  BY <1>1, HeightIs
<1>4. /\ up[0] = v /\ \A k \in 0 .. N : up[k] \in g.values
      /\ \A k \in 1 .. N : up[k] = g.alias[up[k - 1]]
  BY <1>1, <1>2, UpwardIs
<1>5. g.alias[up[h]] = up[h] /\ \A k \in 0 .. h - 1 : g.alias[up[k]] # up[k]
  BY <1>2, <1>3, HeightIs DEF IsTop
<1>6. PICK views : views = Ancestry(g, v) /\ views = [k \in 1 .. h + 1 |-> up[k - 1]]
  BY <1>2, <1>3 DEF Ancestry
<1>7. Len(views) = h + 1 /\ DOMAIN views = 1 .. h + 1
  BY <1>6
<1>8. StorageRoot(g, v) = up[h]
  BY <1>2, <1>3 DEF StorageRoot
<1>9. ASSUME NEW i \in 0 .. h
      PROVE  StorageRoot(g, up[i]) = up[h]
  <2>1. PICK ub : ub = Upward(g, up[i])
    OBVIOUS
  <2>2. up[i] \in g.values
    BY <1>4
  <2>3. /\ ub[0] = up[i]
        /\ \A k \in 1 .. N : ub[k] = g.alias[ub[k - 1]]
    BY <1>1, <2>1, <2>2, UpwardIs
  <2> DEFINE S == {k \in 0 .. h - i : ub[k] # up[i + k]}
  <2>4. S = {}
    <3>1. SUFFICES ASSUME S # {} PROVE FALSE
      OBVIOUS
    <3>2. S \in SUBSET Nat
      OBVIOUS
    <3>3. Min(S) \in S /\ \A k \in S : Min(S) <= k
      <4> HIDE DEF S
      <4>1. QED
        BY <3>1, <3>2, LeastNumber
    <3>4. PICK m \in 0 .. h - i : ub[m] # up[i + m] /\ \A k \in S : m <= k
      BY <3>3
    <3>5. m # 0
      BY <2>3, <3>4
    <3>6. m - 1 \in 0 .. h - i /\ m \in 1 .. N /\ ~ (m <= m - 1) /\ i + m \in 1 .. N
      BY <3>5
    <3>7. ub[m - 1] = up[i + (m - 1)]
      BY <3>4, <3>6
    <3>8. ub[m] = g.alias[ub[m - 1]] /\ up[i + m] = g.alias[up[(i + m) - 1]]
      BY <1>4, <2>3, <3>6
    <3>9. i + (m - 1) = (i + m) - 1
      OBVIOUS
    <3>10. QED
      BY <3>4, <3>7, <3>8, <3>9
  <2>5. \A k \in 0 .. h - i : ub[k] = up[i + k]
    BY <2>4
  <2>6. ub[h - i] = up[h] /\ \A k \in 0 .. (h - i) - 1 : ub[k] = up[i + k] /\ i + k \in 0 .. h - 1
    BY <2>5
  <2>7. IsTop(g, up[i], h - i)
    BY <1>5, <2>1, <2>6 DEF IsTop
  <2>8. Height(g, up[i]) = h - i
    BY <1>1, <2>2, <2>7, HeightIs
  <2>9. QED
    BY <2>1, <2>6, <2>8 DEF StorageRoot
<1>10. \A b : (\E j \in DOMAIN views : b = views[j]) => \E i \in 0 .. h : b = up[i]
  <2>1. \A j \in 1 .. h + 1 : j - 1 \in 0 .. h /\ views[j] = up[j - 1]
    BY <1>6
  <2>2. QED
    BY <1>7, <2>1
<1>11. h + 1 \in DOMAIN views /\ views[h + 1] = up[h]
  BY <1>6, <1>7
<1>12. \A j \in DOMAIN views : views[j] \in g.values
  BY <1>4, <1>6, <1>7
<1>13. h \in 0 .. h
  OBVIOUS
<1>14. StorageRoot(g, v) \in g.values /\ StorageRoot(g, StorageRoot(g, v)) = StorageRoot(g, v)
  BY <1>4, <1>8, <1>9, <1>13
<1>15. ASSUME NEW b \in g.values, \E j \in DOMAIN Ancestry(g, v) : b = Ancestry(g, v)[j]
       PROVE  StorageRoot(g, b) = StorageRoot(g, v)
  <2>1. PICK i \in 0 .. h : b = up[i]
    BY <1>6, <1>10, <1>15
  <2>2. QED
    BY <1>8, <1>9, <2>1
<1>16. \E j \in DOMAIN Ancestry(g, v) : StorageRoot(g, v) = Ancestry(g, v)[j]
  BY <1>6, <1>8, <1>11
<1>17. Len(Ancestry(g, v)) \in Nat /\ DOMAIN Ancestry(g, v) = 1 .. Len(Ancestry(g, v))
  BY <1>6, <1>7
<1>18. \A j \in DOMAIN Ancestry(g, v) : Ancestry(g, v)[j] \in g.values
  BY <1>6, <1>12
<1>19. QED
  BY <1>14, <1>15, <1>16, <1>17, <1>18

(* A value that is no view is its own storage root.                        *)
LEMMA OwnsItself ==
  ASSUME NEW g, GraphSound(g), NEW v \in g.values, g.alias[v] = v
  PROVE  StorageRoot(g, v) = v
<1>1. Upward(g, v)[0] = v /\ Cardinality(g.values) \in Nat
  BY UpwardIs
<1>2. IsTop(g, v, 0)
  BY <1>1 DEF IsTop
<1>3. Height(g, v) = 0
  BY <1>1, <1>2, HeightIs
<1>4. QED
  BY <1>1, <1>3 DEF StorageRoot

(* The base found is known, and goes back to what v goes back to.          *)
LEMMA NearestIs ==
  ASSUME NEW g, GraphSound(g), NEW v \in g.values, NEW known \in SUBSET g.values
  PROVE  /\ Nearest(g, v, known) = <<>> =>
              \A j \in DOMAIN Ancestry(g, v) : Ancestry(g, v)[j] \notin known
         /\ Nearest(g, v, known) # <<>> =>
              \E b \in known : /\ Nearest(g, v, known) = <<b>>
                               /\ StorageRoot(g, b) = StorageRoot(g, v)
<1>1. PICK n \in Nat : n = Len(Ancestry(g, v)) /\ DOMAIN Ancestry(g, v) = 1 .. n
  BY AncestryIs
<1> DEFINE I == {i \in 1 .. Len(Ancestry(g, v)) : Ancestry(g, v)[i] \in known}
           first == SelectInSeq(Ancestry(g, v), LAMBDA base : base \in known)
<1>2. first = IF I # {} THEN Min(I) ELSE 0
  BY DEF SelectInSeq
<1>3. Nearest(g, v, known) = IF first = 0 THEN <<>> ELSE <<Ancestry(g, v)[first]>>
  BY DEF Nearest
<1> HIDE DEF first
<1>4. CASE I = {}
  <2>1. Nearest(g, v, known) = <<>>
    BY <1>2, <1>3, <1>4
  <2>2. \A j \in 1 .. n : Ancestry(g, v)[j] \notin known
    BY <1>1, <1>4
  <2>3. QED
    BY <1>1, <2>1, <2>2
<1>5. CASE I # {}
  <2>1. I \in SUBSET Nat
    BY <1>1
  <2>2. Min(I) \in I
    <3> HIDE DEF I
    <3>1. QED
      BY <1>5, <2>1, LeastNumber
  <2>3. PICK k \in 1 .. n : Ancestry(g, v)[k] \in known /\ k = Min(I)
    BY <1>1, <2>2
  <2>4. PICK b \in known : b = Ancestry(g, v)[k]
    BY <2>3
  <2>5. first = k
    <3> HIDE DEF I
    <3>1. QED
      BY <1>2, <1>5, <2>3
  <2>6. Nearest(g, v, known) = <<b>>
    <3>1. first # 0 /\ Ancestry(g, v)[first] = b
      BY <2>3, <2>4, <2>5
    <3>2. QED
      BY <1>3, <3>1
  <2>7. b \in g.values /\ \E j \in DOMAIN Ancestry(g, v) : b = Ancestry(g, v)[j]
    BY <1>1, <2>3, <2>4
  <2>8. StorageRoot(g, b) = StorageRoot(g, v)
    <3>1. \A x \in g.values : (\E j \in DOMAIN Ancestry(g, v) : x = Ancestry(g, v)[j])
                               => StorageRoot(g, x) = StorageRoot(g, v)
      BY AncestryIs
    <3>2. QED
      BY <2>7, <3>1, Zenon
  <2>9. QED
    BY <2>6, <2>8
<1>6. QED
  BY <1>4, <1>5

-----------------------------------------------------------------------------
(* A full binding. *)

Bindings(g, b, inputs, turn, m, f) ==
  /\ \E D : f \in [0 .. m -> D]
  /\ f[0] = NothingBound
  /\ \A k \in 1 .. m : f[k] = Bind(g, inputs, turn, f[k - 1], b[k])

(* The function Refreshed chooses exists, ...                              *)
LEMMA BindingsExist ==
  ASSUME NEW g, NEW b, NEW inputs, NEW turn, NEW N \in Nat
  PROVE  \E f : Bindings(g, b, inputs, turn, N, f)
<1> DEFINE S == {m \in 0 .. N : ~ \E f : Bindings(g, b, inputs, turn, m, f)}
<1>1. SUFFICES ASSUME S # {} PROVE FALSE
  <2>1. N \in 0 .. N
    OBVIOUS
  <2>2. QED
    BY <2>1
<1>2. S \in SUBSET Nat
  OBVIOUS
<1>3. Min(S) \in S /\ \A k \in S : Min(S) <= k
  <2> HIDE DEF S
  <2>1. QED
    BY <1>1, <1>2, LeastNumber
<1>4. PICK m \in 0 .. N : /\ ~ \E f : Bindings(g, b, inputs, turn, m, f)
                          /\ \A k \in 0 .. N : (~ \E f : Bindings(g, b, inputs, turn, k, f)) => m <= k
  BY <1>3
<1>5. CASE m = 0
  <2>1. PICK D : \E x \in D : x = NothingBound
    <3>1. NothingBound \in {NothingBound}
      OBVIOUS
    <3>2. QED
      BY <3>1
  <2>2. PICK x \in D : x = NothingBound
    BY <2>1
  <2>3. PICK f : f = [k \in 0 .. 0 |-> x]
    OBVIOUS
  <2>4. f \in [0 .. 0 -> D] /\ f[0] = x
    BY <2>3
  <2>5. Bindings(g, b, inputs, turn, 0, f)
    BY <2>2, <2>4 DEF Bindings
  <2>6. QED
    BY <1>4, <1>5, <2>5
<1>6. CASE m # 0
  <2>1. PICK n \in Nat : n = m - 1 /\ m = n + 1
    BY <1>6
  <2>2. n \in 0 .. N /\ ~ (m <= n)
    BY <2>1
  <2>3. PICK f : Bindings(g, b, inputs, turn, n, f)
    BY <1>4, <2>2
  <2>4. PICK D : f \in [0 .. n -> D]
    BY <2>3 DEF Bindings
  <2>5. f[0] = NothingBound /\ \A k \in 1 .. n : f[k] = Bind(g, inputs, turn, f[k - 1], b[k])
    BY <2>3 DEF Bindings
  <2>6. PICK a : a = Bind(g, inputs, turn, f[n], b[m])
    OBVIOUS
  <2>7. PICK h : h = [k \in 0 .. m |-> IF k = m THEN a ELSE f[k]]
    OBVIOUS
  <2>8. h[m] = a /\ \A k \in 0 .. n : h[k] = f[k]
    BY <2>1, <2>7
  <2>9. h \in [0 .. m -> D \cup {a}] /\ h[0] = NothingBound
    BY <2>1, <2>4, <2>5, <2>7, <2>8
  <2>10. ASSUME NEW k \in 1 .. m PROVE h[k] = Bind(g, inputs, turn, h[k - 1], b[k])
    <3>1. CASE k = m
      <4>1. k - 1 = n /\ n \in 0 .. n
        BY <2>1, <3>1
      <4>2. QED
        BY <2>6, <2>8, <3>1, <4>1
    <3>2. CASE k \in 1 .. n
      <4>1. k \in 0 .. n /\ k - 1 \in 0 .. n
        BY <3>2
      <4>2. QED
        BY <2>5, <2>8, <3>2, <4>1
    <3>3. QED
      BY <2>1, <3>1, <3>2
  <2>11. Bindings(g, b, inputs, turn, m, h)
    BY <2>9, <2>10 DEF Bindings
  <2>12. QED
    BY <1>4, <2>11
<1>7. QED
  BY <1>5, <1>6

(* ... and binds one binding after the other.                              *)
LEMMA RefreshedIs ==
  ASSUME NEW g, NEW b, NEW inputs, NEW turn, Len(b) \in Nat
  PROVE  LET f == Refreshed(g, b, inputs, turn)
         IN  /\ f[0] = NothingBound
             /\ \A k \in 1 .. Len(b) : f[k] = Bind(g, inputs, turn, f[k - 1], b[k])
<1>1. PICK F : F = Refreshed(g, b, inputs, turn)
  OBVIOUS
<1>2. F = CHOOSE f : f = [k \in 0 .. Len(b) |->
            IF k = 0 THEN NothingBound ELSE Bind(g, inputs, turn, f[k - 1], b[k])]
  BY <1>1, Zenon DEF Refreshed
<1>3. \E f : f = [k \in 0 .. Len(b) |->
            IF k = 0 THEN NothingBound ELSE Bind(g, inputs, turn, f[k - 1], b[k])]
  <2>1. PICK f : Bindings(g, b, inputs, turn, Len(b), f)
    BY BindingsExist
  <2>2. PICK h : h = [k \in 0 .. Len(b) |->
                        IF k = 0 THEN NothingBound ELSE Bind(g, inputs, turn, f[k - 1], b[k])]
    OBVIOUS
  <2>3. \A k \in 0 .. Len(b) : f[k] = h[k]
    BY <2>1, <2>2 DEF Bindings
  <2>4. f = [k \in 0 .. Len(b) |-> f[k]]
    BY <2>1 DEF Bindings
  <2>5. f = h
    BY <2>2, <2>3, <2>4
  <2>6. f = [k \in 0 .. Len(b) |->
               IF k = 0 THEN NothingBound ELSE Bind(g, inputs, turn, f[k - 1], b[k])]
    BY <2>2, <2>5
  <2>7. QED
    BY <2>6, Zenon
<1>4. F = [k \in 0 .. Len(b) |->
             IF k = 0 THEN NothingBound ELSE Bind(g, inputs, turn, F[k - 1], b[k])]
  BY <1>2, <1>3, Zenon
<1>5. PICK h : h = [k \in 0 .. Len(b) |->
                      IF k = 0 THEN NothingBound ELSE Bind(g, inputs, turn, F[k - 1], b[k])]
  OBVIOUS
<1>6. F = h
  BY <1>4, <1>5, Zenon
<1>7. F[0] = NothingBound /\ \A k \in 1 .. Len(b) : F[k] = Bind(g, inputs, turn, F[k - 1], b[k])
  BY <1>5, <1>6
<1>8. QED
  BY <1>1, <1>7

(* The tensors a turn may be made with. *)
InputsFit(p, inputs) ==
  /\ DOMAIN inputs = ToSet(p.graph.inputs)
  /\ \A v \in DOMAIN inputs : inputs[v].start \in Int

(* What is known of a sound plan, by index.                                *)
LEMMA PlanIs ==
  ASSUME NEW p, PlanSound(p)
  PROVE  /\ GraphSound(p.graph)
         /\ Len(p.bindings) \in Nat \ {0} /\ DOMAIN p.bindings = 1 .. Len(p.bindings)
         /\ \A i \in DOMAIN p.bindings : /\ p.bindings[i].value \in p.graph.values
                                         /\ p.bindings[i].kind \in Kinds
                                         /\ BindingSound(p, i)
                                         /\ p.bindings[i] = Binding(p.bindings[i].value, p.bindings[i].kind)
         /\ ToSet(p.graph.inputs) \subseteq p.graph.values
         /\ \A v \in ToSet(p.graph.inputs) :
              StorageRoot(p.graph, v) = v /\ \E i \in DOMAIN p.bindings : p.bindings[i].value = v
<1>1. PICK b : b = p.bindings /\ b \in Seq([value : p.graph.values, kind : Kinds]) /\ b # <<>>
  BY DEF PlanSound
<1>2. Len(b) \in Nat \ {0} /\ DOMAIN b = 1 .. Len(b)
  <2>1. PICK S : b \in Seq(S)
    BY <1>1
  <2>2. Len(b) \in Nat /\ DOMAIN b = 1 .. Len(b)
    BY <2>1, LenProperties
  <2>3. Len(b) # 0
    BY <1>1, <2>1, EmptySeq
  <2>4. QED
    BY <2>2, <2>3
<1>3. \A i \in DOMAIN b : b[i] \in [value : p.graph.values, kind : Kinds]
  <2>1. PICK R : R = [value : p.graph.values, kind : Kinds]
    OBVIOUS
  <2>2. \A i \in DOMAIN b : b[i] \in R
    BY <1>1, <1>2, <2>1, ElementOfSeq
  <2>3. QED
    BY <2>1, <2>2
<1>4. \A i \in DOMAIN b : b[i] = Binding(b[i].value, b[i].kind)
  BY <1>3 DEF Binding
<1>5. \A v \in ToSet(p.graph.inputs) : v \in p.graph.values /\ p.graph.alias[v] = v
  BY DEF PlanSound, GraphSound
<1>6. \A v \in ToSet(p.graph.inputs) : StorageRoot(p.graph, v) = v
  BY <1>5, OwnsItself DEF PlanSound
<1>7. \A v \in ToSet(p.graph.inputs) : \E i \in DOMAIN p.bindings : p.bindings[i].value = v
  BY DEF PlanSound
<1>8. GraphSound(p.graph) /\ \A i \in DOMAIN p.bindings : BindingSound(p, i)
  BY DEF PlanSound
<1>9. QED
  BY <1>1, <1>2, <1>3, <1>4, <1>5, <1>6, <1>7, <1>8

(* What a value is meant to be at.                                         *)
LEMMA MeantIs ==
  ASSUME NEW p, PlanSound(p), NEW v \in p.graph.values, NEW inputs, InputsFit(p, inputs), NEW turn
  PROVE  LET store == StorageRoot(p.graph, v)
             t     == OwnerTensor(p, store, inputs, turn)
         IN  /\ store \in p.graph.values /\ StorageRoot(p.graph, store) = store
             /\ t.start \in Int /\ p.graph.offset[v] \in Int /\ p.graph.offset[store] \in Int
             /\ Meant(p, v, inputs, turn) = <<t.storage, t.start + p.graph.offset[v] - p.graph.offset[store]>>
<1>1. PICK store \in p.graph.values : /\ store = StorageRoot(p.graph, v)
                                      /\ StorageRoot(p.graph, store) = store
  BY AncestryIs DEF PlanSound
<1>2. p.graph.offset[v] \in Int /\ p.graph.offset[store] \in Int /\ p.graph.place[store] \in Int
  BY DEF PlanSound, GraphSound
<1>3. OwnerTensor(p, store, inputs, turn).start \in Int
  <2>1. CASE store \in DOMAIN inputs
    BY <2>1 DEF OwnerTensor, InputsFit
  <2>2. CASE store \notin DOMAIN inputs
    BY <1>2, <2>2 DEF OwnerTensor, WorkspaceTensor, Allocated
  <2>3. QED
    BY <2>1, <2>2
<1>4. QED
  BY <1>1, <1>2, <1>3 DEF Meant

(* The bound value that a value is taken from shares its storage root.     *)
LEMMA InternalIs ==
  ASSUME NEW g, GraphSound(g), NEW v \in g.values, NEW known \in SUBSET g.values
  PROVE  /\ InternalAlias(g, v, known) = <<>> => StorageRoot(g, v) \notin known \ {v}
         /\ InternalAlias(g, v, known) # <<>> =>
              \E b \in known : /\ InternalAlias(g, v, known) = <<b>>
                               /\ StorageRoot(g, b) = StorageRoot(g, v)
<1>1. StorageRoot(g, v) \in g.values /\ StorageRoot(g, StorageRoot(g, v)) = StorageRoot(g, v)
  BY AncestryIs
<1>2. CASE StorageRoot(g, v) \in known \ {v}
  <2>1. InternalAlias(g, v, known) = <<StorageRoot(g, v)>>
    BY <1>2 DEF InternalAlias
  <2>2. QED
    BY <1>1, <1>2, <2>1
<1>3. CASE StorageRoot(g, v) \notin known \ {v}
  <2>1. InternalAlias(g, v, known) = Nearest(g, v, known \ {v})
    BY <1>3 DEF InternalAlias
  <2>2. PICK rest \in SUBSET g.values : rest = known \ {v}
    OBVIOUS
  <2>3. Nearest(g, v, rest) # <<>> =>
          \E b \in rest : Nearest(g, v, rest) = <<b>> /\ StorageRoot(g, b) = StorageRoot(g, v)
    BY NearestIs
  <2>4. QED
    BY <1>3, <2>1, <2>2, <2>3
<1>4. QED
  BY <1>2, <1>3

(* The input that a value is taken from is its storage root.               *)
LEMMA BoundaryIs ==
  ASSUME NEW p, PlanSound(p), NEW v \in p.graph.values, NEW inputs, InputsFit(p, inputs)
  PROVE  /\ BoundaryAlias(p.graph, v, inputs) = <<>> => StorageRoot(p.graph, v) \notin DOMAIN inputs
         /\ BoundaryAlias(p.graph, v, inputs) # <<>> =>
              \E b \in DOMAIN inputs : BoundaryAlias(p.graph, v, inputs) = <<b>> /\ b = StorageRoot(p.graph, v)
<1>1. GraphSound(p.graph)
  BY PlanIs
<1>2. PICK known \in SUBSET p.graph.values : known = DOMAIN inputs
  BY PlanIs DEF InputsFit
<1>3. BoundaryAlias(p.graph, v, inputs) = Nearest(p.graph, v, known)
  BY <1>2 DEF BoundaryAlias
<1>4. \E j \in DOMAIN Ancestry(p.graph, v) : StorageRoot(p.graph, v) = Ancestry(p.graph, v)[j]
  BY <1>1, AncestryIs
<1>5. Nearest(p.graph, v, known) = <<>> =>
        \A j \in DOMAIN Ancestry(p.graph, v) : Ancestry(p.graph, v)[j] \notin known
  BY <1>1, NearestIs
<1>6. Nearest(p.graph, v, known) # <<>> =>
        \E b \in known : Nearest(p.graph, v, known) = <<b>> /\ StorageRoot(p.graph, b) = StorageRoot(p.graph, v)
  BY <1>1, NearestIs
<1>7. \A b \in known : StorageRoot(p.graph, b) = b
  BY <1>2, PlanIs DEF InputsFit
<1>8. CASE Nearest(p.graph, v, known) = <<>>
  BY <1>2, <1>3, <1>4, <1>5, <1>8
<1>9. CASE Nearest(p.graph, v, known) # <<>>
  <2>1. PICK b \in known : Nearest(p.graph, v, known) = <<b>> /\ StorageRoot(p.graph, b) = StorageRoot(p.graph, v)
    BY <1>6, <1>9
  <2>2. b = StorageRoot(p.graph, v)
    BY <1>7, <2>1
  <2>3. QED
    BY <1>2, <1>3, <1>9, <2>1, <2>2
<1>10. QED
  BY <1>8, <1>9

-----------------------------------------------------------------------------
(* Values of the first k bindings. *)
BoundBefore(p, k) == {p.bindings[j].value : j \in 1 .. k}

(* A binding finds the tensor its value is meant to be in, and allocates   *)
(* only outputs that are views of nothing.                                 *)
LEMMA TensorRight ==
  ASSUME NEW p, PlanSound(p), NEW inputs, InputsFit(p, inputs), NEW turn,
         NEW i \in DOMAIN p.bindings, NEW values, DOMAIN values = BoundBefore(p, i - 1),
         \A v \in DOMAIN values : Pointer(values[v]) = Meant(p, v, inputs, turn)
  PROVE  LET v == p.bindings[i].value
         IN  /\ Pointer(TensorOf(p.graph, inputs, turn, values, p.bindings[i])) = Meant(p, v, inputs, turn)
             /\ IsAllocated(p.graph, inputs, values, p.bindings[i]) =>
                  /\ StorageRoot(p.graph, v) = v /\ v \notin DOMAIN inputs
                  /\ Binding(v, "workspace") \notin ToSet(p.bindings)
<1>1. PICK g : g = p.graph
  OBVIOUS
<1>2. PICK v, kind, store :
        /\ v = p.bindings[i].value /\ kind = p.bindings[i].kind /\ store = StorageRoot(g, v)
  OBVIOUS
<1>3. /\ GraphSound(g) /\ v \in g.values /\ kind \in Kinds
      /\ p.bindings[i] = Binding(v, kind) /\ BindingSound(p, i)
  BY <1>1, <1>2, PlanIs
<1>4. /\ Len(p.bindings) \in Nat /\ DOMAIN p.bindings = 1 .. Len(p.bindings) /\ i \in 1 .. Len(p.bindings)
      /\ \A j \in 1 .. Len(p.bindings) : p.bindings[j].value \in g.values
  BY <1>1, PlanIs
<1>5. PICK known \in SUBSET g.values : known = DOMAIN values /\ known = BoundBefore(p, i - 1)
  <2>1. \A j \in 1 .. i - 1 : j \in 1 .. Len(p.bindings)
    BY <1>4
  <2>2. BoundBefore(p, i - 1) \subseteq g.values
    BY <1>4, <2>1 DEF BoundBefore
  <2>3. QED
    BY <2>2
<1>6. PICK t : t = OwnerTensor(p, store, inputs, turn)
  OBVIOUS
<1>7. /\ store \in g.values /\ StorageRoot(g, store) = store
      /\ t.start \in Int /\ g.offset[v] \in Int /\ g.offset[store] \in Int
      /\ Meant(p, v, inputs, turn) = <<t.storage, t.start + g.offset[v] - g.offset[store]>>
  <2>1. v \in p.graph.values
    BY <1>1, <1>3
  <2>2. LET o == StorageRoot(p.graph, v)
            u == OwnerTensor(p, o, inputs, turn)
        IN  /\ o \in p.graph.values /\ StorageRoot(p.graph, o) = o
            /\ u.start \in Int /\ p.graph.offset[v] \in Int /\ p.graph.offset[o] \in Int
            /\ Meant(p, v, inputs, turn) = <<u.storage, u.start + p.graph.offset[v] - p.graph.offset[o]>>
    BY <2>1, MeantIs
  <2>3. QED
    BY <1>1, <1>2, <1>6, <2>2
<1> DEFINE internal == InternalAlias(g, v, known)
           boundary == BoundaryAlias(g, v, inputs)
<1>8. /\ internal = <<>> => store \notin known \ {v}
      /\ internal # <<>> => \E b \in known : internal = <<b>> /\ StorageRoot(g, b) = store
  <2>1. GraphSound(g) /\ v \in g.values /\ known \in SUBSET g.values
    BY <1>2, <1>3, <1>5
  <2> HIDE DEF internal
  <2>2. /\ InternalAlias(g, v, known) = <<>> => StorageRoot(g, v) \notin known \ {v}
        /\ InternalAlias(g, v, known) # <<>> =>
             \E b \in known : /\ InternalAlias(g, v, known) = <<b>>
                              /\ StorageRoot(g, b) = StorageRoot(g, v)
    BY <2>1, InternalIs
  <2>3. QED
    BY <1>2, <2>2 DEF internal
<1>9. /\ boundary = <<>> => store \notin DOMAIN inputs
      /\ boundary # <<>> => \E b \in DOMAIN inputs : boundary = <<b>> /\ b = store
  BY <1>1, <1>2, <1>3, BoundaryIs
<1>10. TensorOf(g, inputs, turn, values, p.bindings[i]) =
         CASE kind = "workspace" -> WorkspaceTensor(g, v)
           [] kind \in {"input", "parameter", "state"} -> inputs[v]
           [] kind \in {"alias", "output"} /\ internal # <<>> -> View(g, v, internal[1], values[internal[1]])
           [] kind \in {"alias", "output"} /\ internal = <<>> /\ boundary # <<>> ->
                View(g, v, boundary[1], inputs[boundary[1]])
           [] OTHER -> Allocated(v, turn)
  BY <1>2, <1>5, Zenon DEF TensorOf
<1>11. IsAllocated(g, inputs, values, p.bindings[i]) => kind = "output" /\ internal = <<>> /\ boundary = <<>>
  BY <1>2, <1>5 DEF IsAllocated
<1> HIDE DEF internal, boundary
<1>12. CASE kind = "workspace"
  <2>1. TensorOf(g, inputs, turn, values, p.bindings[i]) = WorkspaceTensor(g, v)
    BY <1>10, <1>12
  <2>2. /\ Binding(store, "workspace") \in ToSet(p.bindings) /\ store \notin DOMAIN inputs
        /\ g.place[v] = g.place[store] + g.offset[v] - g.offset[store]
    BY <1>1, <1>2, <1>3, <1>12 DEF BindingSound, InputsFit
  <2>3. t = WorkspaceTensor(g, store)
    BY <1>1, <1>6, <2>2 DEF OwnerTensor
  <2>4. Pointer(WorkspaceTensor(g, v)) = <<t.storage, g.place[v]>> /\ t.start = g.place[store]
    BY <2>3 DEF Pointer, WorkspaceTensor
  <2>5. kind # "output"
    BY <1>12
  <2>6. QED
    BY <1>1, <1>2, <1>7, <1>11, <2>1, <2>2, <2>4, <2>5
<1>13. CASE kind \in {"input", "parameter", "state"}
  <2>1. TensorOf(g, inputs, turn, values, p.bindings[i]) = inputs[v]
    BY <1>10, <1>13
  <2>2. v \in DOMAIN inputs
    BY <1>2, <1>3, <1>13 DEF BindingSound, InputsFit
  <2>3. store = v
    BY <1>1, <1>2, <2>2, PlanIs DEF InputsFit
  <2>4. t = inputs[v]
    BY <1>6, <2>2, <2>3 DEF OwnerTensor
  <2>5. Pointer(inputs[v]) = <<t.storage, t.start + g.offset[v] - g.offset[store]>>
    BY <1>7, <2>3, <2>4 DEF Pointer
  <2>6. kind # "output"
    BY <1>13
  <2>7. QED
    BY <1>1, <1>2, <1>7, <1>11, <2>1, <2>5, <2>6
<1>14. CASE kind \in {"alias", "output"} /\ internal # <<>>
  <2>1. TensorOf(g, inputs, turn, values, p.bindings[i]) = View(g, v, internal[1], values[internal[1]])
    BY <1>10, <1>14
  <2>2. PICK b \in known : internal = <<b>> /\ StorageRoot(g, b) = store
    BY <1>8, <1>14
  <2>3. b \in g.values /\ Pointer(values[b]) = Meant(p, b, inputs, turn)
    BY <1>5, <2>2
  <2>4. /\ g.offset[b] \in Int
        /\ Meant(p, b, inputs, turn) = <<t.storage, t.start + g.offset[b] - g.offset[store]>>
    BY <1>1, <1>6, <2>2, <2>3, MeantIs
  <2>5. values[b].storage = t.storage /\ values[b].start = t.start + g.offset[b] - g.offset[store]
    BY <2>3, <2>4 DEF Pointer
  <2>6. Pointer(View(g, v, b, values[b])) = <<values[b].storage, values[b].start + g.offset[v] - g.offset[b]>>
    BY DEF Pointer, View
  <2>7. values[b].start + g.offset[v] - g.offset[b] = t.start + g.offset[v] - g.offset[store]
    BY <1>7, <2>4, <2>5
  <2>8. internal[1] = b
    BY <2>2
  <2>9. QED
    BY <1>1, <1>2, <1>7, <1>11, <1>14, <2>1, <2>5, <2>6, <2>7, <2>8
<1>15. CASE kind \in {"alias", "output"} /\ internal = <<>> /\ boundary # <<>>
  <2>1. TensorOf(g, inputs, turn, values, p.bindings[i]) = View(g, v, boundary[1], inputs[boundary[1]])
    BY <1>10, <1>15
  <2>2. store \in DOMAIN inputs /\ boundary[1] = store
    BY <1>9, <1>15
  <2>3. t = inputs[store]
    BY <1>6, <2>2 DEF OwnerTensor
  <2>4. Pointer(View(g, v, store, inputs[store])) = <<t.storage, t.start + g.offset[v] - g.offset[store]>>
    BY <2>3 DEF Pointer, View
  <2>5. QED
    BY <1>1, <1>2, <1>7, <1>11, <1>15, <2>1, <2>2, <2>4
<1>16. CASE kind \in {"alias", "output"} /\ internal = <<>> /\ boundary = <<>>
  <2>1. TensorOf(g, inputs, turn, values, p.bindings[i]) = Allocated(v, turn)
    BY <1>10, <1>16
  <2>2. store \notin DOMAIN inputs /\ store \notin known \ {v}
    BY <1>8, <1>9, <1>16
  <2>3. /\ Binding(v, "workspace") \notin ToSet(p.bindings)
        /\ \/ store \in ToSet(p.graph.inputs)
           \/ store # v /\ \E j \in 1 .. i - 1 : p.bindings[j].value = store
           \/ store = v /\ kind = "output"
    BY <1>1, <1>2, <1>3, <1>16 DEF BindingSound
  <2>4. store = v
    BY <1>5, <2>2, <2>3 DEF BoundBefore, InputsFit
  <2>5. t = Allocated(v, turn)
    BY <1>6, <2>2, <2>3, <2>4 DEF OwnerTensor
  <2>6. Pointer(t) = <<t.storage, t.start + g.offset[v] - g.offset[store]>>
    BY <1>7, <2>4 DEF Pointer
  <2>7. QED
    BY <1>1, <1>2, <1>7, <2>1, <2>2, <2>3, <2>4, <2>5, <2>6
<1>17. QED
  BY <1>3, <1>12, <1>13, <1>14, <1>15, <1>16 DEF Kinds

(* What is bound after k bindings is where it is meant to be.              *)
Placed(p, inputs, turn, k, state) ==
  /\ DOMAIN state.values = BoundBefore(p, k)
  /\ \A v \in DOMAIN state.values : Pointer(state.values[v]) = Meant(p, v, inputs, turn)
  /\ state.allocated \subseteq DOMAIN state.values
  /\ \A v \in state.allocated : /\ StorageRoot(p.graph, v) = v /\ v \notin DOMAIN inputs
                                /\ Binding(v, "workspace") \notin ToSet(p.bindings)

(* One binding more ...                                                    *)
LEMMA BindStep ==
  ASSUME NEW p, PlanSound(p), NEW inputs, InputsFit(p, inputs), NEW turn,
         NEW i \in DOMAIN p.bindings, NEW state, Placed(p, inputs, turn, i - 1, state)
  PROVE  Placed(p, inputs, turn, i, Bind(p.graph, inputs, turn, state, p.bindings[i]))
<1>1. PICK v : v = p.bindings[i].value
  OBVIOUS
<1>2. PICK values : values = state.values /\ DOMAIN values = BoundBefore(p, i - 1)
  BY DEF Placed
<1>3. PICK t : t = TensorOf(p.graph, inputs, turn, values, p.bindings[i])
  OBVIOUS
<1>4. /\ Pointer(t) = Meant(p, v, inputs, turn)
      /\ IsAllocated(p.graph, inputs, values, p.bindings[i]) =>
           /\ StorageRoot(p.graph, v) = v /\ v \notin DOMAIN inputs
           /\ Binding(v, "workspace") \notin ToSet(p.bindings)
  BY <1>1, <1>2, <1>3, TensorRight DEF Placed
<1>5. PICK next : next = Bind(p.graph, inputs, turn, state, p.bindings[i])
  OBVIOUS
<1>6. next.values = Over([x \in {v} |-> t], values)
  BY <1>1, <1>2, <1>3, <1>5 DEF Bind
<1>7. next.allocated = state.allocated \cup
        (IF IsAllocated(p.graph, inputs, values, p.bindings[i]) THEN {v} ELSE {})
  BY <1>1, <1>2, <1>5 DEF Bind
<1>8. /\ DOMAIN next.values = {v} \cup DOMAIN values
      /\ next.values[v] = t /\ \A x \in DOMAIN values : x # v => next.values[x] = values[x]
  BY <1>6 DEF Over
<1>9. BoundBefore(p, i) = {v} \cup BoundBefore(p, i - 1)
  <2>1. i \in Nat \ {0}
    BY PlanIs
  <2>2. 1 .. i = {i} \cup 1 .. i - 1
    BY <2>1
  <2>3. QED
    BY <1>1, <2>2 DEF BoundBefore
<1>10. DOMAIN next.values = BoundBefore(p, i)
  BY <1>2, <1>8, <1>9
<1>11. \A x \in DOMAIN next.values : Pointer(next.values[x]) = Meant(p, x, inputs, turn)
  BY <1>2, <1>4, <1>8 DEF Placed
<1>12. \A x \in next.allocated : x \in state.allocated \/ (x = v /\ IsAllocated(p.graph, inputs, values, p.bindings[i]))
  BY <1>7
<1>13. next.allocated \subseteq DOMAIN next.values
  BY <1>2, <1>8, <1>12 DEF Placed
<1>14. \A x \in next.allocated : /\ StorageRoot(p.graph, x) = x /\ x \notin DOMAIN inputs
                                 /\ Binding(x, "workspace") \notin ToSet(p.bindings)
  BY <1>4, <1>12 DEF Placed
<1>15. QED
  BY <1>5, <1>10, <1>11, <1>13, <1>14 DEF Placed

(* ... and so all of them.                                                 *)
LEMMA FullyPlaced ==
  ASSUME NEW p, PlanSound(p), NEW inputs, InputsFit(p, inputs), NEW turn
  PROVE  Placed(p, inputs, turn, Len(p.bindings), RefreshValues(p.graph, p.bindings, inputs, turn))
<1>1. PICK N \in Nat : N = Len(p.bindings) /\ DOMAIN p.bindings = 1 .. N
  BY PlanIs
<1>2. PICK f : f = Refreshed(p.graph, p.bindings, inputs, turn)
  OBVIOUS
<1>3. f[0] = NothingBound /\ \A k \in 1 .. N : f[k] = Bind(p.graph, inputs, turn, f[k - 1], p.bindings[k])
  BY <1>1, <1>2, RefreshedIs
<1> DEFINE S == {k \in 0 .. N : ~ Placed(p, inputs, turn, k, f[k])}
<1>4. S = {}
  <2>1. SUFFICES ASSUME S # {} PROVE FALSE
    OBVIOUS
  <2>2. S \in SUBSET Nat
    OBVIOUS
  <2>3. Min(S) \in S /\ \A k \in S : Min(S) <= k
    <3> HIDE DEF S
    <3>1. QED
      BY <2>1, <2>2, LeastNumber
  <2>4. PICK m \in 0 .. N : ~ Placed(p, inputs, turn, m, f[m]) /\ \A k \in S : m <= k
    BY <2>3
  <2>5. Placed(p, inputs, turn, 0, f[0])
    <3>1. BoundBefore(p, 0) = {}
      BY DEF BoundBefore
    <3>2. DOMAIN f[0].values = {} /\ f[0].allocated = {}
      BY <1>3 DEF NothingBound
    <3>3. QED
      BY <3>1, <3>2 DEF Placed
  <2>6. m # 0
    BY <2>4, <2>5
  <2>7. m - 1 \in 0 .. N /\ m \in 1 .. N /\ ~ (m <= m - 1)
    BY <2>6
  <2>8. Placed(p, inputs, turn, m - 1, f[m - 1])
    BY <2>4, <2>7
  <2>9. Placed(p, inputs, turn, m, Bind(p.graph, inputs, turn, f[m - 1], p.bindings[m]))
    BY <1>1, <2>7, <2>8, BindStep
  <2>10. QED
    BY <1>3, <2>4, <2>7, <2>9
<1>5. Placed(p, inputs, turn, N, f[N])
  BY <1>4
<1>6. QED
  BY <1>1, <1>2, <1>5 DEF RefreshValues

-----------------------------------------------------------------------------
(* Binding from roots. *)

(* The pointer a root has in a call. *)
Base(allocated, r, inputs, turn) ==
  IF r = "workspace" THEN <<<<"workspace", 0>>, 0>>
  ELSE IF r \in allocated THEN Pointer(Allocated(r, turn)) ELSE Pointer(inputs[r])

(* A slot's root and distance give its address in every call. *)
SlotRight(p, allocated, v, slot) ==
  /\ slot.root \in ToSet(p.graph.inputs) \cup allocated \cup {"workspace"}
  /\ \A inputs, turn : InputsFit(p, inputs) =>
       Meant(p, v, inputs, turn) = << Base(allocated, slot.root, inputs, turn)[1],
                                      Base(allocated, slot.root, inputs, turn)[2] + slot.distance >>

(* What a later call may go by. *)
Rooted(p, known) ==
  /\ known.allocated \subseteq p.graph.values /\ known.allocated \cap ToSet(p.graph.inputs) = {}
  /\ DOMAIN known.pointers = ToSet(p.graph.inputs) \cup known.allocated \cup {"workspace"}
  /\ \A v \in ToSet(p.graph.inputs) : known.pointers[v] = Pointer(known.inputs[v])
  /\ known.pointers["workspace"] = <<<<"workspace", 0>>, 0>>
  /\ DOMAIN known.slots = DOMAIN p.bindings
  /\ \A i \in DOMAIN p.bindings : SlotRight(p, known.allocated, p.bindings[i].value, known.slots[i])

(* Every slot's address is that of its value in the call it was bound for. *)
Addressed(p, known) ==
  /\ DOMAIN known.addresses = DOMAIN p.bindings
  /\ \A i \in DOMAIN p.bindings :
       known.addresses[i] = Meant(p, p.bindings[i].value, known.inputs, known.call)

BoundRight(p, known) ==
  /\ known.inputs \in Arguments
  /\ Addressed(p, known)
  /\ known.traced => Rooted(p, known)

(* Not every plan is: one whose graph lists an output before the one it is *)
(* a view of makes the two apart.                                          *)
SoundPlans == \A g \in Models : PlanSound(MakePlan(g))

(* A plan the runtime state may have, and the inputs of its calls. *)
PlanFits(p) == PlanSound(p) /\ \A inputs \in Arguments : InputsFit(p, inputs)

(* The plans of the model fit its arguments.                               *)
LEMMA PlansFit ==
  ASSUME SoundPlans, NEW p \in {MakePlan(g) : g \in Models}
  PROVE  PlanFits(p)
<1>1. PICK g \in Models : p = MakePlan(g)
  OBVIOUS
<1>2. p.graph = g
  BY <1>1 DEF MakePlan
<1>3. QED
  BY <1>1, <1>2, ArgumentsAssumption DEF SoundPlans, PlanFits, InputsFit

(* A value of the workspace is at the same place in every call. *)
Fixed(p, v) ==
  <<<<"workspace", 0>>, p.graph.place[StorageRoot(p.graph, v)] + p.graph.offset[v]
                          - p.graph.offset[StorageRoot(p.graph, v)]>>

InWorkspace(p, v) == \E i \in DOMAIN p.bindings : p.bindings[i] = Binding(v, "workspace")

(* So is a view of one.                                                    *)
LEMMA WorkspaceFixed ==
  ASSUME NEW p, PlanSound(p), NEW v \in p.graph.values,
         InWorkspace(p, v) \/ InWorkspace(p, StorageRoot(p.graph, v)),
         NEW inputs, InputsFit(p, inputs), NEW turn
  PROVE  Meant(p, v, inputs, turn) = Fixed(p, v) /\ Fixed(p, v)[2] \in Int
<1>1. PICK g : g = p.graph
  OBVIOUS
<1>2. PICK o : o = StorageRoot(g, v)
  OBVIOUS
<1>3. GraphSound(g) /\ o \in g.values /\ StorageRoot(g, o) = o
  BY <1>1, <1>2, PlanIs, AncestryIs
<1>4. /\ g.offset[v] \in Int /\ g.offset[o] \in Int /\ g.place[o] \in Int
  BY <1>1, <1>3 DEF GraphSound
<1>5. Binding(o, "workspace") \in ToSet(p.bindings) /\ o \notin DOMAIN inputs
  <2>1. PICK x \in {v, o} : InWorkspace(p, x)
    BY <1>1, <1>2
  <2>2. PICK i \in DOMAIN p.bindings : p.bindings[i] = Binding(x, "workspace")
    BY <2>1 DEF InWorkspace
  <2>3. p.bindings[i].value = x /\ p.bindings[i].kind = "workspace"
    BY <2>2 DEF Binding
  <2>4. StorageRoot(g, x) = o
    BY <1>2, <1>3
  <2>5. BindingSound(p, i)
    BY PlanIs
  <2>6. QED
    BY <1>1, <2>3, <2>4, <2>5 DEF BindingSound, InputsFit
<1>6. OwnerTensor(p, o, inputs, turn) = WorkspaceTensor(g, o)
  BY <1>1, <1>5 DEF OwnerTensor
<1>7. Meant(p, v, inputs, turn) = <<<<"workspace", 0>>, g.place[o] + g.offset[v] - g.offset[o]>>
  BY <1>1, <1>2, <1>6 DEF Meant, WorkspaceTensor
<1>8. QED
  BY <1>1, <1>2, <1>4, <1>7 DEF Fixed

(* A value's address is at the same distance from that of the value its    *)
(* views go back to.                                                       *)
LEMMA OwnerApart ==
  ASSUME NEW p, PlanSound(p), NEW v \in p.graph.values, NEW inputs, InputsFit(p, inputs), NEW turn
  PROVE  LET o == StorageRoot(p.graph, v)
         IN  /\ o \in p.graph.values
             /\ p.graph.offset[v] \in Int /\ p.graph.offset[o] \in Int
             /\ Meant(p, o, inputs, turn)[2] \in Int
             /\ Meant(p, o, inputs, turn) = Pointer(OwnerTensor(p, o, inputs, turn))
             /\ Meant(p, v, inputs, turn) =
                  <<Meant(p, o, inputs, turn)[1],
                    Meant(p, o, inputs, turn)[2] + p.graph.offset[v] - p.graph.offset[o]>>
<1>1. PICK o : o = StorageRoot(p.graph, v)
  OBVIOUS
<1>2. PICK t : t = OwnerTensor(p, o, inputs, turn)
  OBVIOUS
<1>3. /\ o \in p.graph.values /\ StorageRoot(p.graph, o) = o
      /\ t.start \in Int /\ p.graph.offset[v] \in Int /\ p.graph.offset[o] \in Int
      /\ Meant(p, v, inputs, turn) = <<t.storage, t.start + p.graph.offset[v] - p.graph.offset[o]>>
  BY <1>1, <1>2, MeantIs
<1>4. Meant(p, o, inputs, turn) = <<t.storage, t.start + p.graph.offset[o] - p.graph.offset[o]>>
  BY <1>2, <1>3, MeantIs
<1>5. Meant(p, o, inputs, turn) = <<t.storage, t.start>>
  BY <1>3, <1>4
<1>6. QED
  BY <1>1, <1>2, <1>3, <1>5 DEF Pointer

(* The values _prepare_table_rebind takes for workspace ones are.          *)
LEMMA WorkspaceValues ==
  ASSUME NEW p, PlanSound(p), NEW x \in {b.value : b \in {c \in ToSet(p.bindings) : c.kind = "workspace"}}
  PROVE  InWorkspace(p, x)
<1>1. PICK c \in ToSet(p.bindings) : c.kind = "workspace" /\ x = c.value
  OBVIOUS
<1>2. PICK i \in DOMAIN p.bindings : c = p.bindings[i]
  BY <1>1 DEF ToSet
<1>3. p.bindings[i] = Binding(x, "workspace")
  BY <1>1, <1>2, PlanIs
<1>4. QED
  BY <1>3 DEF InWorkspace

(* A root is the workspace, or the value that a value's views go back to.  *)
LEMMA RootIs ==
  ASSUME NEW p, PlanSound(p), NEW inputs, InputsFit(p, inputs), NEW turn,
         NEW state, Placed(p, inputs, turn, Len(p.bindings), state),
         NEW v \in p.graph.values, Root(p.graph, p.bindings, state, v) # <<>>
  PROVE  \/ /\ Root(p.graph, p.bindings, state, v)[1] = "workspace"
            /\ InWorkspace(p, v) \/ InWorkspace(p, StorageRoot(p.graph, v))
         \/ /\ Root(p.graph, p.bindings, state, v)[1] = StorageRoot(p.graph, v)
            /\ StorageRoot(p.graph, v) \in ToSet(p.graph.inputs) \cup state.allocated
<1>1. PICK o : o = StorageRoot(p.graph, v)
  OBVIOUS
<1>2. PICK W : W = {b.value : b \in {c \in ToSet(p.bindings) : c.kind = "workspace"}}
  OBVIOUS
<1>3. PICK index : index = ToSet(p.graph.inputs) \cup state.allocated
  OBVIOUS
<1>4. PICK root : root = Root(p.graph, p.bindings, state, v)
  OBVIOUS
<1>5. root = CASE {v, o} \cap W # {} -> <<"workspace">>
               [] {v, o} \cap W = {} /\ v \in index -> <<v>>
               [] {v, o} \cap W = {} /\ v \notin index /\ o \in index -> <<o>>
               [] OTHER -> <<>>
  BY <1>1, <1>2, <1>3, <1>4 DEF Root
<1>6. CASE {v, o} \cap W # {}
  <2>1. root = <<"workspace">>
    BY <1>5, <1>6
  <2>2. InWorkspace(p, v) \/ InWorkspace(p, o)
    BY <1>2, <1>6, WorkspaceValues
  <2>3. QED
    BY <1>1, <1>4, <2>1, <2>2
<1>7. CASE {v, o} \cap W = {} /\ v \in index
  <2>1. root = <<v>>
    BY <1>5, <1>7
  <2>2. o = v
    <3>1. CASE v \in ToSet(p.graph.inputs)
      BY <1>1, <3>1, PlanIs
    <3>2. CASE v \in state.allocated
      BY <1>1, <3>2 DEF Placed
    <3>3. QED
      BY <1>3, <1>7, <3>1, <3>2
  <2>3. QED
    BY <1>1, <1>3, <1>4, <1>7, <2>1, <2>2
<1>8. CASE {v, o} \cap W = {} /\ v \notin index
  <2>1. o \in index /\ root = <<o>>
    BY <1>4, <1>5, <1>8
  <2>2. QED
    BY <1>1, <1>3, <1>4, <2>1
<1>9. QED
  BY <1>6, <1>7, <1>8

(* The values a plan binds.                                                *)
LEMMA BoundValues ==
  ASSUME NEW p, PlanSound(p)
  PROVE  /\ BoundBefore(p, Len(p.bindings)) = {b.value : b \in ToSet(p.bindings)}
         /\ BoundBefore(p, Len(p.bindings)) \subseteq p.graph.values
         /\ \A i \in DOMAIN p.bindings : p.bindings[i].value \in BoundBefore(p, Len(p.bindings))
         /\ ToSet(p.graph.inputs) \subseteq BoundBefore(p, Len(p.bindings))
<1>1. DOMAIN p.bindings = 1 .. Len(p.bindings)
  BY PlanIs
<1>2. BoundBefore(p, Len(p.bindings)) = {p.bindings[i].value : i \in DOMAIN p.bindings}
  BY <1>1 DEF BoundBefore
<1>3. \A i \in DOMAIN p.bindings : p.bindings[i].value \in p.graph.values
  BY PlanIs
<1>4. \A v \in ToSet(p.graph.inputs) : \E i \in DOMAIN p.bindings : p.bindings[i].value = v
  BY PlanIs
<1>5. {p.bindings[i].value : i \in DOMAIN p.bindings} = {b.value : b \in ToSet(p.bindings)}
  BY DEF ToSet
<1>6. QED
  BY <1>2, <1>3, <1>4, <1>5

(* The root and the distance that a full binding finds for a value are     *)
(* right for every later call.                                             *)
LEMMA TracedRight ==
  ASSUME NEW p, PlanSound(p), NEW inputs, InputsFit(p, inputs), NEW turn,
         NEW state, Placed(p, inputs, turn, Len(p.bindings), state),
         NEW v \in BoundBefore(p, Len(p.bindings)), Root(p.graph, p.bindings, state, v) # <<>>,
         NEW slot, slot.root = Root(p.graph, p.bindings, state, v)[1],
         slot.distance = state.values[v].start - RootPointer(state, slot.root)[2]
  PROVE  SlotRight(p, state.allocated, v, slot)
<1>1. /\ DOMAIN state.values = BoundBefore(p, Len(p.bindings))
      /\ \A x \in DOMAIN state.values : Pointer(state.values[x]) = Meant(p, x, inputs, turn)
      /\ state.allocated \subseteq DOMAIN state.values
      /\ \A x \in state.allocated : /\ StorageRoot(p.graph, x) = x /\ x \notin DOMAIN inputs
                                    /\ Binding(x, "workspace") \notin ToSet(p.bindings)
  BY DEF Placed
<1>2. v \in p.graph.values /\ v \in DOMAIN state.values
  BY <1>1, BoundValues
<1>3. Pointer(state.values[v]) = Meant(p, v, inputs, turn)
  BY <1>1, <1>2
<1>4. "workspace" \notin p.graph.values
  BY DEF PlanSound, GraphSound
<1>5. PICK o : o = StorageRoot(p.graph, v)
  OBVIOUS
<1>6. CASE slot.root = "workspace" /\ (InWorkspace(p, v) \/ InWorkspace(p, o))
  <2>1. \A other, again : InputsFit(p, other) => Meant(p, v, other, again) = Fixed(p, v) /\ Fixed(p, v)[2] \in Int
    BY <1>2, <1>5, <1>6, WorkspaceFixed
  <2>2. slot.distance = state.values[v].start - 0
    BY <1>6 DEF RootPointer
  <2>3. state.values[v].start = Fixed(p, v)[2] /\ Fixed(p, v)[2] \in Int
    BY <1>3, <2>1 DEF Pointer
  <2>4. \A other, again : Base(state.allocated, slot.root, other, again) = <<<<"workspace", 0>>, 0>>
    BY <1>6 DEF Base
  <2>5. Fixed(p, v) = <<<<"workspace", 0>>, 0 + slot.distance>>
    BY <2>2, <2>3 DEF Fixed
  <2>6. \A other, again : InputsFit(p, other) =>
           Meant(p, v, other, again) = << Base(state.allocated, slot.root, other, again)[1],
                                          Base(state.allocated, slot.root, other, again)[2] + slot.distance >>
    BY <2>1, <2>4, <2>5
  <2>7. slot.root \in ToSet(p.graph.inputs) \cup state.allocated \cup {"workspace"}
    BY <1>6
  <2>8. QED
    BY <2>6, <2>7 DEF SlotRight
<1>7. CASE slot.root = o /\ o \in ToSet(p.graph.inputs) \cup state.allocated
  <2>1. o \in DOMAIN state.values /\ o \in p.graph.values /\ o # "workspace"
    BY <1>1, <1>4, <1>7, BoundValues
  <2>2. PICK d : d = p.graph.offset[v] - p.graph.offset[o]
    OBVIOUS
  <2>3. ASSUME NEW other, InputsFit(p, other), NEW again
        PROVE  /\ Meant(p, o, other, again) = Base(state.allocated, o, other, again)
               /\ Meant(p, o, other, again)[2] \in Int /\ d \in Int
               /\ Meant(p, v, other, again) = <<Meant(p, o, other, again)[1], Meant(p, o, other, again)[2] + d>>
    <3>1. PICK t : t = OwnerTensor(p, o, other, again)
      OBVIOUS
    <3>2. /\ p.graph.offset[v] \in Int /\ p.graph.offset[o] \in Int
          /\ Meant(p, o, other, again)[2] \in Int
          /\ Meant(p, o, other, again) = Pointer(t)
          /\ Meant(p, v, other, again) =
               <<Meant(p, o, other, again)[1],
                 Meant(p, o, other, again)[2] + p.graph.offset[v] - p.graph.offset[o]>>
      BY <1>2, <1>5, <2>3, <3>1, OwnerApart
    <3>3. Meant(p, o, other, again)[2] + p.graph.offset[v] - p.graph.offset[o]
            = Meant(p, o, other, again)[2] + d /\ d \in Int
      BY <2>2, <3>2
    <3>4. CASE o \in state.allocated
      <4>1. o \notin DOMAIN other /\ Binding(o, "workspace") \notin ToSet(p.bindings)
        BY <1>1, <2>3, <3>4 DEF InputsFit
      <4>2. t = Allocated(o, again)
        BY <3>1, <4>1 DEF OwnerTensor
      <4>3. Base(state.allocated, o, other, again) = Pointer(t)
        BY <2>1, <3>4, <4>2 DEF Base
      <4>4. QED
        BY <3>2, <3>3, <4>3
    <3>5. CASE o \notin state.allocated
      <4>1. o \in DOMAIN other
        BY <1>7, <2>3, <3>5 DEF InputsFit
      <4>2. t = other[o]
        BY <3>1, <4>1 DEF OwnerTensor
      <4>3. Base(state.allocated, o, other, again) = Pointer(t)
        BY <2>1, <3>5, <4>2 DEF Base
      <4>4. QED
        BY <3>2, <3>3, <4>3
    <3>6. QED
      BY <3>4, <3>5
  <2>4. RootPointer(state, slot.root) = Meant(p, o, inputs, turn)
    BY <1>1, <1>7, <2>1 DEF RootPointer
  <2>5. state.values[v].start = Meant(p, o, inputs, turn)[2] + d
    BY <1>3, <2>3 DEF Pointer
  <2>6. slot.distance = d
    <3>1. Meant(p, o, inputs, turn)[2] \in Int /\ d \in Int
      BY <2>3
    <3>2. QED
      BY <2>4, <2>5, <3>1
  <2>7. \A other, again : InputsFit(p, other) =>
           Meant(p, v, other, again) = << Base(state.allocated, slot.root, other, again)[1],
                                          Base(state.allocated, slot.root, other, again)[2] + slot.distance >>
    BY <1>7, <2>3, <2>6
  <2>8. QED
    BY <1>7, <2>7 DEF SlotRight
<1>8. QED
  BY <1>2, <1>5, <1>6, <1>7, RootIs

-----------------------------------------------------------------------------
(* A full binding is right, and so is what it keeps for later calls.       *)
LEMMA FullRight ==
  ASSUME NEW p, PlanFits(p), NEW inputs \in Arguments, NEW turn
  PROVE  LET known == FullRebind(p.graph, p.bindings, inputs, turn)
         IN  BoundRight(p, known) /\ known.inputs = inputs /\ known.call = turn
<1>1. PlanSound(p) /\ InputsFit(p, inputs)
  BY DEF PlanFits
<1>2. PICK state : state = RefreshValues(p.graph, p.bindings, inputs, turn)
  OBVIOUS
<1>3. Placed(p, inputs, turn, Len(p.bindings), state)
  BY <1>1, <1>2, FullyPlaced
<1>4. /\ DOMAIN state.values = BoundBefore(p, Len(p.bindings))
      /\ \A x \in DOMAIN state.values : Pointer(state.values[x]) = Meant(p, x, inputs, turn)
      /\ state.allocated \subseteq DOMAIN state.values
      /\ \A x \in state.allocated : x \notin DOMAIN inputs
  BY <1>3 DEF Placed
<1>5. PICK known : known = FullRebind(p.graph, p.bindings, inputs, turn)
  OBVIOUS
<1>6. PICK trc : trc = Traced(p.graph, p.bindings, state)
  OBVIOUS
<1>7. /\ known.inputs = inputs /\ known.call = turn /\ known.allocated = state.allocated
      /\ known.pointers = [root \in ToSet(p.graph.inputs) \cup state.allocated \cup {"workspace"} |->
                             RootPointer(state, root)]
      /\ known.addresses = [i \in DOMAIN p.bindings |-> Pointer(state.values[p.bindings[i].value])]
  BY <1>2, <1>5 DEF FullRebind
<1>8. known.traced = Traced(p.graph, p.bindings, state)
  BY <1>2, <1>5 DEF FullRebind
<1>9. Traced(p.graph, p.bindings, state) =>
        known.slots = [i \in DOMAIN p.bindings |->
          [root     |-> Root(p.graph, p.bindings, state, p.bindings[i].value)[1],
           distance |-> state.values[p.bindings[i].value].start
                          - RootPointer(state, Root(p.graph, p.bindings, state, p.bindings[i].value)[1])[2]]]
  BY <1>2, <1>5 DEF FullRebind
<1>10. Addressed(p, known)
  <2>1. DOMAIN known.addresses = DOMAIN p.bindings
    BY <1>7
  <2>2. ASSUME NEW i \in DOMAIN p.bindings
        PROVE  known.addresses[i] = Meant(p, p.bindings[i].value, inputs, turn)
    <3>1. p.bindings[i].value \in DOMAIN state.values
      BY <1>1, <1>4, BoundValues
    <3>2. QED
      BY <1>4, <1>7, <3>1
  <2>3. QED
    BY <1>7, <2>1, <2>2 DEF Addressed
<1>11. ASSUME Traced(p.graph, p.bindings, state)
       PROVE  Rooted(p, known)
  <2>1. state.allocated \subseteq p.graph.values /\ state.allocated \cap ToSet(p.graph.inputs) = {}
    BY <1>1, <1>4, BoundValues DEF InputsFit
  <2>2. "workspace" \notin p.graph.values /\ ToSet(p.graph.inputs) \subseteq p.graph.values
    BY <1>1 DEF PlanSound, GraphSound
  <2>3. DOMAIN known.pointers = ToSet(p.graph.inputs) \cup known.allocated \cup {"workspace"}
    BY <1>7
  <2>4. known.pointers["workspace"] = <<<<"workspace", 0>>, 0>>
    BY <1>7 DEF RootPointer
  <2>5. ASSUME NEW v \in ToSet(p.graph.inputs)
        PROVE  known.pointers[v] = Pointer(inputs[v])
    <3>1. v # "workspace" /\ v \in DOMAIN state.values /\ v \in p.graph.values /\ v \in DOMAIN inputs
      BY <1>1, <1>4, <2>2, BoundValues DEF InputsFit
    <3>2. known.pointers[v] = Meant(p, v, inputs, turn)
      BY <1>4, <1>7, <3>1 DEF RootPointer
    <3>3. StorageRoot(p.graph, v) = v
      BY <1>1, PlanIs
    <3>4. Meant(p, v, inputs, turn) = Pointer(OwnerTensor(p, v, inputs, turn))
      BY <1>1, <3>1, <3>3, OwnerApart
    <3>5. OwnerTensor(p, v, inputs, turn) = inputs[v]
      BY <3>1 DEF OwnerTensor
    <3>6. QED
      BY <3>2, <3>4, <3>5
  <2>6. DOMAIN known.slots = DOMAIN p.bindings
    BY <1>9, <1>11
  <2>7. ASSUME NEW i \in DOMAIN p.bindings
        PROVE  SlotRight(p, state.allocated, p.bindings[i].value, known.slots[i])
    <3>1. PICK v : v = p.bindings[i].value
      OBVIOUS
    <3>2. v \in BoundBefore(p, Len(p.bindings)) /\ v \in {b.value : b \in ToSet(p.bindings)}
      BY <1>1, <3>1, BoundValues
    <3>3. Root(p.graph, p.bindings, state, v) # <<>>
      BY <1>11, <3>2 DEF Traced
    <3>4. PICK slot : slot = known.slots[i]
      OBVIOUS
    <3>5. /\ slot.root = Root(p.graph, p.bindings, state, v)[1]
          /\ slot.distance = state.values[v].start - RootPointer(state, slot.root)[2]
      BY <1>9, <1>11, <3>1, <3>4
    <3>6. SlotRight(p, state.allocated, v, slot)
      BY <1>1, <1>3, <3>2, <3>3, <3>5, TracedRight
    <3>7. QED
      BY <3>1, <3>4, <3>6
  <2>8. QED
    BY <1>7, <2>1, <2>3, <2>4, <2>5, <2>6, <2>7 DEF Rooted
<1>12. BoundRight(p, known)
  BY <1>7, <1>8, <1>10, <1>11 DEF BoundRight
<1>13. QED
  BY <1>5, <1>7, <1>12

(* A binding from roots gives every slot its address in the new call.      *)
LEMMA FastRight ==
  ASSUME NEW p, PlanFits(p), NEW known, BoundRight(p, known), known.traced,
         NEW inputs \in Arguments, NEW turn
  PROVE  LET next == FastRebind(known, inputs, turn)
         IN  BoundRight(p, next) /\ next.inputs = inputs /\ next.call = turn
<1>1. PlanSound(p) /\ InputsFit(p, inputs) /\ known.inputs \in Arguments /\ InputsFit(p, known.inputs)
  BY DEF PlanFits, BoundRight
<1>2. /\ known.allocated \subseteq p.graph.values /\ known.allocated \cap ToSet(p.graph.inputs) = {}
      /\ DOMAIN known.pointers = ToSet(p.graph.inputs) \cup known.allocated \cup {"workspace"}
      /\ \A v \in ToSet(p.graph.inputs) : known.pointers[v] = Pointer(known.inputs[v])
      /\ known.pointers["workspace"] = <<<<"workspace", 0>>, 0>>
      /\ DOMAIN known.slots = DOMAIN p.bindings
      /\ \A i \in DOMAIN p.bindings : SlotRight(p, known.allocated, p.bindings[i].value, known.slots[i])
  BY DEF BoundRight, Rooted
<1>3. "workspace" \notin p.graph.values /\ ToSet(p.graph.inputs) \subseteq p.graph.values
  BY <1>1 DEF PlanSound, GraphSound
<1>4. PICK roots : roots = DOMAIN known.pointers
  OBVIOUS
<1>5. PICK read : read = Reread(known, inputs)
  OBVIOUS
<1>6. /\ DOMAIN read = roots
      /\ \A v \in ToSet(p.graph.inputs) : read[v] = Pointer(inputs[v])
      /\ read["workspace"] = <<<<"workspace", 0>>, 0>>
  <2>1. read = [root \in roots |->
                  IF root \in DOMAIN inputs /\ inputs[root].id # known.inputs[root].id
                    THEN Pointer(inputs[root]) ELSE known.pointers[root]]
    BY <1>4, <1>5 DEF Reread
  <2>2. DOMAIN inputs = ToSet(p.graph.inputs) /\ DOMAIN known.inputs = ToSet(p.graph.inputs)
    BY <1>1 DEF InputsFit
  <2>3. ASSUME NEW v \in ToSet(p.graph.inputs) PROVE read[v] = Pointer(inputs[v])
    <3>1. inputs[v].id = known.inputs[v].id => inputs[v] = known.inputs[v]
      BY <1>1, <2>2, ArgumentsAssumption
    <3>2. read[v] = IF inputs[v].id # known.inputs[v].id
                      THEN Pointer(inputs[v]) ELSE Pointer(known.inputs[v])
      BY <1>2, <1>4, <2>1, <2>2
    <3>3. QED
      BY <3>1, <3>2
  <2>4. "workspace" \in roots /\ "workspace" \notin DOMAIN inputs
    BY <1>2, <1>3, <1>4, <2>2
  <2>5. QED
    BY <1>2, <2>1, <2>3, <2>4
<1>7. PICK pointers : pointers = [root \in roots |->
         IF root \in known.allocated THEN Pointer(Allocated(root, turn)) ELSE read[root]]
  OBVIOUS
<1>8. PICK next : next = FastRebind(known, inputs, turn)
  OBVIOUS
<1>9. /\ next.inputs = inputs /\ next.call = turn /\ next.allocated = known.allocated
      /\ next.pointers = pointers /\ next.slots = known.slots
      /\ next.addresses = [i \in DOMAIN known.slots |->
           <<pointers[known.slots[i].root][1], pointers[known.slots[i].root][2] + known.slots[i].distance>>]
  <2>1. next.pointers = pointers
    BY <1>5, <1>6, <1>7, <1>8 DEF FastRebind
  <2>2. next.addresses = [i \in DOMAIN known.slots |->
          <<next.pointers[known.slots[i].root][1], next.pointers[known.slots[i].root][2] + known.slots[i].distance>>]
    BY <1>8 DEF FastRebind
  <2>3. QED
    BY <1>8, <2>1, <2>2 DEF FastRebind
<1>10. \A r \in roots : pointers[r] = Base(known.allocated, r, inputs, turn)
  BY <1>2, <1>3, <1>4, <1>6, <1>7 DEF Base
<1>11. Addressed(p, next)
  <2>1. ASSUME NEW i \in DOMAIN p.bindings
        PROVE  next.addresses[i] = Meant(p, p.bindings[i].value, inputs, turn)
    <3>1. PICK slot : slot = known.slots[i]
      OBVIOUS
    <3>2. SlotRight(p, known.allocated, p.bindings[i].value, slot)
      BY <1>2, <3>1
    <3>3. slot.root \in roots
      BY <1>2, <1>4, <3>2 DEF SlotRight
    <3>4. Meant(p, p.bindings[i].value, inputs, turn) =
            << Base(known.allocated, slot.root, inputs, turn)[1],
               Base(known.allocated, slot.root, inputs, turn)[2] + slot.distance >>
      BY <1>1, <3>2 DEF SlotRight
    <3>5. next.addresses[i] = <<pointers[slot.root][1], pointers[slot.root][2] + slot.distance>>
      <4>1. i \in DOMAIN known.slots
        BY <1>2
      <4>2. next.addresses[i] =
              <<pointers[known.slots[i].root][1], pointers[known.slots[i].root][2] + known.slots[i].distance>>
        <5>1. next.addresses = [j \in DOMAIN known.slots |->
                <<pointers[known.slots[j].root][1], pointers[known.slots[j].root][2] + known.slots[j].distance>>]
          BY <1>9
        <5>2. QED
          BY <4>1, <5>1, Zenon
      <4>3. QED
        BY <3>1, <4>2
    <3>6. QED
      BY <1>10, <3>3, <3>4, <3>5
  <2>2. DOMAIN next.addresses = DOMAIN p.bindings
    BY <1>2, <1>9
  <2>3. QED
    BY <1>9, <2>1, <2>2 DEF Addressed
<1>12. Rooted(p, next)
  <2>0. \A r \in roots : r \notin known.allocated => pointers[r] = read[r]
    BY <1>7
  <2>1. DOMAIN next.pointers = ToSet(p.graph.inputs) \cup known.allocated \cup {"workspace"}
    BY <1>2, <1>4, <1>7, <1>9
  <2>2. \A v \in ToSet(p.graph.inputs) : next.pointers[v] = Pointer(inputs[v])
    <3>1. \A v \in ToSet(p.graph.inputs) : v \in roots /\ v \notin known.allocated
      BY <1>2, <1>4
    <3>2. QED
      BY <1>6, <1>9, <2>0, <3>1
  <2>3. next.pointers["workspace"] = <<<<"workspace", 0>>, 0>>
    <3>1. "workspace" \in roots /\ "workspace" \notin known.allocated
      BY <1>2, <1>3, <1>4
    <3>2. QED
      BY <1>6, <1>9, <2>0, <3>1
  <2>4. QED
    BY <1>2, <1>9, <2>1, <2>2, <2>3 DEF Rooted
<1>13. BoundRight(p, next)
  BY <1>9, <1>11, <1>12 DEF BoundRight
<1>14. QED
  BY <1>8, <1>9, <1>13

-----------------------------------------------------------------------------
(* What a call binds is right. *)
LEMMA BoundByRight ==
  ASSUME PlanFits(plan), bound = Unbound \/ BoundRight(plan, bound), NEW inputs \in Arguments, NEW turn,
         owner = "sampler" /\ bound # Unbound => inputs = bound.inputs
  PROVE  BoundRight(plan, BoundBy(inputs, turn)) /\ BoundBy(inputs, turn).inputs = inputs
<1>1. PICK now : now = BoundBy(inputs, turn)
  OBVIOUS
<1>2. CASE owner = "sampler" /\ bound # Unbound
  BY <1>2 DEF BoundBy
<1>3. CASE ~ (owner = "sampler" /\ bound # Unbound)
  <2>1. now = Rebind(plan.graph, plan.bindings, bound, inputs, turn)
    BY <1>1, <1>3 DEF BoundBy
  <2>2. CASE bound.traced
    <3>1. bound # Unbound
      BY <2>2 DEF Unbound
    <3>2. now = FastRebind(bound, inputs, turn)
      BY <2>1, <2>2 DEF Rebind
    <3>3. QED
      BY <1>1, <2>2, <3>1, <3>2, FastRight
  <2>3. CASE ~ bound.traced
    <3>1. now = FullRebind(plan.graph, plan.bindings, inputs, turn)
      BY <2>1, <2>3 DEF Rebind
    <3>2. QED
      BY <1>1, <3>1, FullRight
  <2>4. QED
    BY <2>2, <2>3
<1>4. QED
  BY <1>2, <1>3

-----------------------------------------------------------------------------
(* The columns of the table. *)

StaticColumns(p)  == ColumnPlaces(p) \ DynamicPlaces(p)
DynamicColumns(p) == ColumnPlaces(p) \cap DynamicPlaces(p)

(* Addresses of columns that never change.                                 *)
StaticRight(p, addresses) ==
  \A place \in StaticColumns(p) :
    place \in DOMAIN addresses /\ addresses[place] = Fixed(p, p.bindings[SlotAt(p, place)].value)

(* Addresses that go with a launch are those it is meant to find.          *)
DynamicRight(p, addresses, meant) ==
  /\ DOMAIN addresses = DynamicPlaces(p)
  /\ \A place \in DynamicColumns(p) : addresses[place] = meant[place]

(* A column repeats a slot, and one that is not sent with the launch a     *)
(* workspace slot.                                                         *)
LEMMA ColumnIs ==
  ASSUME NEW p, PlanSound(p), NEW place \in ColumnPlaces(p)
  PROVE  /\ place \in Places(p) /\ SlotAt(p, place) \in DOMAIN p.bindings
         /\ place \notin DynamicPlaces(p) => p.bindings[SlotAt(p, place)].kind = "workspace"
<1>1. PICK n \in Nat : n = Len(p.bindings) /\ DOMAIN p.bindings = 1 .. n
  BY PlanIs
<1>2. PICK k \in DOMAIN p.columns : place = n + k /\ p.columns[k] # None
  BY <1>1 DEF ColumnPlaces
<1>3. PICK m \in Nat : m = Len(p.columns) /\ DOMAIN p.columns = 1 .. m
  BY LenProperties DEF PlanSound
<1>4. PICK slot : slot = p.columns[k]
  OBVIOUS
<1>5. slot \in DOMAIN p.bindings
  <2>1. PICK S : S = {None} \cup DOMAIN p.bindings
    OBVIOUS
  <2>2. p.columns \in Seq(S)
    BY <2>1 DEF PlanSound
  <2>3. p.columns[k] \in S
    BY <1>3, <2>2, ElementOfSeq
  <2>4. QED
    BY <1>2, <1>4, <2>1, <2>3
<1>6. p.bindings[slot].kind \in DynamicKinds \cup {"workspace"}
  BY <1>2, <1>4 DEF PlanSound
<1>7. k \in Nat /\ 1 <= k /\ k <= m
  BY <1>3
<1>8. SlotAt(p, place) = slot
  <2>1. ~ (place <= Len(p.bindings)) /\ place - Len(p.bindings) = k
    BY <1>1, <1>2, <1>7
  <2>2. SlotAt(p, place) = IF p.columns[k] = None THEN 1 ELSE p.columns[k]
    BY <2>1 DEF SlotAt
  <2>3. QED
    BY <1>2, <1>4, <2>2
<1>9. place \in Places(p)
  <2>1. Places(p) = 1 .. (n + m)
    BY <1>1, <1>3 DEF Places
  <2>2. place = n + k
    BY <1>2
  <2>3. n + k \in 1 .. (n + m)
    BY <1>7
  <2>4. QED
    BY <2>1, <2>2, <2>3
<1>10. place \notin DynamicPlaces(p) => p.bindings[slot].kind \notin DynamicKinds
  BY <1>8 DEF DynamicPlaces
<1>11. QED
  BY <1>5, <1>6, <1>8, <1>9, <1>10

(* What a binding uploads, what it sends with its launch, and what the     *)
(* launch is meant to find.                                                *)
LEMMA ColumnsRight ==
  ASSUME PlanFits(plan), NEW now, BoundRight(plan, now)
  PROVE  /\ StaticRight(plan, Static(now))
         /\ StaticRight(plan, MeantBy(now.inputs, now.call))
         /\ DynamicRight(plan, Dynamic(now), MeantBy(now.inputs, now.call))
         /\ DOMAIN MeantBy(now.inputs, now.call) = ColumnPlaces(plan)
         /\ Static(now) # <<>>
<1>1. PlanSound(plan) /\ InputsFit(plan, now.inputs)
  BY DEF PlanFits, BoundRight
<1>2. PICK meant : meant = MeantBy(now.inputs, now.call)
  OBVIOUS
<1>3. /\ DOMAIN meant = ColumnPlaces(plan)
      /\ \A place \in ColumnPlaces(plan) :
           meant[place] = Meant(plan, plan.bindings[SlotAt(plan, place)].value, now.inputs, now.call)
  BY <1>2 DEF MeantBy
<1>4. PICK resolved : resolved = Resolved(now)
  OBVIOUS
<1>5. /\ \A place \in Places(plan) : resolved[place] = now.addresses[SlotAt(plan, place)]
      /\ DOMAIN resolved = Places(plan)
  BY <1>4 DEF Resolved
<1>6. \A place \in ColumnPlaces(plan) : resolved[place] = meant[place]
  <2>1. \A i \in DOMAIN plan.bindings :
           now.addresses[i] = Meant(plan, plan.bindings[i].value, now.inputs, now.call)
    BY DEF BoundRight, Addressed
  <2>2. QED
    BY <1>1, <1>3, <1>5, <2>1, ColumnIs
<1>7. ASSUME NEW place \in StaticColumns(plan)
      PROVE  /\ place \in ColumnPlaces(plan) /\ place \notin DynamicPlaces(plan)
             /\ place \in Places(plan)
             /\ meant[place] = Fixed(plan, plan.bindings[SlotAt(plan, place)].value)
  <2>1. PICK i : i = SlotAt(plan, place)
    OBVIOUS
  <2>2. /\ place \in ColumnPlaces(plan) /\ place \notin DynamicPlaces(plan) /\ place \in Places(plan)
        /\ i \in DOMAIN plan.bindings /\ plan.bindings[i].kind = "workspace"
    BY <1>1, <1>7, <2>1, ColumnIs DEF StaticColumns
  <2>3. PICK v \in plan.graph.values : v = plan.bindings[i].value
    BY <1>1, <2>2, PlanIs
  <2>4. plan.bindings[i] = Binding(v, "workspace")
    BY <1>1, <2>2, <2>3, PlanIs
  <2>5. InWorkspace(plan, v)
    BY <2>2, <2>4 DEF InWorkspace
  <2>6. Meant(plan, v, now.inputs, now.call) = Fixed(plan, v)
    BY <1>1, <2>5, WorkspaceFixed
  <2>7. QED
    BY <1>3, <2>1, <2>2, <2>3, <2>6
<1>8. StaticRight(plan, meant)
  BY <1>3, <1>7 DEF StaticRight
<1>9. DOMAIN Static(now) = Places(plan)
  BY DEF Static
<1>10. \A place \in Places(plan) : place \notin DynamicPlaces(plan) => Static(now)[place] = resolved[place]
  BY <1>4 DEF Static
<1>11. StaticRight(plan, Static(now))
  <2>1. PICK static : static = Static(now)
    OBVIOUS
  <2>2. QED
    BY <1>6, <1>7, <1>9, <1>10, <2>1 DEF StaticRight
<1>12. DynamicRight(plan, Dynamic(now), meant)
  <2>1. PICK dynamic : dynamic = Dynamic(now)
    OBVIOUS
  <2>2. DOMAIN dynamic = DynamicPlaces(plan)
    BY <2>1 DEF Dynamic
  <2>3. \A place \in DynamicPlaces(plan) : dynamic[place] = resolved[place]
    BY <1>4, <2>1 DEF Dynamic
  <2>4. QED
    BY <1>6, <2>1, <2>2, <2>3 DEF DynamicRight, DynamicColumns
<1>13. Static(now) # <<>>
  <2>1. Len(plan.bindings) \in Nat \ {0} /\ Len(plan.columns) \in Nat
    BY <1>1, PlanIs, LenProperties DEF PlanSound
  <2>2. 1 \in Places(plan)
    <3>1. PICK n \in Nat \ {0} : n = Len(plan.bindings)
      BY <2>1
    <3>2. PICK m \in Nat : m = Len(plan.columns)
      BY <2>1
    <3>3. Places(plan) = 1 .. (n + m)
      BY <3>1, <3>2 DEF Places
    <3>4. QED
      BY <3>3
  <2>3. 1 \notin DOMAIN <<>>
    OBVIOUS
  <2>4. QED
    BY <1>9, <2>2, <2>3
<1>14. QED
  BY <1>2, <1>3, <1>8, <1>11, <1>12, <1>13

-----------------------------------------------------------------------------
(* Addresses in the stream. *)

(* An operation brings, or finds in the ring r, the addresses of its call. *)
OpRight(p, r, op) ==
  /\ op.op = "upload" => StaticRight(p, op.addresses)
  /\ IsKernel(op) => StaticRight(p, op.meant)
  /\ op.op = "launch" => DynamicRight(p, r[op.number % Ring].addresses, op.meant)
  /\ op.op = "replay" => DynamicRight(p, op.addresses, op.meant)

OpsRight(p, r, s) ==
  /\ \E S : s \in Seq(S)
  /\ \A i \in 1 .. Len(s) : OpRight(p, r, s[i])

(* A kernel of the stream s finds the columns that never change in place.  *)
TableReady(p, addresses, s) ==
  \/ StaticRight(p, addresses)
  \/ \E j \in 1 .. Len(s) : s[j].op = "upload" /\ \A k \in 1 .. j - 1 : ~ IsKernel(s[k])

(* Queues of such operations: the empty one, ...                           *)
LEMMA NoOps ==
  ASSUME NEW p, NEW r
  PROVE  OpsRight(p, r, <<>>)
<1>1. <<>> \in Seq({}) /\ Len(<<>>) = 0
  BY EmptySeq
<1>2. QED
  BY <1>1 DEF OpsRight

(* ... that of one operation, ...                                          *)
LEMMA OneOp ==
  ASSUME NEW p, NEW r, NEW op, OpRight(p, r, op)
  PROVE  OpsRight(p, r, <<op>>)
<1>1. <<op>> \in Seq({op}) /\ Len(<<op>>) = 1 /\ <<op>>[1] = op
  OBVIOUS
<1>2. PICK s : s = <<op>> /\ s \in Seq({op}) /\ Len(s) = 1 /\ s[1] = op
  BY <1>1
<1>3. \A i \in 1 .. Len(s) : s[i] = op
  BY <1>2
<1>4. OpsRight(p, r, s)
  BY <1>2, <1>3 DEF OpsRight
<1>5. QED
  BY <1>2, <1>4

(* ... two in sequence, ...                                                *)
LEMMA OpsJoin ==
  ASSUME NEW p, NEW r, NEW s, OpsRight(p, r, s), NEW t, OpsRight(p, r, t)
  PROVE  /\ OpsRight(p, r, s \o t)
         /\ s # <<>> => s \o t # <<>> /\ Head(s \o t) = Head(s)
         /\ \A a : TableReady(p, a, s) => TableReady(p, a, s \o t)
<1>1. PICK S : s \in Seq(S)
  BY DEF OpsRight
<1>2. PICK T : t \in Seq(T)
  BY DEF OpsRight
<1>3. s \in Seq(S \cup T) /\ t \in Seq(S \cup T)
  BY <1>1, <1>2, SeqMonotonic
<1>4. PICK u : u = s \o t
  OBVIOUS
<1>5. /\ u \in Seq(S \cup T) /\ Len(u) = Len(s) + Len(t)
      /\ \A i \in 1 .. Len(u) : u[i] = IF i <= Len(s) THEN s[i] ELSE t[i - Len(s)]
  BY <1>3, <1>4, ConcatProperties
<1>6. Len(s) \in Nat /\ Len(t) \in Nat
  BY <1>1, <1>2, LenProperties
<1>7. \A i \in 1 .. Len(s) : i \in 1 .. Len(u) /\ u[i] = s[i]
  BY <1>5, <1>6
<1>8. ASSUME NEW i \in 1 .. Len(u)
      PROVE  OpRight(p, r, u[i])
  <2>1. CASE i <= Len(s)
    <3>1. i \in 1 .. Len(s) /\ u[i] = s[i]
      BY <1>5, <1>6, <2>1
    <3>2. QED
      BY <3>1 DEF OpsRight
  <2>2. CASE ~ (i <= Len(s))
    <3>1. i - Len(s) \in 1 .. Len(t) /\ u[i] = t[i - Len(s)]
      BY <1>5, <1>6, <2>2
    <3>2. QED
      BY <3>1 DEF OpsRight
  <2>3. QED
    BY <2>1, <2>2
<1>9. OpsRight(p, r, u)
  BY <1>5, <1>8 DEF OpsRight
<1>10. ASSUME s # <<>>
       PROVE  u # <<>> /\ Head(u) = Head(s)
  <2>1. Len(s) # 0
    BY <1>1, <1>10, EmptySeq
  <2>2. 1 \in 1 .. Len(s) /\ Len(u) # 0
    BY <1>5, <1>6, <2>1
  <2>3. u[1] = s[1] /\ u # <<>>
    BY <1>7, <2>2
  <2>4. QED
    BY <1>1, <1>5, <1>10, <2>3
<1>11. ASSUME NEW a, TableReady(p, a, s)
       PROVE  TableReady(p, a, u)
  <2>1. CASE StaticRight(p, a)
    BY <2>1 DEF TableReady
  <2>2. CASE ~ StaticRight(p, a)
    <3>1. PICK j \in 1 .. Len(s) : s[j].op = "upload" /\ \A k \in 1 .. j - 1 : ~ IsKernel(s[k])
      BY <1>11, <2>2 DEF TableReady
    <3>2. j \in 1 .. Len(u) /\ u[j] = s[j] /\ \A k \in 1 .. j - 1 : k \in 1 .. Len(s) /\ u[k] = s[k]
      BY <1>6, <1>7
    <3>3. u[j].op = "upload" /\ \A k \in 1 .. j - 1 : ~ IsKernel(u[k])
      BY <3>1, <3>2
    <3>4. QED
      BY <3>2, <3>3 DEF TableReady
  <2>3. QED
    BY <2>1, <2>2
<1>12. QED
  BY <1>4, <1>9, <1>10, <1>11

(* ... and what is left when the head is taken.                            *)
LEMMA OpsHead ==
  ASSUME NEW p, NEW r, NEW s, OpsRight(p, r, s), s # <<>>
  PROVE  /\ OpRight(p, r, Head(s)) /\ OpsRight(p, r, Tail(s))
         /\ \A a : TableReady(p, a, s) =>
              /\ IsKernel(Head(s)) => StaticRight(p, a)
              /\ Head(s).op \notin {"upload", "launch", "replay"} => TableReady(p, a, Tail(s))
<1>1. PICK S : s \in Seq(S)
  BY DEF OpsRight
<1>2. Len(s) \in Nat \ {0}
  BY <1>1, EmptySeq, LenProperties
<1>3. PICK t : t = Tail(s)
  OBVIOUS
<1>4. /\ t \in Seq(S) /\ Len(t) = Len(s) - 1
      /\ \A i \in 1 .. Len(t) : t[i] = s[i + 1]
  BY <1>1, <1>3, HeadTailProperties
<1>5. Head(s) = s[1] /\ 1 \in 1 .. Len(s)
  BY <1>1, <1>2
<1>6. OpRight(p, r, Head(s))
  BY <1>5 DEF OpsRight
<1>7. ASSUME NEW i \in 1 .. Len(t)
      PROVE  OpRight(p, r, t[i])
  <2>1. i + 1 \in 1 .. Len(s) /\ t[i] = s[i + 1]
    BY <1>2, <1>4
  <2>2. QED
    BY <2>1 DEF OpsRight
<1>8. OpsRight(p, r, t)
  BY <1>4, <1>7 DEF OpsRight
<1>9. ASSUME NEW a, TableReady(p, a, s)
      PROVE  /\ IsKernel(Head(s)) => StaticRight(p, a)
             /\ Head(s).op \notin {"upload", "launch", "replay"} => TableReady(p, a, t)
  <2>1. CASE StaticRight(p, a)
    BY <2>1 DEF TableReady
  <2>2. CASE ~ StaticRight(p, a)
    <3>1. PICK j \in 1 .. Len(s) : s[j].op = "upload" /\ \A k \in 1 .. j - 1 : ~ IsKernel(s[k])
      BY <1>9, <2>2 DEF TableReady
    <3>2. CASE j = 1
      <4>1. Head(s).op = "upload"
        BY <1>5, <3>1, <3>2
      <4>2. QED
        BY <4>1 DEF IsKernel
    <3>3. CASE j # 1
      <4>1. j - 1 \in 1 .. Len(t) /\ 1 \in 1 .. j - 1 /\ (j - 1) + 1 = j
        BY <1>2, <1>4, <3>3
      <4>2. ~ IsKernel(Head(s))
        BY <1>5, <3>1, <4>1
      <4>3. t[j - 1] = s[j]
        BY <1>4, <4>1
      <4>4. \A k \in 1 .. (j - 1) - 1 : k \in 1 .. Len(t) /\ k + 1 \in 1 .. j - 1
        BY <4>1
      <4>5. \A k \in 1 .. (j - 1) - 1 : ~ IsKernel(t[k])
        BY <1>4, <3>1, <4>4
      <4>6. TableReady(p, a, t)
        BY <3>1, <4>1, <4>3, <4>5 DEF TableReady
      <4>7. QED
        BY <4>2, <4>6
    <3>4. QED
      BY <3>2, <3>3
  <2>3. QED
    BY <2>1, <2>2
<1>10. QED
  BY <1>3, <1>6, <1>8, <1>9

(* The ring may be written where no launch of the stream reads it.         *)
LEMMA OpsRing ==
  ASSUME NEW p, NEW r, NEW s, OpsRight(p, r, s), NEW q,
         \A i \in 1 .. Len(s) : s[i].op = "launch" => q[s[i].number % Ring] = r[s[i].number % Ring]
  PROVE  OpsRight(p, q, s)
BY DEF OpsRight, OpRight

-----------------------------------------------------------------------------
(* Addresses on the host and in the stream. *)

AddressInv ==
  /\ PlanFits(plan) /\ made \in Nat
  /\ made = 0 => /\ bound = Unbound /\ mirror = <<>> /\ graph = "none"
                 /\ stream = <<>> /\ tokens = <<>>
  /\ made > 0 => BoundRight(plan, bound) /\ TableReady(plan, table, stream)
  /\ OpsRight(plan, ring, stream) /\ OpsRight(plan, ring, tokens)
  /\ graph # "none" => OpRight(plan, ring, Replayed(captured))

(* It holds before the first call.                                         *)
LEMMA AddressInit ==
  ASSUME Init, SoundPlans
  PROVE  AddressInv
<1>1. PlanFits(plan)
  BY PlansFit DEF Init
<1>2. OpsRight(plan, ring, stream) /\ OpsRight(plan, ring, tokens)
  BY NoOps DEF Init
<1>3. QED
  BY <1>1, <1>2 DEF Init, AddressInv

(* Resets and uploads that go before a launch.                             *)
LEMMA WrappedRight ==
  ASSUME NEW p, NEW r, NEW s, OpsRight(p, r, s)
  PROVE  /\ OpsRight(p, r, s \o WrappedOps)
         /\ s # <<>> => s \o WrappedOps # <<>> /\ Head(s \o WrappedOps) = Head(s)
         /\ \A a : TableReady(p, a, s) => TableReady(p, a, s \o WrappedOps)
<1>1. OpRight(p, r, Reset)
  BY DEF OpRight, Reset, IsKernel
<1>2. OpsRight(p, r, WrappedOps)
  BY <1>1, OneOp, NoOps DEF WrappedOps
<1>3. QED
  BY <1>2, OpsJoin

(* The reset that may go before a launch is no kernel.                     *)
LEMMA WrappedSeq ==
  /\ \E S : WrappedOps \in Seq(S)
  /\ \A k \in 1 .. Len(WrappedOps) : ~ IsKernel(WrappedOps[k])
<1>1. CASE MustWrap
  <2>1. PICK R : R = Reset
    OBVIOUS
  <2>2. WrappedOps = <<R>>
    BY <1>1, <2>1 DEF WrappedOps
  <2>3. ~ IsKernel(R)
    BY <2>1 DEF IsKernel, Reset
  <2>4. PICK S, w : w \in Seq(S) /\ w = WrappedOps /\ Len(w) = 1 /\ w[1] = R
    <3>1. <<R>> \in Seq({R}) /\ Len(<<R>>) = 1 /\ <<R>>[1] = R
      OBVIOUS
    <3>2. QED
      BY <2>2, <3>1
  <2>5. \A k \in 1 .. Len(w) : ~ IsKernel(w[k])
    BY <2>3, <2>4
  <2>6. QED
    BY <2>4, <2>5
<1>2. CASE ~ MustWrap
  BY <1>2, EmptySeq DEF WrappedOps
<1>3. QED
  BY <1>1, <1>2

(* A table uploaded before the first kernel is in time.                    *)
LEMMA UploadLast ==
  ASSUME NEW s, \E S : s \in Seq(S), \A k \in 1 .. Len(s) : ~ IsKernel(s[k]),
         NEW op, op.op = "upload", NEW p, NEW a
  PROVE  TableReady(p, a, s \o <<op>>)
<1>1. PICK S : s \in Seq(S)
  OBVIOUS
<1>2. s \in Seq(S \cup {op}) /\ op \in S \cup {op}
  BY <1>1, SeqMonotonic
<1>3. PICK u : u = s \o <<op>> /\ u = Append(s, op)
  BY <1>2, AppendIsConcat
<1>4. /\ Len(u) = Len(s) + 1 /\ u[Len(s) + 1] = op
      /\ \A i \in 1 .. Len(s) : u[i] = s[i]
  BY <1>2, <1>3, AppendProperties
<1>5. PICK n \in Nat : n = Len(s)
  BY <1>1, LenProperties
<1>6. n + 1 \in 1 .. Len(u) /\ u[n + 1].op = "upload" /\ \A k \in 1 .. (n + 1) - 1 : ~ IsKernel(u[k])
  BY <1>4, <1>5
<1>7. TableReady(p, a, u)
  BY <1>6 DEF TableReady
<1>8. QED
  BY <1>3, <1>7

(* prepare_launch, of a new binding: its addresses go to a free ring       *)
(* entry, and the static ones to the stream if they are new.               *)
LEMMA PrepareAddresses ==
  ASSUME TableInv, TableInv', AddressInv, NEW inputs \in Arguments, Prepare(inputs)
  PROVE  AddressInv' /\ (stream # <<>> => stream' # <<>> /\ Head(stream') = Head(stream))
<1>1. PICK n : n = WrappedCall
  OBVIOUS
<1>2. PICK now : now = BoundBy(inputs, made + 1)
  OBVIOUS
<1>3. PICK launch : launch = Launch(n, MeantBy(inputs, now.call))
  OBVIOUS
<1>4. PICK entry : entry = [stamp |-> n, addresses |-> Dynamic(now)]
  OBVIOUS
<1>5. PICK uploads : uploads = Uploads(now)
  OBVIOUS
<1>6. /\ ~ Busy(n % Ring)
      /\ ring' = [ring EXCEPT ![n % Ring] = entry]
      /\ tokens' = Append(tokens, launch)
      /\ bound' = now /\ made' = made + 1
      /\ stream' = stream \o WrappedOps \o uploads
      /\ owner = "sampler" /\ bound # Unbound => inputs = bound.inputs
      /\ UNCHANGED <<plan, graph, captured, device>>
  BY <1>1, <1>2, <1>3, <1>4, <1>5 DEF Prepare, PrepareLaunch
<1>7. table' = table
  BY <1>6 DEF device
<1>8. /\ PlanFits(plan) /\ made \in Nat
      /\ made = 0 => /\ bound = Unbound /\ mirror = <<>> /\ graph = "none"
                     /\ stream = <<>> /\ tokens = <<>>
      /\ made > 0 => BoundRight(plan, bound) /\ TableReady(plan, table, stream)
      /\ OpsRight(plan, ring, stream) /\ OpsRight(plan, ring, tokens)
      /\ graph # "none" => OpRight(plan, ring, Replayed(captured))
  BY DEF AddressInv
<1>9. BoundRight(plan, now) /\ now.inputs = inputs
  <2>1. bound = Unbound \/ BoundRight(plan, bound)
    BY <1>8
  <2>2. QED
    BY <1>2, <1>6, <1>8, <2>1, BoundByRight
<1>10. /\ StaticRight(plan, Static(now)) /\ Static(now) # <<>>
       /\ StaticRight(plan, MeantBy(inputs, now.call))
       /\ DynamicRight(plan, Dynamic(now), MeantBy(inputs, now.call))
  BY <1>8, <1>9, ColumnsRight
<1>11. n \in Nat /\ n % Ring \in Entries /\ ring = [k \in Entries |-> ring[k]]
  BY <1>1, Sizes DEF TableInv, HostSide, Prepared, WrappedCall
<1>12. ring'[n % Ring] = entry /\ \A e \in Entries : e # n % Ring => ring'[e] = ring[e]
  BY <1>6, <1>11
<1>13. OpRight(plan, ring', launch)
  <2>1. /\ launch.op = "launch" /\ launch.number = n
        /\ launch.meant = MeantBy(inputs, now.call)
    BY <1>3 DEF Launch
  <2>2. ring'[n % Ring].addresses = Dynamic(now)
    BY <1>4, <1>12
  <2>3. QED
    BY <1>10, <2>1, <2>2 DEF OpRight, IsKernel
<1>14. OpsRight(plan, ring', stream)
  <2>1. PICK S : stream \in Seq(S)
    BY <1>8 DEF OpsRight
  <2>2. DOMAIN stream = 1 .. Len(stream)
    BY <2>1, LenProperties
  <2>3. ASSUME NEW i \in 1 .. Len(stream), stream[i].op = "launch"
        PROVE  ring'[stream[i].number % Ring] = ring[stream[i].number % Ring]
    <3>1. stream[i].number % Ring # n % Ring
      BY <1>6, <2>2, <2>3 DEF Busy
    <3>2. PICK first, N : Numbering(stream, N, first, calls - Len(tokens))
      BY DEF TableInv, Mirrored, Queue
    <3>3. stream[i].number \in Nat
      <4>1. Len(stream) \in Nat
        BY <2>1, LenProperties
      <4>2. i \in 1 .. Len(stream) + 1
        BY <4>1
      <4>3. QED
        BY <2>3, <3>2, <4>2 DEF Numbering
    <3>4. QED
      BY <1>12, <3>1, <3>3, Sizes
  <2>4. QED
    BY <1>8, <2>3, OpsRing
<1>15. OpsRight(plan, ring', tokens)
  <2>1. PICK T : tokens \in Seq(T)
    BY <1>8 DEF OpsRight
  <2>2. PICK L \in Nat : L = Len(tokens)
    BY <2>1, LenProperties
  <2>3. /\ Len(tokens') = L + 1 /\ tokens'[L + 1] = launch
        /\ \A i \in 1 .. L : tokens'[i] = tokens[i]
    <3>1. tokens \in Seq(T \cup {launch}) /\ launch \in T \cup {launch}
      BY <2>1, SeqMonotonic
    <3>2. QED
      BY <1>6, <2>2, <3>1, AppendProperties
  <2>4. /\ calls' - (L + 1) \in Nat
        /\ \A i \in 1 .. L + 1 : /\ tokens'[i].number = calls' - (L + 1) + i - 1
                                 /\ ring'[tokens'[i].number % Ring].stamp = tokens'[i].number
    BY <2>3 DEF TableInv, Prepared, Stamped
  <2>5. launch.number = n /\ ring'[n % Ring].stamp = n
    BY <1>3, <1>4, <1>12 DEF Launch
  <2>6. ASSUME NEW i \in 1 .. L
        PROVE  ring'[tokens[i].number % Ring] = ring[tokens[i].number % Ring]
    <3>1. i \in 1 .. L + 1 /\ L + 1 \in 1 .. L + 1 /\ i # L + 1
      BY <2>2
    <3>2. PICK base \in Nat : base = calls' - (L + 1)
      BY <2>4
    <3>3. tokens[i].number = base + i - 1 /\ n = base + (L + 1) - 1
      BY <2>3, <2>4, <2>5, <3>1, <3>2
    <3>4. tokens[i].number \in Nat /\ tokens[i].number # n
      BY <2>2, <3>1, <3>2, <3>3
    <3>5. tokens[i].number % Ring # n % Ring
      BY <2>3, <2>4, <2>5, <3>1, <3>4
    <3>6. QED
      BY <1>12, <3>4, <3>5, Sizes
  <2>7. QED
    BY <1>8, <2>2, <2>6, OpsRing
<1>16. OpsRight(plan, ring', tokens')
  <2>1. OpsRight(plan, ring', tokens \o <<launch>>)
    BY <1>13, <1>15, OneOp, OpsJoin
  <2>2. PICK T : tokens \in Seq(T)
    BY <1>8 DEF OpsRight
  <2>3. tokens \in Seq(T \cup {launch}) /\ launch \in T \cup {launch}
    BY <2>2, SeqMonotonic
  <2>4. Append(tokens, launch) = tokens \o <<launch>>
    BY <2>3, AppendIsConcat
  <2>5. QED
    BY <1>6, <2>1, <2>4
<1>17. PICK mid : mid = stream \o WrappedOps
  OBVIOUS
<1>18. /\ OpsRight(plan, ring', mid)
       /\ stream # <<>> => mid # <<>> /\ Head(mid) = Head(stream)
       /\ \A a : TableReady(plan, a, stream) => TableReady(plan, a, mid)
  BY <1>14, <1>17, WrappedRight
<1>19. OpsRight(plan, ring', uploads)
  <2>1. CASE uploads = <<>>
    BY <2>1, NoOps
  <2>2. CASE uploads # <<>>
    <3>1. uploads = <<Upload(Static(now))>>
      BY <1>5, <2>2 DEF Uploads
    <3>2. OpRight(plan, ring', Upload(Static(now)))
      BY <1>10 DEF OpRight, Upload, IsKernel
    <3>3. QED
      BY <3>1, <3>2, OneOp
  <2>3. QED
    BY <2>1, <2>2
<1>20. /\ OpsRight(plan, ring', stream')
       /\ mid # <<>> => stream' # <<>> /\ Head(stream') = Head(mid)
       /\ \A a : TableReady(plan, a, mid) => TableReady(plan, a, stream')
  BY <1>6, <1>17, <1>18, <1>19, OpsJoin
<1>21. TableReady(plan, table, stream')
  <2>1. CASE made > 0
    BY <1>8, <1>18, <1>20, <2>1
  <2>2. CASE made = 0
    <3>1. stream = <<>> /\ uploads = <<Upload(Static(now))>>
      BY <1>5, <1>8, <1>10, <2>2 DEF Uploads
    <3>2. PICK op : op = Upload(Static(now))
      OBVIOUS
    <3>3. op.op = "upload" /\ stream' = mid \o <<op>>
      BY <1>6, <1>17, <3>1, <3>2 DEF Upload
    <3>4. mid = WrappedOps
      <4>1. PICK S : WrappedOps \in Seq(S)
        BY <1>14, WrappedSeq
      <4>2. QED
        BY <1>17, <3>1, <4>1, ConcatEmptySeq
    <3>5. (\E S : mid \in Seq(S)) /\ \A k \in 1 .. Len(mid) : ~ IsKernel(mid[k])
      BY <3>4, WrappedSeq
    <3>6. QED
      BY <3>3, <3>5, UploadLast
  <2>3. QED
    BY <1>8, <2>1, <2>2
<1>22. graph' # "none" => OpRight(plan', ring', Replayed(captured'))
  BY <1>6, <1>8 DEF OpRight, Replayed, IsKernel
<1>23. made' \in Nat /\ made' > 0
  BY <1>6, <1>8
<1>24. AddressInv'
  BY <1>6, <1>7, <1>8, <1>9, <1>16, <1>20, <1>21, <1>22, <1>23 DEF AddressInv
<1>25. QED
  BY <1>18, <1>20, <1>24

-----------------------------------------------------------------------------
IsAppend(t, s, op) == t = Append(s, op)

(* The same for one operation more.                                        *)
LEMMA OpsAppend ==
  ASSUME NEW p, NEW r, NEW s, OpsRight(p, r, s), NEW op, OpRight(p, r, op),
         NEW t, IsAppend(t, s, op)
  PROVE  /\ OpsRight(p, r, t)
         /\ s # <<>> => t # <<>> /\ Head(t) = Head(s)
         /\ \A a : TableReady(p, a, s) => TableReady(p, a, t)
<1>1. PICK S : s \in Seq(S)
  BY DEF OpsRight
<1>2. s \in Seq(S \cup {op}) /\ op \in S \cup {op}
  BY <1>1, SeqMonotonic
<1>3. t = s \o <<op>>
  BY <1>2, AppendIsConcat DEF IsAppend
<1>4. PICK o : t = s \o o /\ OpsRight(p, r, o)
  BY <1>3, OneOp
<1>5. /\ OpsRight(p, r, s \o o)
      /\ s # <<>> => s \o o # <<>> /\ Head(s \o o) = Head(s)
      /\ \A a : TableReady(p, a, s) => TableReady(p, a, s \o o)
  BY <1>4, OpsJoin
<1>6. QED
  BY <1>4, <1>5

(* A reset brings no addresses.                                            *)
LEMMA ResetRight ==
  ASSUME NEW p, NEW r
  PROVE  OpRight(p, r, Reset)
BY DEF OpRight, Reset, IsKernel

(* run_launch moves a launch from the prepared ones to the stream.         *)
LEMMA RunLaunchAddresses ==
  ASSUME AddressInv, RunLaunch
  PROVE  AddressInv' /\ (stream # <<>> => stream' # <<>> /\ Head(stream') = Head(stream))
<1>1. PICK launch : launch = Head(tokens)
  OBVIOUS
<1>2. /\ tokens # <<>> /\ tokens' = Tail(tokens)
      /\ stream' = Append(stream, launch) \/ stream' = stream \o <<launch, Reset>>
      /\ UNCHANGED <<plan, bound, mirror, graph, captured, made, ring, table>>
  BY <1>1 DEF RunLaunch, binding, device
<1>3. /\ PlanFits(plan) /\ made \in Nat /\ made > 0
      /\ BoundRight(plan, bound) /\ TableReady(plan, table, stream)
      /\ OpsRight(plan, ring, stream) /\ OpsRight(plan, ring, tokens)
      /\ graph # "none" => OpRight(plan, ring, Replayed(captured))
  BY <1>2 DEF AddressInv
<1>4. OpRight(plan, ring, launch) /\ OpsRight(plan, ring, tokens')
  BY <1>1, <1>2, <1>3, OpsHead
<1>5. PICK mid : IsAppend(mid, stream, launch)
  BY DEF IsAppend
<1>6. /\ OpsRight(plan, ring, mid) /\ TableReady(plan, table, mid)
      /\ stream # <<>> => mid # <<>> /\ Head(mid) = Head(stream)
  BY <1>3, <1>4, <1>5, OpsAppend
<1>8. /\ OpsRight(plan, ring, stream') /\ TableReady(plan, table, stream')
      /\ stream # <<>> => stream' # <<>> /\ Head(stream') = Head(stream)
  <2>1. CASE stream' = Append(stream, launch)
    BY <1>5, <1>6, <2>1 DEF IsAppend
  <2>2. CASE stream' = stream \o <<launch, Reset>>
    <3>1. IsAppend(stream', mid, Reset)
      BY <1>3, <1>5, <2>2, QueueTwo DEF OpsRight, IsAppend
    <3>2. OpRight(plan, ring, Reset)
      BY ResetRight
    <3>3. /\ OpsRight(plan, ring, stream') /\ TableReady(plan, table, stream')
          /\ mid # <<>> => stream' # <<>> /\ Head(stream') = Head(mid)
      BY <1>6, <3>1, <3>2, OpsAppend
    <3>4. QED
      BY <1>6, <3>3
  <2>3. QED
    BY <1>2, <2>1, <2>2
<1>9. AddressInv'
  BY <1>2, <1>3, <1>4, <1>8 DEF AddressInv
<1>10. QED
  BY <1>8, <1>9

(* A capture keeps the addresses of the binding it was made with.          *)
LEMMA CaptureAddresses ==
  ASSUME AddressInv, Capture
  PROVE  AddressInv' /\ stream' = stream
<1>1. PICK now : now = BoundBy(bound.inputs, MaxCalls + 1)
  OBVIOUS
<1>2. /\ made > 0 /\ owner = "callable" /\ bound' = now
      /\ captured' = [addresses |-> Dynamic(now), meant |-> MeantBy(now.inputs, now.call)]
      /\ UNCHANGED <<plan, made, tokens, stream, ring, table>>
  BY <1>1 DEF Capture, CaptureBinding, device
<1>3. /\ PlanFits(plan) /\ made \in Nat
      /\ BoundRight(plan, bound) /\ TableReady(plan, table, stream)
      /\ OpsRight(plan, ring, stream) /\ OpsRight(plan, ring, tokens)
  BY <1>2 DEF AddressInv
<1>4. BoundRight(plan, now)
  <2>1. bound.inputs \in Arguments
    BY <1>3 DEF BoundRight
  <2>2. QED
    BY <1>1, <1>2, <1>3, <2>1, BoundByRight
<1>5. PICK meant : meant = MeantBy(now.inputs, now.call)
  OBVIOUS
<1>6. StaticRight(plan, meant) /\ DynamicRight(plan, Dynamic(now), meant)
  BY <1>3, <1>4, <1>5, ColumnsRight
<1>7. OpRight(plan, ring, Replayed(captured'))
  <2>1. PICK op : op = Replayed(captured')
    OBVIOUS
  <2>2. op.op = "replay" /\ op.addresses = Dynamic(now) /\ op.meant = meant
    BY <1>2, <1>5, <2>1 DEF Replayed
  <2>3. OpRight(plan, ring, op)
    BY <1>6, <2>2 DEF OpRight, IsKernel
  <2>4. QED
    BY <2>1, <2>3
<1>8. QED
  BY <1>2, <1>3, <1>4, <1>7 DEF AddressInv

(* A replay enqueues what was captured.                                    *)
LEMMA ReplayAddresses ==
  ASSUME OneGraph, HostSide, AddressInv, Replay
  PROVE  AddressInv' /\ (stream # <<>> => stream' # <<>> /\ Head(stream') = Head(stream))
<1>1. PICK op : op = Replayed(captured)
  OBVIOUS
<1>2. ReplayedOps = <<op>>
  <2>1. graph = "launch"
    BY DEF Replay, HostSide
  <2>2. ReplayedOps = [i \in 1 .. 1 |-> op] \o <<>>
    BY <1>1, <2>1 DEF ReplayedOps, OneGraph
  <2>3. [i \in 1 .. 1 |-> op] = <<op>> /\ <<op>> \in Seq({op})
    OBVIOUS
  <2>4. <<op>> \o <<>> = <<op>>
    BY <2>3, ConcatEmptySeq
  <2>5. QED
    BY <2>2, <2>3, <2>4
<1>3. PICK mid : mid = stream \o WrappedOps
  OBVIOUS
<1>4. /\ graph # "none" /\ made' = made + 1 /\ tokens = <<>>
      /\ stream' = mid \o <<op>>
      /\ UNCHANGED <<plan, bound, graph, captured, tokens, ring, table>>
  BY <1>2, <1>3 DEF Replay, binding, device
<1>5. /\ PlanFits(plan) /\ made \in Nat /\ made > 0
      /\ BoundRight(plan, bound) /\ TableReady(plan, table, stream)
      /\ OpsRight(plan, ring, stream) /\ OpsRight(plan, ring, tokens)
      /\ OpRight(plan, ring, op)
  BY <1>1, <1>4 DEF AddressInv
<1>6. /\ OpsRight(plan, ring, mid) /\ TableReady(plan, table, mid)
      /\ stream # <<>> => mid # <<>> /\ Head(mid) = Head(stream)
  BY <1>3, <1>5, WrappedRight
<1>7. /\ OpsRight(plan, ring, stream') /\ TableReady(plan, table, stream')
      /\ mid # <<>> => stream' # <<>> /\ Head(stream') = Head(mid)
  BY <1>4, <1>5, <1>6, OneOp, OpsJoin
<1>8. AddressInv'
  <2>1. made' \in Nat /\ made' > 0
    BY <1>4, <1>5
  <2>2. graph' # "none" => OpRight(plan', ring', Replayed(captured'))
    BY <1>1, <1>4, <1>5
  <2>3. QED
    BY <1>4, <1>5, <1>7, <2>1, <2>2 DEF AddressInv
<1>9. QED
  BY <1>6, <1>7, <1>8

-----------------------------------------------------------------------------
(* Addresses on the device. *)

(* A step that leaves the host and takes the head from the stream.         *)
LEMMA HeadAddresses ==
  ASSUME AddressInv, UNCHANGED host, stream # <<>>, stream' = Tail(stream),
         \/ table' = table /\ Head(stream).op = "reset"
         \/ table' = table /\ IsKernel(Head(stream))
         \/ table' = Head(stream).addresses /\ Head(stream).op = "upload"
  PROVE  AddressInv'
<1>1. UNCHANGED <<plan, bound, mirror, graph, captured, made, ring, tokens>>
  BY DEF host, binding
<1>2. /\ PlanFits(plan) /\ made \in Nat /\ made > 0
      /\ BoundRight(plan, bound) /\ TableReady(plan, table, stream)
      /\ OpsRight(plan, ring, stream) /\ OpsRight(plan, ring, tokens)
      /\ graph # "none" => OpRight(plan, ring, Replayed(captured))
  BY DEF AddressInv
<1>3. PICK op : op = Head(stream)
  OBVIOUS
<1>4. /\ OpRight(plan, ring, op) /\ OpsRight(plan, ring, stream')
      /\ IsKernel(op) => StaticRight(plan, table)
      /\ op.op \notin {"upload", "launch", "replay"} => TableReady(plan, table, stream')
  BY <1>2, <1>3, OpsHead
<1>5. TableReady(plan, table', stream')
  <2>1. CASE op.op = "reset" /\ table' = table
    BY <1>4, <2>1
  <2>2. CASE IsKernel(op) /\ table' = table
    BY <1>4, <2>2 DEF TableReady
  <2>3. CASE op.op = "upload" /\ table' = op.addresses
    BY <1>4, <2>3 DEF TableReady, OpRight
  <2>4. QED
    BY <1>3, <2>1, <2>2, <2>3
<1>6. QED
  BY <1>1, <1>2, <1>4, <1>5 DEF AddressInv

(* Block 0 copies its row over the columns that go with the launch.        *)
LEMMA CopyAddresses ==
  ASSUME TableInv, AddressInv, Copy
  PROVE  /\ AddressInv'
         /\ \A place \in ColumnPlaces(plan) : table'[place] = Head(stream).meant[place]
<1>1. PICK op : op = Head(stream)
  OBVIOUS
<1>2. PICK row : row = Row(0).addresses
  OBVIOUS
<1>3. /\ stream # <<>> /\ IsKernel(op) /\ pc[0] = "copy"
      /\ table' = Over(row, table)
      /\ UNCHANGED <<host, stream>>
  BY <1>1, <1>2 DEF Copy, Running
<1>4. UNCHANGED <<plan, bound, mirror, graph, captured, made, ring, tokens>>
  BY <1>3 DEF host, binding
<1>5. /\ PlanFits(plan) /\ made \in Nat /\ made > 0
      /\ BoundRight(plan, bound) /\ TableReady(plan, table, stream)
      /\ OpsRight(plan, ring, stream) /\ OpsRight(plan, ring, tokens)
      /\ graph # "none" => OpRight(plan, ring, Replayed(captured))
  BY <1>3 DEF AddressInv
<1>6. OpRight(plan, ring, op) /\ StaticRight(plan, table)
  BY <1>1, <1>3, <1>5, OpsHead
<1>7. DynamicRight(plan, row, op.meant)
  <2>1. CASE op.op = "replay"
    <3>1. row = op.addresses
      BY <1>1, <1>2, <2>1 DEF Row
    <3>2. QED
      BY <1>6, <2>1, <3>1 DEF OpRight
  <2>2. CASE op.op = "launch"
    <3>1. row = ring[call[0] % Ring].addresses
      BY <1>1, <1>2, <2>2 DEF Row
    <3>2. PICK first \in Nat :
             /\ Queue(stream, ring, first, calls - Len(tokens))
             /\ call[0] = first
      BY <1>3 DEF TableInv, Mirrored
    <3>3. op.number = first
      BY <1>1, <1>3, <2>2, <3>2, QueueTail
    <3>4. QED
      BY <1>6, <2>2, <3>1, <3>2, <3>3 DEF OpRight
  <2>3. QED
    BY <1>3, <2>1, <2>2 DEF IsKernel
<1>8. StaticRight(plan, op.meant)
  BY <1>3, <1>6 DEF OpRight
<1>9. /\ DOMAIN table' = DOMAIN row \cup DOMAIN table
      /\ \A place \in DOMAIN row : table'[place] = row[place]
      /\ \A place \in DOMAIN table : place \notin DOMAIN row => table'[place] = table[place]
  BY <1>3 DEF Over
<1>10. StaticRight(plan, table')
  BY <1>6, <1>7, <1>9 DEF StaticRight, DynamicRight, StaticColumns
<1>11. ASSUME NEW place \in ColumnPlaces(plan)
       PROVE  table'[place] = op.meant[place]
  <2>1. CASE place \in DynamicPlaces(plan)
    BY <1>7, <1>9, <2>1 DEF DynamicRight, DynamicColumns
  <2>2. CASE place \notin DynamicPlaces(plan)
    <3>1. place \in StaticColumns(plan)
      BY <2>2 DEF StaticColumns
    <3>2. QED
      BY <1>8, <1>10, <3>1 DEF StaticRight
  <2>3. QED
    BY <2>1, <2>2
<1>12. TableReady(plan, table', stream)
  BY <1>10 DEF TableReady
<1>13. AddressInv'
  BY <1>3, <1>4, <1>5, <1>12 DEF AddressInv
<1>14. QED
  BY <1>1, <1>11, <1>13

(* A step that leaves the stream and the table. *)
LEMMA AddressesKept ==
  ASSUME AddressInv, UNCHANGED <<host, stream, table>>
  PROVE  AddressInv'
BY DEF AddressInv, host, binding

-----------------------------------------------------------------------------
(* The barriers of the kernel that runs. *)

(* Its number, and the arrivals since it began. *)
First == IF Advanced THEN word - 1 ELSE word
Since == counter - First * (Epochs * Workers)

(* The barriers of this kernel that a CTA has arrived at. *)
Gone(c)  == done[c] + (IF pc[c] = "wait" THEN 1 ELSE 0)
Leading(m) == {c \in Cta : Gone(c) = m + 1}
Level(m) == (\A c \in Cta : Gone(c) \in {m, m + 1}) /\ Since = m * Workers + Cardinality(Leading(m))

InStep(c) ==
  /\ pc[c] # "start" => call[c] = First /\ stream # <<>> /\ IsKernel(Head(stream))
  /\ pc[c] \in {"start", "check", "copy"} => done[c] = 0
  /\ pc[c] \in {"check", "copy", "advance"} => c = 0
  /\ pc[c] = "advance" => done[c] = 1
  /\ pc[c] \in {"arrive", "wait"} => done[c] < Epochs
  /\ pc[c] = "end" => done[c] = Epochs

(* Nobody is past a barrier that somebody has not arrived at.              *)
Apart == \A c, d \in Cta : done[c] <= Gone(d)

BarrierInv ==
  /\ pc \in [Cta -> Positions] /\ call \in [Cta -> Nat] /\ done \in [Cta -> 0 .. Epochs]
  /\ counter \in Nat
  /\ \A c \in Cta : InStep(c)
  /\ Apart
  /\ \E m \in Nat : Level(m)

(* It is a number, and so is the count of arrivals before it.              *)
LEMMA FirstIs ==
  ASSUME TableInv
  PROVE  /\ First \in Nat /\ word \in Nat /\ word = IF Advanced THEN First + 1 ELSE First
         /\ First * (Epochs * Workers) \in Nat
<1>1. PICK first \in Nat : word = IF Advanced THEN first + 1 ELSE first
  BY DEF TableInv, Mirrored
<1>2. First = first /\ word \in Nat
  BY <1>1 DEF First
<1>3. Epochs * Workers \in Nat
  BY Sizes
<1>4. QED
  BY <1>1, <1>2, <1>3

(* Sets of CTAs have at most Workers members.                              *)
LEMMA CtaFinite ==
  /\ IsFiniteSet(Cta) /\ Cardinality(Cta) = Workers
  /\ \A S \in SUBSET Cta : /\ IsFiniteSet(S) /\ Cardinality(S) \in 0 .. Workers
                           /\ Cardinality(S) = Workers => S = Cta
<1>1. IsFiniteSet(Cta) /\ Cardinality(Cta) = Workers
  BY FS_Interval, Sizes DEF Cta
<1>2. ASSUME NEW S \in SUBSET Cta
      PROVE  /\ IsFiniteSet(S) /\ Cardinality(S) \in 0 .. Workers
             /\ Cardinality(S) = Workers => S = Cta
  <2>1. IsFiniteSet(S) /\ Cardinality(S) <= Workers /\ (Cardinality(S) = Workers => S = Cta)
    BY <1>1, FS_Subset
  <2>2. Cardinality(S) \in Nat
    BY <2>1, FS_CardinalityType
  <2>3. QED
    BY <2>1, <2>2, Sizes
<1>3. QED
  BY <1>1, <1>2

(* Two facts about products.                                               *)
LEMMA ProductMonotonic ==
  ASSUME NEW a \in Nat, NEW b \in Nat, NEW n \in Nat, a <= b
  PROVE  a * n <= b * n /\ a * n \in Nat /\ b * n \in Nat
<1>1. PICK k \in Nat : b = a + k
  BY b - a \in Nat, b = a + (b - a)
<1>2. k * n \in Nat /\ a * n \in Nat
  OBVIOUS
<1>3. b * n = a * n + k * n
  BY <1>1
<1>4. QED
  BY <1>2, <1>3

(* The second one.                                                         *)
LEMMA ProductSuccessor ==
  ASSUME NEW a \in Nat, NEW n \in Nat
  PROVE  (a + 1) * n = a * n + n
OBVIOUS

(* What the counter says of each CTA. *)
LEMMA LevelReached ==
  ASSUME NEW m \in Nat, Level(m), NEW n \in Nat, Since >= n * Workers
  PROVE  \A d \in Cta : Gone(d) >= n
<1>1. Leading(m) \in SUBSET Cta
  BY DEF Leading
<1>2. Cardinality(Leading(m)) \in 0 .. Workers /\ (Cardinality(Leading(m)) = Workers => Leading(m) = Cta)
  BY <1>1, CtaFinite
<1>3. PICK k \in 0 .. Workers : k = Cardinality(Leading(m)) /\ Since = m * Workers + k
  BY <1>2 DEF Level
<1>4. \A d \in Cta : Gone(d) \in {m, m + 1}
  BY DEF Level
<1>5. CASE n <= m
  BY <1>4, <1>5
<1>6. PICK mw \in Nat : mw = m * Workers
  BY Sizes
<1>7. Since = mw + k
  BY <1>3, <1>6
<1>8. CASE n = m + 1
  <2>1. n * Workers = mw + Workers
    BY <1>6, <1>8, ProductSuccessor, Sizes
  <2>2. mw + k >= mw + Workers
    BY <1>7, <2>1
  <2>3. k = Workers
    BY <2>2, Sizes
  <2>4. QED
    BY <1>2, <1>3, <1>8, <2>3 DEF Leading
<1>9. CASE n > m + 1
  <2>1. (m + 2) * Workers <= n * Workers /\ n * Workers \in Nat
    BY <1>9, m + 2 <= n, ProductMonotonic, Sizes
  <2>2. (m + 2) * Workers = m * Workers + Workers + Workers
    BY ProductSuccessor, Sizes
  <2>3. PICK nw \in Nat : nw = n * Workers
    BY <2>1
  <2>4. mw + k >= nw /\ mw + Workers + Workers <= nw
    BY <1>6, <1>7, <2>1, <2>2, <2>3
  <2>5. FALSE
    BY <2>4, Sizes
  <2>6. QED
    BY <2>5
<1>10. QED
  BY <1>5, <1>8, <1>9

(* A CTA waits for its barrier's share of the arrivals of this kernel.     *)
LEMMA TargetReached ==
  ASSUME NEW f \in Nat, NEW d \in Nat, NEW n \in Nat,
         n >= (f * Epochs + d + 1) * Workers
  PROVE  n - f * (Epochs * Workers) >= (d + 1) * Workers
<1>1. PICK e \in Nat, w \in Nat : e = Epochs /\ w = Workers
  BY Sizes
<1>2. (f * e + d + 1) * w = (f * (e * w)) + ((d + 1) * w)
  OBVIOUS
<1>3. f * (e * w) \in Nat /\ (d + 1) * w \in Nat
  OBVIOUS
<1>4. QED
  BY <1>1, <1>2, <1>3

(* It holds before the first call.                                         *)
LEMMA BarrierInit ==
  ASSUME Init
  PROVE  BarrierInv
<1>1. /\ \A c \in Cta : pc[c] = "start" /\ done[c] = 0 /\ call[c] = 0
      /\ word = 0 /\ counter = 0
  BY DEF Init
<1>2. \A c \in Cta : Gone(c) = 0
  BY <1>1 DEF Gone
<1>3. First = 0
  BY <1>1, Sizes DEF First, Advanced
<1>4. Level(0)
  <2>1. Leading(0) = {}
    BY <1>2 DEF Leading
  <2>2. Cardinality(Leading(0)) = 0
    BY <2>1, FS_EmptySet
  <2>3. Since = 0
    <3>1. 0 * (Epochs * Workers) = 0
      BY Sizes
    <3>2. QED
      BY <1>1, <1>3, <3>1 DEF Since
  <2>4. 0 * Workers = 0
    BY Sizes
  <2>5. QED
    BY <1>2, <2>2, <2>3, <2>4 DEF Level
<1>5. pc \in [Cta -> Positions] /\ call \in [Cta -> Nat] /\ done \in [Cta -> 0 .. Epochs]
  BY Sizes DEF Init, Positions
<1>6. \A c \in Cta : InStep(c)
  BY <1>1 DEF InStep
<1>7. Apart
  BY <1>1, <1>2 DEF Apart
<1>8. QED
  BY <1>1, <1>4, <1>5, <1>6, <1>7 DEF BarrierInv

-----------------------------------------------------------------------------
(* A step that leaves the words and the CTAs alone. *)
LEMMA BarrierKept ==
  ASSUME BarrierInv, UNCHANGED <<word, counter, pc, call, done>>,
         stream # <<>> => stream' # <<>> /\ Head(stream') = Head(stream)
  PROVE  BarrierInv'
<1>1. First' = First /\ Since' = Since
  BY DEF First, Since, Advanced
<1>2. ASSUME NEW c \in Cta PROVE Gone(c)' = Gone(c)
  BY DEF Gone
<1>3. ASSUME NEW c \in Cta PROVE InStep(c)'
  <2>1. InStep(c)
    BY DEF BarrierInv
  <2>2. QED
    BY <1>1, <2>1 DEF InStep, IsKernel
<1>4. Apart'
  BY <1>2 DEF BarrierInv, Apart
<1>5. PICK m \in Nat : Level(m)
  BY DEF BarrierInv
<1>6. Leading(m)' = Leading(m)
  BY <1>2 DEF Leading
<1>7. Level(m)'
  BY <1>1, <1>2, <1>5, <1>6 DEF Level
<1>8. QED
  BY <1>3, <1>4, <1>7 DEF BarrierInv

-----------------------------------------------------------------------------
(* Steps of the kernel that runs. *)

(* A step of c at which it arrives nowhere. *)
LEMMA CtaAdvances ==
  ASSUME BarrierInv, NEW c \in Cta, stream' = stream, First' = First, counter' = counter,
         pc' \in [Cta -> Positions], call' \in [Cta -> Nat], done' \in [Cta -> 0 .. Epochs],
         \A d \in Cta \ {c} : pc'[d] = pc[d] /\ call'[d] = call[d] /\ done'[d] = done[d],
         Gone(c)' = Gone(c), InStep(c)', \A d \in Cta : done'[c] <= Gone(d)
  PROVE  BarrierInv'
<1>1. ASSUME NEW d \in Cta \ {c} PROVE InStep(d)' /\ Gone(d)' = Gone(d)
  <2>1. InStep(d)
    BY DEF BarrierInv
  <2>2. QED
    BY <2>1 DEF InStep, IsKernel, Gone
<1>2. \A d \in Cta : Gone(d)' = Gone(d)
  BY <1>1
<1>3. \A d \in Cta : InStep(d)'
  BY <1>1
<1>4. Apart'
  BY <1>2 DEF Apart, BarrierInv
<1>5. PICK m \in Nat : Level(m)
  BY DEF BarrierInv
<1>6. Leading(m)' = Leading(m) /\ Since' = Since
  BY <1>2 DEF Leading, Since
<1>7. Level(m)'
  BY <1>2, <1>5, <1>6 DEF Level
<1>8. QED
  BY <1>3, <1>4, <1>7 DEF BarrierInv

(* The first CTA to start has the counter before block 0 advances it.      *)
LEMMA NotAdvanced ==
  ASSUME TableInv, BarrierInv, NEW c \in Cta, pc[c] = "start"
  PROVE  ~ Advanced /\ word = First
<1>1. done[c] = 0 /\ Gone(c) = 0 /\ 0 \in Cta
  BY Sizes DEF BarrierInv, InStep, Gone
<1>2. done[0] <= 0 /\ done[0] \in Nat
  BY <1>1, Sizes DEF BarrierInv, Apart
<1>3. ~ Advanced
  BY <1>2 DEF Advanced
<1>4. QED
  BY <1>3 DEF First

(* A CTA reads the call counter: nobody is past the first barrier.         *)
LEMMA ReadCallBarrier ==
  ASSUME TableInv, BarrierInv, NEW c \in Cta, ReadCall(c)
  PROVE  BarrierInv'
<1>1. PICK at : /\ at = IF c = 0 THEN "check" ELSE "arrive"
  OBVIOUS
<1>2. /\ pc[c] = "start" /\ pc' = [pc EXCEPT ![c] = at]
      /\ call' = [call EXCEPT ![c] = word] /\ stream # <<>> /\ IsKernel(Head(stream))
      /\ UNCHANGED <<stream, word, counter, done>>
  BY <1>1 DEF ReadCall, Running, Goto
<1>3. ~ Advanced /\ word = First /\ First \in Nat
  BY <1>2, NotAdvanced, FirstIs
<1>4. /\ pc \in [Cta -> Positions] /\ call \in [Cta -> Nat] /\ done \in [Cta -> 0 .. Epochs]
      /\ 0 \in Cta /\ done[c] = 0 /\ Apart
  BY <1>2, Sizes DEF BarrierInv, InStep
<1>5. /\ pc' \in [Cta -> Positions] /\ call' \in [Cta -> Nat] /\ done' \in [Cta -> 0 .. Epochs]
      /\ pc'[c] = at /\ call'[c] = word /\ done'[c] = 0
      /\ \A d \in Cta \ {c} : pc'[d] = pc[d] /\ call'[d] = call[d] /\ done'[d] = done[d]
  BY <1>1, <1>2, <1>3, <1>4 DEF Positions
<1>6. ~ Advanced'
  BY <1>1, <1>3, <1>4, <1>5 DEF Advanced
<1>7. First' = First
  BY <1>2, <1>3, <1>6 DEF First
<1>8. Gone(c)' = Gone(c)
  BY <1>1, <1>2, <1>4, <1>5 DEF Gone
<1>9. InStep(c)'
  BY <1>1, <1>2, <1>3, <1>5, <1>7, Sizes DEF InStep, IsKernel
<1>10. \A d \in Cta : done'[c] <= Gone(d)
  BY <1>4, <1>5 DEF Apart
<1>11. QED
  BY <1>2, <1>5, <1>7, <1>8, <1>9, <1>10, CtaAdvances DEF BarrierInv

(* Block 0 checks, copies or advances the call counter.                    *)
LEMMA Block0Barrier ==
  ASSUME TableInv, BarrierInv, Check \/ Copy \/ Advance
  PROVE  BarrierInv'
<1>1. 0 \in Cta /\ InStep(0) /\ Apart
  BY Sizes DEF BarrierInv
<1>2. PICK at \in Positions :
         /\ pc' = [pc EXCEPT ![0] = at]
         /\ \/ pc[0] = "check" /\ at = "copy" /\ word' = word
            \/ pc[0] = "copy" /\ at = "arrive" /\ word' = word
            \/ pc[0] = "advance" /\ at = Onward(done[0]) /\ word' = call[0] + 1
         /\ UNCHANGED <<stream, counter, call, done>>
  <2>1. CASE Check
    <3>1. Running(0, "check")
      BY <2>1 DEF Check
    <3>2. QED
      BY <2>1, <3>1, StampFound DEF Check, Running, Goto, Positions
  <2>2. CASE Copy
    BY <2>2 DEF Copy, Running, Goto, Positions
  <2>3. CASE Advance
    BY <2>3 DEF Advance, Running, Goto, Onward, Positions
  <2>4. QED
    BY <2>1, <2>2, <2>3
<1>3. /\ pc \in [Cta -> Positions] /\ call \in [Cta -> Nat] /\ done \in [Cta -> 0 .. Epochs]
      /\ done[0] \in 0 .. Epochs
  BY <1>1 DEF BarrierInv
<1>4. /\ pc' \in [Cta -> Positions] /\ pc'[0] = at
      /\ \A d \in Cta \ {0} : pc'[d] = pc[d]
  BY <1>1, <1>2, <1>3
<1>5. /\ pc[0] \in {"check", "copy"} => done[0] = 0
      /\ pc[0] = "advance" => done[0] = 1
      /\ call[0] = First /\ stream # <<>> /\ IsKernel(Head(stream))
  BY <1>1, <1>2 DEF InStep
<1>6. First' = First
  <2>1. CASE pc[0] \in {"check", "copy"}
    <3>1. ~ Advanced /\ ~ Advanced' /\ word' = word
      BY <1>2, <1>5, <2>1 DEF Advanced
    <3>2. QED
      BY <3>1 DEF First
  <2>2. CASE pc[0] = "advance"
    <3>1. ~ Advanced /\ word' = First + 1 /\ at # "advance"
      BY <1>2, <1>5, <2>2 DEF Advanced, Onward
    <3>2. Advanced'
      BY <1>2, <1>4, <1>5, <2>2, <3>1 DEF Advanced
    <3>3. First \in Nat
      BY FirstIs
    <3>4. First' = word' - 1
      BY <3>2 DEF First
    <3>5. QED
      BY <3>1, <3>3, <3>4
  <2>3. QED
    BY <1>2, <2>1, <2>2
<1>7. Gone(0)' = Gone(0)
  BY <1>2, <1>4 DEF Gone, Onward
<1>8. InStep(0)'
  <2>1. call'[0] = First' /\ done'[0] = done[0] /\ stream' # <<>> /\ IsKernel(Head(stream'))
    BY <1>2, <1>5, <1>6 DEF IsKernel
  <2>2. CASE at = "copy"
    BY <1>2, <1>4, <1>5, <2>1, <2>2 DEF InStep, Onward, IsKernel
  <2>3. CASE at = "arrive"
    <3>1. done[0] < Epochs
      BY <1>2, <1>3, <1>5, <2>3, Sizes DEF Onward
    <3>2. QED
      BY <1>4, <2>1, <2>3, <3>1 DEF InStep, IsKernel
  <2>4. CASE at = "end"
    <3>1. done[0] = Epochs
      BY <1>2, <2>4 DEF Onward
    <3>2. QED
      BY <1>4, <2>1, <2>4, <3>1 DEF InStep, IsKernel
  <2>5. QED
    BY <1>2, <2>2, <2>3, <2>4 DEF Onward
<1>9. \A d \in Cta : done'[0] <= Gone(d)
  BY <1>1, <1>2 DEF Apart
<1>10. QED
  BY <1>1, <1>2, <1>3, <1>4, <1>6, <1>7, <1>8, <1>9, CtaAdvances

(* A CTA leaves a barrier: the counter has all arrivals.                   *)
LEMMA WaitBarrier ==
  ASSUME TableInv, BarrierInv, NEW c \in Cta, Wait(c)
  PROVE  BarrierInv'
<1>1. PICK at : at = IF c = 0 /\ done[c] = 0 THEN "advance" ELSE Onward(done[c] + 1)
  OBVIOUS
<1>2. /\ pc[c] = "wait" /\ pc' = [pc EXCEPT ![c] = at] /\ counter >= Target(c)
      /\ done' = [done EXCEPT ![c] = done[c] + 1] /\ stream # <<>> /\ IsKernel(Head(stream))
      /\ UNCHANGED <<stream, word, counter, call>>
  BY <1>1 DEF Wait, Running, Goto
<1>3. /\ pc \in [Cta -> Positions] /\ call \in [Cta -> Nat] /\ done \in [Cta -> 0 .. Epochs]
      /\ 0 \in Cta /\ done[c] < Epochs /\ done[c] \in Nat /\ counter \in Nat
      /\ call[c] = First /\ First \in Nat
  <2>1. /\ pc \in [Cta -> Positions] /\ call \in [Cta -> Nat] /\ done \in [Cta -> 0 .. Epochs]
        /\ counter \in Nat /\ InStep(c)
    BY DEF BarrierInv
  <2>2. done[c] < Epochs /\ call[c] = First
    BY <1>2, <2>1 DEF InStep
  <2>3. done[c] \in Nat
    BY <2>1
  <2>4. QED
    BY <2>1, <2>2, <2>3, Sizes, FirstIs
<1>4. at \in {"advance", "end", "arrive"} /\ (at = "advance" <=> c = 0 /\ done[c] = 0)
  BY <1>1 DEF Onward
<1>5. at # "advance" => at = Onward(done[c] + 1)
  BY <1>1
<1>6. /\ pc' \in [Cta -> Positions] /\ done' \in [Cta -> 0 .. Epochs]
      /\ pc'[c] = at /\ done'[c] = done[c] + 1
      /\ \A d \in Cta \ {c} : pc'[d] = pc[d] /\ call'[d] = call[d] /\ done'[d] = done[d]
  <2>1. at \in Positions
    BY <1>4 DEF Positions
  <2>2. done[c] + 1 \in 0 .. Epochs
    BY <1>3, Sizes
  <2>3. QED
    BY <1>2, <1>3, <2>1, <2>2
<1>7. Advanced' = Advanced
  <2>1. CASE c = 0
    BY <1>2, <1>3, <1>4, <1>6, <2>1 DEF Advanced
  <2>2. CASE c # 0
    BY <1>3, <1>6, <2>2 DEF Advanced
  <2>3. QED
    BY <2>1, <2>2
<1>8. First' = First
  BY <1>2, <1>7 DEF First
<1>9. Gone(c)' = Gone(c)
  BY <1>2, <1>3, <1>4, <1>6 DEF Gone
<1>10. InStep(c)'
  <2>1. call'[c] = First' /\ stream' = stream
    BY <1>2, <1>3, <1>8
  <2>2. at = "arrive" => done[c] + 1 < Epochs
    BY <1>3, <1>5, Sizes DEF Onward
  <2>3. at = "end" => done[c] + 1 = Epochs
    BY <1>4, <1>5 DEF Onward
  <2>4. at = "advance" => c = 0 /\ done[c] + 1 = 1
    BY <1>3, <1>4
  <2>5. QED
    BY <1>2, <1>4, <1>6, <2>1, <2>2, <2>3, <2>4 DEF InStep, IsKernel
<1>11. \A d \in Cta : Gone(d) >= done[c] + 1
  <2>1. PICK m \in Nat : Level(m)
    BY DEF BarrierInv
  <2>2. counter >= (First * Epochs + done[c] + 1) * Workers
    BY <1>2, <1>3 DEF Target
  <2>3. Since >= (done[c] + 1) * Workers
    BY <1>3, <2>2, TargetReached DEF Since
  <2>4. done[c] + 1 \in Nat
    BY <1>3
  <2>5. QED
    BY <2>1, <2>3, <2>4, LevelReached
<1>12. \A d \in Cta : done'[c] <= Gone(d)
  <2>1. ASSUME NEW d \in Cta PROVE done'[c] <= Gone(d)
    <3>1. Gone(d) >= done[c] + 1
      BY <1>11
    <3>2. Gone(d) \in Nat
      BY <1>3 DEF Gone
    <3>3. QED
      BY <1>3, <1>6, <3>1, <3>2
  <2>2. QED
    BY <2>1
<1>13. QED
  BY <1>2, <1>3, <1>6, <1>8, <1>9, <1>10, <1>12, CtaAdvances

(* A CTA arrives: one more is ahead, or it is the first of the next level. *)
LEMMA ArriveBarrier ==
  ASSUME TableInv, BarrierInv, NEW c \in Cta, Arrive(c)
  PROVE  BarrierInv'
<1>1. /\ pc[c] = "arrive" /\ pc' = [pc EXCEPT ![c] = "wait"] /\ counter' = counter + 1
      /\ stream # <<>> /\ IsKernel(Head(stream))
      /\ UNCHANGED <<stream, word, call, done>>
  BY DEF Arrive, Running, Goto
<1>2. /\ pc \in [Cta -> Positions] /\ call \in [Cta -> Nat] /\ done \in [Cta -> 0 .. Epochs]
      /\ counter \in Nat /\ 0 \in Cta /\ Apart
  BY Sizes DEF BarrierInv
<1>3. /\ pc' \in [Cta -> Positions] /\ pc'[c] = "wait"
      /\ \A d \in Cta \ {c} : pc'[d] = pc[d]
  BY <1>1, <1>2 DEF Positions
<1>4. Advanced' = Advanced
  BY <1>1, <1>2, <1>3 DEF Advanced
<1>5. First' = First /\ First * (Epochs * Workers) \in Nat
  BY <1>1, <1>4, FirstIs DEF First
<1>6. Since' = Since + 1
  BY <1>1, <1>2, <1>5 DEF Since
<1>7. /\ Gone(c) = done[c] /\ Gone(c)' = done[c] + 1 /\ done[c] \in Nat
      /\ \A d \in Cta \ {c} : Gone(d)' = Gone(d)
  BY <1>1, <1>2, <1>3 DEF Gone
<1>8. ASSUME NEW d \in Cta PROVE InStep(d)'
  <2>1. InStep(d) /\ InStep(c)
    BY DEF BarrierInv
  <2>2. CASE d = c
    BY <1>1, <1>3, <1>5, <2>1, <2>2 DEF InStep, IsKernel
  <2>3. CASE d # c
    BY <1>1, <1>3, <1>5, <2>1, <2>3 DEF InStep, IsKernel
  <2>4. QED
    BY <2>2, <2>3
<1>9. Apart'
  <2>1. \A d \in Cta : Gone(d) \in Nat /\ (Gone(d)' = Gone(d) \/ Gone(d)' = Gone(d) + 1)
    BY <1>2, <1>7 DEF Gone
  <2>2. \A b, d \in Cta : done[b] <= Gone(d) /\ done[b] \in Nat
    BY <1>2 DEF Apart
  <2>3. ASSUME NEW b \in Cta, NEW d \in Cta PROVE done'[b] <= Gone(d)'
    <3>1. Gone(d) \in Nat /\ (Gone(d)' = Gone(d) \/ Gone(d)' = Gone(d) + 1)
      BY <2>1
    <3>2. done[b] <= Gone(d) /\ done[b] \in Nat /\ done'[b] = done[b]
      BY <1>1, <2>2
    <3>3. QED
      BY <3>1, <3>2
  <2>4. QED
    BY <2>3 DEF Apart
<1>10. \E k \in Nat : Level(k)'
  <2>1. PICK m \in Nat : Level(m)
    BY DEF BarrierInv
  <2>2. /\ \A d \in Cta : Gone(d) \in {m, m + 1}
        /\ Since = m * Workers + Cardinality(Leading(m))
    BY <2>1 DEF Level
  <2>3. Leading(m) \in SUBSET Cta /\ m * Workers \in Nat
    BY Sizes DEF Leading
  <2>4. CASE Gone(c) = m
    <3>1. Leading(m)' = Leading(m) \cup {c} /\ c \notin Leading(m)
      BY <1>7, <2>2, <2>4 DEF Leading
    <3>2. Cardinality(Leading(m)') = Cardinality(Leading(m)) + 1
      BY <2>3, <3>1, CtaFinite, FS_AddElement
    <3>3. Cardinality(Leading(m)) \in Nat
      BY <2>3, CtaFinite
    <3>4. Since' = m * Workers + Cardinality(Leading(m)')
      BY <1>6, <2>2, <2>3, <3>2, <3>3
    <3>5. \A d \in Cta : Gone(d)' \in {m, m + 1}
      BY <1>7, <2>2, <2>4
    <3>6. Level(m)'
      BY <3>4, <3>5 DEF Level
    <3>7. QED
      BY <3>6
  <2>5. CASE Gone(c) = m + 1
    <3>1. PICK k \in Nat : k = m + 1
      OBVIOUS
    <3>2. \A d \in Cta : Gone(d) = k
      <4>1. \A d \in Cta : done[c] <= Gone(d)
        BY <1>2 DEF Apart
      <4>2. QED
        BY <1>7, <2>2, <2>5, <3>1, <4>1
    <3>3. Leading(m) = Cta
      BY <3>1, <3>2 DEF Leading
    <3>4. Since = k * Workers /\ k * Workers \in Nat
      <4>1. Since = m * Workers + Workers
        BY <2>2, <3>3, CtaFinite
      <4>2. (m + 1) * Workers = m * Workers + Workers
        BY ProductSuccessor, Sizes
      <4>3. QED
        BY <2>3, <3>1, <4>1, <4>2, Sizes
    <3>5. Leading(k)' = {c}
      BY <1>7, <2>5, <3>1, <3>2 DEF Leading
    <3>6. Cardinality(Leading(k)') = 1
      BY <3>5, FS_Singleton
    <3>7. \A d \in Cta : Gone(d)' \in {k, k + 1}
      BY <1>7, <2>5, <3>1, <3>2
    <3>8. Since' = k * Workers + Cardinality(Leading(k)')
      BY <1>6, <3>4, <3>6
    <3>9. Level(k)'
      BY <3>7, <3>8 DEF Level
    <3>10. QED
      BY <3>9
  <2>6. QED
    BY <2>2, <2>4, <2>5
<1>11. counter' \in Nat
  BY <1>1, <1>2
<1>12. QED
  BY <1>1, <1>2, <1>3, <1>8, <1>9, <1>10, <1>11 DEF BarrierInv

-----------------------------------------------------------------------------
(* After the step all CTAs are at the start of a kernel, and the counter   *)
(* is where this kernel counts from.                                       *)
LEMMA BarrierRestarts ==
  ASSUME pc' \in [Cta -> Positions], call' \in [Cta -> Nat], done' \in [Cta -> 0 .. Epochs],
         counter' \in Nat, \A c \in Cta : pc'[c] = "start" /\ done'[c] = 0,
         word' \in Nat, counter' = word' * (Epochs * Workers)
  PROVE  BarrierInv'
<1>1. \A c \in Cta : Gone(c)' = 0
  BY DEF Gone
<1>2. First' = word'
  <2>1. done'[0] = 0
    BY Sizes
  <2>2. ~ Advanced'
    BY <2>1 DEF Advanced
  <2>3. QED
    BY <2>2 DEF First
<1>3. Level(0)'
  <2>1. Leading(0)' = {}
    BY <1>1 DEF Leading
  <2>2. Cardinality(Leading(0)') = 0
    BY <2>1, FS_EmptySet
  <2>3. Since' = 0
    BY <1>2 DEF Since
  <2>4. 0 * Workers = 0
    BY Sizes
  <2>5. QED
    BY <1>1, <2>2, <2>3, <2>4 DEF Level
<1>4. \A c \in Cta : InStep(c)'
  BY DEF InStep
<1>5. Apart'
  BY <1>1 DEF Apart
<1>6. QED
  BY <1>3, <1>4, <1>5 DEF BarrierInv

(* A reset or an upload runs between kernels.                              *)
LEMMA HeadBarrier ==
  ASSUME TableInv, BarrierInv, ResetReady \/ UploadTable
  PROVE  BarrierInv'
<1>1. /\ stream # <<>> /\ ~ IsKernel(Head(stream)) /\ UNCHANGED <<pc, call, done>>
      /\ \/ counter' = 0 /\ word' = 0
         \/ counter' = counter /\ word' = word
  BY DEF ResetReady, UploadTable, IsKernel
<1>2. /\ pc \in [Cta -> Positions] /\ call \in [Cta -> Nat] /\ done \in [Cta -> 0 .. Epochs]
      /\ counter \in Nat /\ 0 \in Cta
  BY Sizes DEF BarrierInv
<1>3. \A c \in Cta : pc[c] = "start" /\ done[c] = 0
  BY <1>1 DEF BarrierInv, InStep
<1>4. word = First /\ word \in Nat
  BY <1>2, <1>3, NotAdvanced, FirstIs
<1>5. counter = word * (Epochs * Workers)
  <2>1. \A c \in Cta : Gone(c) = 0
    BY <1>3 DEF Gone
  <2>2. PICK m \in Nat : Level(m)
    BY DEF BarrierInv
  <2>3. m = 0
    BY <1>2, <2>1, <2>2 DEF Level
  <2>4. Leading(m) = {}
    BY <2>1, <2>3 DEF Leading
  <2>5. Since = 0 * Workers + 0
    BY <2>2, <2>3, <2>4, FS_EmptySet DEF Level
  <2>6. 0 * Workers = 0
    BY Sizes
  <2>7. Since = 0
    BY <2>5, <2>6
  <2>8. First * (Epochs * Workers) \in Nat
    BY FirstIs
  <2>9. QED
    BY <1>2, <1>4, <2>7, <2>8 DEF Since
<1>6. 0 * (Epochs * Workers) = 0
  BY Sizes
<1>7. counter' \in Nat /\ word' \in Nat /\ counter' = word' * (Epochs * Workers)
  BY <1>1, <1>2, <1>4, <1>5, <1>6
<1>8. QED
  BY <1>1, <1>2, <1>3, <1>7, BarrierRestarts

(* A kernel ends with Epochs * Workers arrivals more.                      *)
LEMMA KernelEndsBarrier ==
  ASSUME TableInv, BarrierInv, KernelEnds
  PROVE  BarrierInv'
<1>1. \A c \in Cta : pc[c] = "end"
  BY DEF KernelEnds, Running
<1>2. /\ pc' = [c \in Cta |-> "start"] /\ done' = [c \in Cta |-> 0]
      /\ UNCHANGED <<word, counter, call>>
  BY DEF KernelEnds
<1>3. /\ call \in [Cta -> Nat] /\ done \in [Cta -> 0 .. Epochs] /\ counter \in Nat /\ 0 \in Cta
  BY Sizes DEF BarrierInv
<1>4. \A c \in Cta : done[c] = Epochs /\ Gone(c) = Epochs
  <2>1. ASSUME NEW c \in Cta PROVE done[c] = Epochs
    <3>1. InStep(c)
      BY DEF BarrierInv
    <3>2. QED
      BY <1>1, <3>1 DEF InStep
  <2>2. QED
    BY <1>1, <2>1, Sizes DEF Gone
<1>5. Advanced
  BY <1>1, <1>3, <1>4, Sizes DEF Advanced
<1>6. word = First + 1 /\ First \in Nat /\ word \in Nat
  BY <1>5, FirstIs
<1>7. Since = Epochs * Workers
  <2>1. PICK m \in Nat : Level(m)
    BY DEF BarrierInv
  <2>2. /\ \A c \in Cta : Gone(c) \in {m, m + 1}
        /\ Since = m * Workers + Cardinality(Leading(m))
    BY <2>1 DEF Level
  <2>3. CASE m = Epochs
    <3>1. Leading(m) = {}
      BY <1>4, <2>3, Sizes DEF Leading
    <3>2. Since = m * Workers + 0
      BY <2>2, <3>1, FS_EmptySet
    <3>3. m * Workers \in Nat
      BY Sizes
    <3>4. QED
      BY <2>3, <3>2, <3>3
  <2>4. CASE m + 1 = Epochs
    <3>1. Leading(m) = Cta
      BY <1>4, <2>4 DEF Leading
    <3>2. Since = m * Workers + Workers
      BY <2>2, <3>1, CtaFinite
    <3>3. (m + 1) * Workers = m * Workers + Workers
      BY ProductSuccessor, Sizes
    <3>4. QED
      BY <2>4, <3>2, <3>3
  <2>5. QED
    BY <1>3, <1>4, <2>2, <2>3, <2>4, Sizes
<1>8. counter = word * (Epochs * Workers)
  <2>1. PICK e \in Nat : e = Epochs * Workers
    BY Sizes
  <2>2. First * e \in Nat /\ (First + 1) * e = First * e + e
    BY <1>6, ProductSuccessor
  <2>3. counter - First * e = e
    BY <1>7, <2>1 DEF Since
  <2>4. counter = First * e + e
    BY <1>3, <2>1, <2>2, <2>3
  <2>5. QED
    BY <1>6, <2>1, <2>2, <2>4
<1>9. /\ pc' \in [Cta -> Positions] /\ call' \in [Cta -> Nat] /\ done' \in [Cta -> 0 .. Epochs]
      /\ counter' \in Nat /\ \A c \in Cta : pc'[c] = "start" /\ done'[c] = 0
  BY <1>2, <1>3, Sizes DEF Positions
<1>10. QED
  BY <1>2, <1>6, <1>8, <1>9, BarrierRestarts

-----------------------------------------------------------------------------
(* The table once block 0 has copied its row. *)
Copied ==
  pc[0] \notin {"start", "check", "copy"} =>
    \A place \in ColumnPlaces(plan) : table[place] = Head(stream).meant[place]

OperandInv == TableInv /\ AddressInv /\ BarrierInv /\ Copied

(* Steps of the host leave the kernel that runs and its table.             *)
LEMMA HostOperands ==
  ASSUME OperandInv, OneGraph, TableInv', HostStep
  PROVE  OperandInv'
<1>1. TableInv /\ AddressInv /\ BarrierInv /\ Copied /\ HostSide /\ Block0
  BY DEF OperandInv, TableInv
<1>2. UNCHANGED <<plan, device>>
  BY DEF HostStep, Prepare, PrepareLaunch, RunLaunch, Capture, CaptureBinding, Replay, binding
<1>3. /\ AddressInv'
      /\ stream # <<>> => stream' # <<>> /\ Head(stream') = Head(stream)
  <2>1. ASSUME NEW inputs \in Arguments, Prepare(inputs)
        PROVE  AddressInv' /\ (stream # <<>> => stream' # <<>> /\ Head(stream') = Head(stream))
    BY <1>1, <2>1, PrepareAddresses
  <2>2. CASE RunLaunch
    BY <1>1, <2>2, RunLaunchAddresses
  <2>3. CASE Capture
    BY <1>1, <2>3, CaptureAddresses
  <2>4. CASE Replay
    BY <1>1, <2>4, ReplayAddresses
  <2>5. QED
    BY <2>1, <2>2, <2>3, <2>4 DEF HostStep
<1>4. UNCHANGED <<word, counter, table, pc, call, done>>
  BY <1>2 DEF device
<1>5. BarrierInv'
  BY <1>1, <1>3, <1>4, BarrierKept
<1>6. Copied'
  <2>1. pc[0] # "start" => Head(stream') = Head(stream)
    BY <1>1, <1>3 DEF Block0
  <2>2. QED
    BY <1>1, <1>2, <1>4, <2>1 DEF Copied
<1>7. QED
  BY <1>3, <1>5, <1>6 DEF OperandInv

(* Operations leave the stream with block 0 at the start.                  *)
LEMMA StreamOperands ==
  ASSUME OperandInv, TableInv', ResetReady \/ UploadTable \/ KernelEnds
  PROVE  OperandInv'
<1>1. TableInv /\ AddressInv /\ BarrierInv /\ 0 \in Cta
  BY Sizes DEF OperandInv
<1>2. /\ stream # <<>> /\ stream' = Tail(stream) /\ UNCHANGED host
      /\ \/ table' = table /\ Head(stream).op = "reset"
         \/ table' = table /\ IsKernel(Head(stream))
         \/ table' = Head(stream).addresses /\ Head(stream).op = "upload"
  BY <1>1 DEF ResetReady, UploadTable, KernelEnds, Running
<1>3. AddressInv'
  BY <1>1, <1>2, HeadAddresses
<1>4. BarrierInv'
  BY <1>1, HeadBarrier, KernelEndsBarrier
<1>5. pc'[0] = "start"
  <2>1. CASE KernelEnds
    BY <1>1, <2>1 DEF KernelEnds
  <2>2. CASE ResetReady \/ UploadTable
    BY <1>1, <2>2 DEF BarrierInv, InStep, ResetReady, UploadTable, IsKernel
  <2>3. QED
    BY <2>1, <2>2
<1>6. Copied'
  BY <1>5 DEF Copied
<1>7. QED
  BY <1>3, <1>4, <1>6 DEF OperandInv

(* Of the steps of a kernel only Copy changes the table.                   *)
LEMMA CtaOperands ==
  ASSUME OperandInv, TableInv', NEW c \in Cta, CtaStep(c)
  PROVE  OperandInv'
<1>1. TableInv /\ AddressInv /\ BarrierInv /\ Copied /\ 0 \in Cta /\ pc \in [Cta -> Positions]
  BY Sizes DEF OperandInv, BarrierInv
<1>2. BarrierInv'
  BY <1>1, ReadCallBarrier, ArriveBarrier, WaitBarrier, Block0Barrier DEF CtaStep
<1>3. CASE Copy
  <2>1. /\ AddressInv'
        /\ \A place \in ColumnPlaces(plan) : table'[place] = Head(stream).meant[place]
    BY <1>1, <1>3, CopyAddresses
  <2>2. UNCHANGED <<stream, plan>>
    BY <1>3 DEF Copy, host, binding
  <2>3. Copied'
    BY <2>1, <2>2 DEF Copied
  <2>4. QED
    BY <1>2, <2>1, <2>3 DEF OperandInv
<1>4. CASE ReadCall(c) \/ Arrive(c) \/ Wait(c) \/ Check \/ Advance
  <2>1. UNCHANGED <<host, stream, table>>
    BY <1>4 DEF ReadCall, Arrive, Wait, Check, Advance
  <2>2. AddressInv'
    BY <1>1, <2>1, AddressesKept
  <2>3. pc'[0] \notin {"start", "check", "copy"} => pc[0] \notin {"start", "check", "copy"}
    <3>1. CASE ReadCall(c)
      BY <1>1, <3>1 DEF ReadCall, Goto, Running
    <3>2. CASE Arrive(c)
      BY <1>1, <3>2 DEF Arrive, Goto, Running
    <3>3. CASE Wait(c)
      BY <1>1, <3>3 DEF Wait, Goto, Running
    <3>4. CASE Check
      BY <1>1, <3>4 DEF Check, Goto, Running
    <3>5. CASE Advance
      BY <1>1, <3>5 DEF Advance, Goto, Running
    <3>6. QED
      BY <1>4, <3>1, <3>2, <3>3, <3>4, <3>5
  <2>4. plan' = plan
    BY <2>1 DEF host, binding
  <2>5. Copied'
    BY <1>1, <2>1, <2>3, <2>4 DEF Copied
  <2>6. QED
    BY <1>2, <2>2, <2>5 DEF OperandInv
<1>5. QED
  BY <1>3, <1>4 DEF CtaStep

(* All steps.                                                              *)
LEMMA OperandStep ==
  ASSUME OperandInv, OneGraph, [Next]_vars
  PROVE  OperandInv'
<1>1. TableInv'
  BY TableStep DEF OperandInv
<1>2. CASE UNCHANGED vars
  <2>1. UNCHANGED <<host, stream, table, word, counter, pc, call, done>>
    BY <1>2 DEF vars, device
  <2>2. AddressInv'
    BY <2>1, AddressesKept DEF OperandInv
  <2>3. BarrierInv'
    BY <2>1, BarrierKept DEF OperandInv
  <2>4. Copied'
    BY <2>1 DEF OperandInv, Copied, host, binding
  <2>5. QED
    BY <1>1, <2>2, <2>3, <2>4 DEF OperandInv
<1>3. CASE HostDone
  BY <1>2, <1>3 DEF HostDone
<1>4. QED
  BY <1>1, <1>2, <1>3, HostOperands, StreamOperands, CtaOperands DEF Next, DeviceStep

(* The initial states.                                                     *)
LEMMA OperandInit ==
  ASSUME Init, OneGraph, SoundPlans
  PROVE  OperandInv
<1>1. Copied
  BY Sizes DEF Init, Copied
<1>2. QED
  BY <1>1, TableInit, AddressInit, BarrierInit DEF OperandInv

(* Hence in every state.                                                   *)
LEMMA OperandInvariance == Spec /\ OneGraph /\ SoundPlans => []OperandInv
<1> DEFINE I == OneGraph /\ OperandInv
<1>1. Init /\ OneGraph /\ SoundPlans => I
  BY OperandInit
<1>2. I /\ [Next]_vars => I'
  <2>1. OneGraph => OneGraph'
    BY DEF OneGraph
  <2>2. QED
    BY <2>1, OperandStep
<1>3. I => OperandInv
  OBVIOUS
<1> HIDE DEF I
<1>4. QED
  BY <1>1, <1>2, <1>3, PTL DEF Spec

-----------------------------------------------------------------------------
(* The theorems. *)

(* Every operation enqueued will find the counter at its number, and every *)
(* launch enqueued or prepared finds its ring entry stamped with it.       *)
THEOREM TableInvariance == Spec /\ OneGraph => []TableInv
<1> DEFINE I == OneGraph /\ TableInv
<1>1. Init /\ OneGraph => I
  BY TableInit
<1>2. I /\ [Next]_vars => I'
  <2>1. OneGraph => OneGraph'
    BY DEF OneGraph
  <2>2. QED
    BY <2>1, TableStep
<1>3. I => TableInv
  OBVIOUS
<1> HIDE DEF I
<1>4. QED
  BY <1>1, <1>2, <1>3, PTL DEF Spec

(* The kernel never meets a ring entry with another call's stamp.          *)
THEOREM NeverTraps == Spec /\ OneGraph => []NoTrap
<1>1. TableInv => NoTrap
  BY DEF TableInv, NoTrap
<1>2. QED
  BY <1>1, TableInvariance, PTL

(* With the stream drained and no launch prepared, _calls is the device's  *)
(* call counter.                                                           *)
THEOREM HostMirrorsDevice == Spec /\ OneGraph => []Mirror
<1>1. ASSUME TableInv, stream = <<>>, tokens = <<>>
      PROVE  calls = word
  <2>1. PICK first \in Nat :
           /\ Queue(stream, ring, first, calls - Len(tokens))
           /\ word = IF Advanced THEN first + 1 ELSE first
    BY <1>1 DEF TableInv, Mirrored
  <2>2. pc[0] = "start" /\ done[0] = 0
    BY <1>1 DEF TableInv, Block0
  <2>3. word = first
    BY <2>1, <2>2 DEF Advanced
  <2>4. Len(tokens) = 0 /\ calls \in Nat
    BY <1>1, EmptySeq DEF TableInv, Prepared
  <2>5. PICK N : Numbering(stream, N, first, calls)
    <3>1. calls - Len(tokens) = calls
      BY <2>4
    <3>2. QED
      BY <2>1, <3>1 DEF Queue
  <2>6. Len(stream) = 0
    BY <1>1, EmptySeq
  <2>7. first = calls
    BY <2>5, <2>6 DEF Numbering
  <2>8. QED
    BY <2>3, <2>7
<1>2. TableInv => Mirror
  BY <1>1 DEF Mirror
<1>3. QED
  BY <1>2, TableInvariance, PTL

(* No ring entry is rewritten while an enqueued launch has yet to read it. *)
THEOREM EntriesStay == Spec /\ OneGraph => []EntriesIntact
<1>1. ASSUME TableInv PROVE EntriesIntact
  <2>1. PICK S : stream \in Seq(S)
    BY <1>1 DEF TableInv, Mirrored, Queue
  <2>2. DOMAIN stream = 1 .. Len(stream)
    BY <2>1, LenProperties
  <2>3. Stamped(ring, stream)
    BY <1>1 DEF TableInv, Mirrored, Queue
  <2>4. QED
    BY <2>2, <2>3 DEF EntriesIntact, Stamped
<1>2. QED
  BY <1>1, TableInvariance, PTL

(* Past the address barrier every column of a phase has its operand where  *)
(* the graph says it lies in the tensors of that call: what is bound from  *)
(* roots, uploaded once, sent with a launch or captured is never stale.    *)
THEOREM OperandsFound == Spec /\ OneGraph /\ SoundPlans => []RightAddresses
<1>1. ASSUME OperandInv PROVE RightAddresses
  <2>1. BarrierInv /\ Copied /\ 0 \in Cta
    BY <1>1, Sizes DEF OperandInv
  <2>2. ASSUME NEW c \in Cta, done[c] > 0
        PROVE  pc[0] \notin {"start", "check", "copy"}
    <3>1. done[c] <= Gone(0) /\ done[c] \in Nat /\ InStep(0)
      BY <2>1 DEF BarrierInv, Apart
    <3>2. CASE pc[0] \in {"start", "check", "copy"}
      <4>1. Gone(0) = 0
        BY <3>1, <3>2 DEF InStep, Gone
      <4>2. QED
        BY <2>2, <3>1, <4>1
    <3>3. QED
      BY <3>2
  <2>3. QED
    BY <2>1, <2>2 DEF RightAddresses, Copied
<1>2. QED
  BY <1>1, OperandInvariance, PTL

(* All CTAs of a kernel number their barriers from the same call, although *)
(* block 0 advances the call counter in that kernel.                       *)
THEOREM OneNumber == Spec /\ OneGraph /\ SoundPlans => []SameCall
<1>1. OperandInv => SameCall
  BY DEF OperandInv, BarrierInv, InStep, SameCall
<1>2. QED
  BY <1>1, OperandInvariance, PTL

=============================================================================
