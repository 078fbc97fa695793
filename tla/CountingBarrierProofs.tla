------------------------ MODULE CountingBarrierProofs ------------------------
(***************************************************************************)
(* The counting grid barrier separates barrier intervals for every number  *)
(* of CTAs, barriers per call and word size.                               *)
(*                                                                         *)
(* The inductive invariant says what the one counter stands for: all CTAs  *)
(* have arrived m or m + 1 times since the last reset, and the counter is  *)
(* m * Workers plus the number of those at m + 1.  A counter that reaches  *)
(* (n + 1) * Workers therefore counts every CTA's arrival at barrier n.    *)
(***************************************************************************)
EXTENDS CountingBarrier, FiniteSetTheorems, TLAPS

USE DEF Cta

Ahead(m) == {c \in Cta : Arrivals(c) = m + 1}

Level(m) ==
  /\ \A c \in Cta : Arrivals(c) \in {m, m + 1}
  /\ counter = m * Workers + Cardinality(Ahead(m))

Counts == \E m \in 0 .. (call + 1) * Epochs : Level(m)

InCall == \A c \in Cta : pc[c] = "wait" => done[c] < Epochs

IInv == TypeOK /\ InCall /\ TargetsFit /\ Separation /\ Counts

(* Products of naturals, for steps that must not search for them. *)
LEMMA ProductMonotonic ==
  ASSUME NEW a \in Nat, NEW b \in Nat, NEW n \in Nat, a <= b
  PROVE  a * n <= b * n /\ a * n \in Nat /\ b * n \in Nat
<1>1. PICK k \in Nat : b = a + k
  BY b - a \in Nat, b = a + (b - a)
<1>2. k * n \in Nat /\ a * n \in Nat
  OBVIOUS
<1>3. b * n = a * n + k * n
  BY <1>1
<1>4. QED
  BY <1>2, <1>3

LEMMA ProductSuccessor ==
  ASSUME NEW a \in Nat, NEW n \in Nat
  PROVE  (a + 1) * n = a * n + n
OBVIOUS

(* The set of CTAs is finite, and every part of it is counted.             *)
LEMMA CtaFinite ==
  /\ IsFiniteSet(Cta) /\ Cardinality(Cta) = Workers
  /\ \A S \in SUBSET Cta : /\ IsFiniteSet(S)
                           /\ Cardinality(S) \in 0 .. Workers
                           /\ Cardinality(S) = Workers => S = Cta
<1>1. IsFiniteSet(Cta) /\ Cardinality(Cta) = Workers
  BY FS_Interval, WorkersAssumption
<1>2. ASSUME NEW S \in SUBSET Cta
      PROVE  /\ IsFiniteSet(S) /\ Cardinality(S) \in 0 .. Workers
             /\ Cardinality(S) = Workers => S = Cta
  <2>1. IsFiniteSet(S) /\ Cardinality(S) <= Workers /\ (Cardinality(S) = Workers => S = Cta)
    BY <1>1, FS_Subset
  <2>2. Cardinality(S) \in Nat
    BY <2>1, FS_CardinalityType
  <2>3. QED
    BY <2>1, <2>2, WorkersAssumption
<1>3. QED
  BY <1>1, <1>2

(* What a counter value says of each CTA: the converse reading of Level.   *)
LEMMA LevelReached ==
  ASSUME TypeOK, NEW m \in Nat, Level(m), NEW n \in Nat, counter >= n * Workers
  PROVE  \A d \in Cta : Arrivals(d) >= n
<1>1. Ahead(m) \in SUBSET Cta
  BY DEF Ahead
<1>2. Cardinality(Ahead(m)) \in 0 .. Workers /\ (Cardinality(Ahead(m)) = Workers => Ahead(m) = Cta)
  BY <1>1, CtaFinite
<1>3. \A d \in Cta : Arrivals(d) \in {m, m + 1}
  BY DEF Level
<1>4. CASE n <= m
  BY <1>3, <1>4
<1>5. CASE n = m + 1
  <2>1. counter >= m * Workers + Workers
    BY <1>5, ProductSuccessor, WorkersAssumption
  <2>2. Cardinality(Ahead(m)) = Workers
    BY <1>2, <2>1, WorkersAssumption DEF Level
  <2>3. QED
    BY <1>2, <2>2, <1>5 DEF Ahead
<1>6. CASE n > m + 1
  <2>1. (m + 2) * Workers <= n * Workers /\ n * Workers \in Nat
    BY <1>6, m + 2 <= n, ProductMonotonic, WorkersAssumption
  <2>2. (m + 2) * Workers = m * Workers + Workers + Workers
    BY ProductSuccessor, WorkersAssumption
  <2>3. m * Workers \in Nat
    BY WorkersAssumption
  <2>4. counter <= m * Workers + Workers
    BY <1>2, <2>3, WorkersAssumption DEF Level
  <2>5. QED
    BY <2>1, <2>2, <2>3, <2>4, WorkersAssumption, MaxIntAssumption DEF TypeOK
<1>7. QED
  BY <1>4, <1>5, <1>6

(* Between calls every CTA has arrived at every barrier of the call.       *)
LEMMA LevelAtEnd ==
  ASSUME IInv, KernelEnded
  PROVE  counter = (call + 1) * Epochs * Workers
<1> DEFINE e == (call + 1) * Epochs
<1>1. e \in Nat /\ e = call * Epochs + Epochs
  BY EpochsAssumption DEF IInv, TypeOK
<1>2. \A c \in Cta : Arrivals(c) = e
  BY <1>1 DEF KernelEnded, Arrivals, Ordinal
<1>3. PICK m \in 0 .. e : Level(m)
  BY DEF IInv, Counts
<1>4. 0 \in Cta
  BY WorkersAssumption
<1>5. CASE m = e
  <2>1. Ahead(m) = {}
    BY <1>1, <1>2, <1>5 DEF Ahead
  <2>2. QED
    BY <1>3, <1>5, <2>1, <1>1, FS_EmptySet, WorkersAssumption DEF Level
<1>6. CASE m + 1 = e
  <2>1. Ahead(m) = Cta
    BY <1>2, <1>6 DEF Ahead
  <2>2. counter = m * Workers + Workers
    BY <1>3, <2>1, CtaFinite DEF Level
  <2>3. QED
    BY <2>2, <1>6, ProductSuccessor, WorkersAssumption
<1>7. QED
  BY <1>1, <1>2, <1>3, <1>4, <1>5, <1>6 DEF Level

THEOREM InitInvariant == Init => IInv
<1> SUFFICES ASSUME Init
             PROVE  IInv
  OBVIOUS
<1>1. TypeOK /\ InCall
  BY EpochsAssumption, MaxIntAssumption DEF Init, TypeOK, InCall
<1>2. TargetsFit
  BY EpochsAssumption, MaxIntAssumption, WorkersAssumption DEF Init, TargetsFit
<1>3. \A c \in Cta : Ordinal(c) = 0 /\ Arrivals(c) = 0
  BY EpochsAssumption DEF Init, Ordinal, Arrivals
<1>4. Level(0)
  <2>1. Ahead(0) = {}
    BY <1>3 DEF Ahead
  <2>2. 0 * Workers = 0
    BY WorkersAssumption
  <2>3. Cardinality(Ahead(0)) = 0
    BY <2>1, FS_EmptySet
  <2>4. counter = 0
    BY DEF Init
  <2>5. QED
    BY <1>3, <2>2, <2>3, <2>4 DEF Level
<1>5. Counts
  BY <1>4, EpochsAssumption DEF Counts, Init
<1>6. QED
  BY <1>1, <1>2, <1>3, <1>5 DEF IInv, Separation

(* Numbers below the running call's last barrier are int32 as they stand.  *)
LEMMA InRange ==
  ASSUME IInv, NEW n \in Nat, n <= (call + 1) * Epochs
  PROVE  n * Workers \in 0 .. MaxInt /\ Int32(n * Workers) = n * Workers
<1> DEFINE e == (call + 1) * Epochs
<1>1. e \in Nat
  BY EpochsAssumption DEF IInv, TypeOK
<1>2. n * Workers <= e * Workers /\ n * Workers \in Nat /\ e * Workers \in Nat
  BY <1>1, ProductMonotonic, WorkersAssumption
<1>3. e * Workers <= MaxInt
  BY DEF IInv, TargetsFit
<1>4. QED
  BY <1>2, <1>3, MaxIntAssumption DEF Int32

LEMMA OrdinalsOfCall ==
  ASSUME TypeOK, NEW c \in Cta
  PROVE  /\ Ordinal(c) \in Nat /\ Arrivals(c) \in Nat
         /\ (call + 1) * Epochs \in Nat
         /\ Ordinal(c) <= (call + 1) * Epochs
         /\ done[c] < Epochs => Ordinal(c) + 1 <= (call + 1) * Epochs
<1>1. (call + 1) * Epochs = call * Epochs + Epochs /\ call * Epochs \in Nat
  BY EpochsAssumption DEF TypeOK
<1>2. done[c] \in Nat /\ done[c] <= Epochs
  BY EpochsAssumption DEF TypeOK
<1>3. QED
  BY <1>1, <1>2, EpochsAssumption DEF Ordinal, Arrivals

LEMMA ArriveStep ==
  ASSUME IInv, NEW c \in Cta, Arrive(c)
  PROVE  IInv'
<1> DEFINE e == (call + 1) * Epochs
<1>1. TypeOK /\ InCall /\ TargetsFit /\ Separation
  BY DEF IInv
<1>2. PICK m \in 0 .. e : Level(m)
  BY DEF IInv, Counts
<1>3. /\ e \in Nat /\ m \in Nat
      /\ Ordinal(c) \in Nat /\ Ordinal(c) + 1 <= e
  BY <1>1, <1>2, OrdinalsOfCall DEF Arrive
<1>4. pc' = [pc EXCEPT ![c] = "wait"] /\ pc' \in [Cta -> {"run", "wait"}]
  BY <1>1 DEF Arrive, TypeOK
<1>5. \A d \in Cta : Ordinal(d)' = Ordinal(d)
  BY DEF Arrive, Ordinal
<1>6. /\ Arrivals(c) = Ordinal(c) /\ Arrivals(c)' = Ordinal(c) + 1
      /\ \A d \in Cta \ {c} : Arrivals(d)' = Arrivals(d)
  BY <1>1, <1>3, <1>4, <1>5 DEF Arrive, Arrivals, TypeOK
<1>7. PICK k \in 0 .. e : /\ k + 1 <= e
                          /\ \A d \in Cta : Arrivals(d)' \in {k, k + 1}
                          /\ counter + 1 = k * Workers + Cardinality(Ahead(k)')
  <2>1. \A d \in Cta : Arrivals(d) \in {m, m + 1}
    BY <1>2 DEF Level
  <2>2. CASE Ordinal(c) = m
    <3>1. Ahead(m)' = Ahead(m) \cup {c} /\ c \notin Ahead(m)
      BY <1>3, <1>6, <2>1, <2>2 DEF Ahead
    <3>2. Ahead(m) \in SUBSET Cta
      BY DEF Ahead
    <3>3. Cardinality(Ahead(m)') = Cardinality(Ahead(m)) + 1
      BY <3>1, <3>2, CtaFinite, FS_AddElement
    <3>4. Cardinality(Ahead(m)) \in Nat /\ m * Workers \in Nat
      BY <3>2, CtaFinite, <1>3, WorkersAssumption
    <3>5. counter + 1 = m * Workers + Cardinality(Ahead(m)')
      BY <1>2, <3>3, <3>4 DEF Level
    <3>6. \A d \in Cta : Arrivals(d)' \in {m, m + 1}
      BY <1>6, <2>1, <2>2
    <3>7. QED
      BY <3>5, <3>6, <2>2, <1>3
  <2>3. CASE Ordinal(c) = m + 1
    <3>1. \A d \in Cta : Arrivals(d) = m + 1
      BY <1>1, <2>1, <2>3, <1>3 DEF Separation
    <3>2. Ahead(m) = Cta
      BY <3>1 DEF Ahead
    <3>3. counter = (m + 1) * Workers /\ (m + 1) * Workers \in Nat
      BY <1>2, <1>3, <3>2, CtaFinite, ProductSuccessor, WorkersAssumption DEF Level
    <3>4. Ahead(m + 1)' = {c}
      BY <1>3, <1>6, <3>1, <2>3 DEF Ahead
    <3>5. Cardinality(Ahead(m + 1)') = 1
      BY <3>4, FS_Singleton
    <3>6. \A d \in Cta : Arrivals(d)' \in {m + 1, m + 1 + 1}
      BY <1>6, <3>1, <2>3
    <3>7. m + 1 \in 0 .. e /\ m + 1 + 1 <= e
      BY <1>3, <2>3
    <3>8. QED
      BY <3>3, <3>5, <3>6, <3>7
  <2>4. QED
    BY <1>6, <2>1, <2>2, <2>3
<1>8. counter + 1 \in 0 .. MaxInt /\ counter' = counter + 1
  <2>1. Ahead(k)' \in SUBSET Cta
    BY DEF Ahead
  <2>2. Cardinality(Ahead(k)') \in 0 .. Workers
    BY <2>1, CtaFinite
  <2>3. k * Workers \in Nat /\ (k + 1) * Workers = k * Workers + Workers
    BY <1>7, ProductSuccessor, WorkersAssumption
  <2>4. (k + 1) * Workers <= MaxInt
    BY <1>7, InRange
  <2>5. counter + 1 <= MaxInt
    BY <1>7, <2>2, <2>3, <2>4, WorkersAssumption, MaxIntAssumption
  <2>6. counter \in Nat
    BY <1>1, MaxIntAssumption DEF TypeOK
  <2>7. QED
    BY <2>5, <2>6, MaxIntAssumption DEF Arrive, Int32
<1>9. TypeOK' /\ InCall' /\ TargetsFit'
  BY <1>1, <1>4, <1>8 DEF Arrive, TypeOK, InCall, TargetsFit
<1>10. Separation'
  BY <1>1, <1>3, <1>5, <1>6, OrdinalsOfCall DEF Separation
<1>11. Counts'
  <2>1. Level(k)'
    BY <1>7, <1>8 DEF Level
  <2>2. e' = e
    BY DEF Arrive
  <2>3. QED
    BY <2>1, <2>2, <1>7 DEF Counts
<1>12. QED
  BY <1>9, <1>10, <1>11 DEF IInv

LEMMA WaitStep ==
  ASSUME IInv, NEW c \in Cta, Wait(c)
  PROVE  /\ IInv'
         /\ \A d \in Cta : Arrivals(d) >= Ordinal(c) + 1
<1> DEFINE e == (call + 1) * Epochs
<1>1. TypeOK /\ InCall /\ TargetsFit /\ Separation
  BY DEF IInv
<1>2. PICK m \in 0 .. e : Level(m)
  BY DEF IInv, Counts
<1>3. /\ Ordinal(c) \in Nat /\ Ordinal(c) + 1 <= e
      /\ Arrivals(c) = Ordinal(c) + 1
  BY <1>1, OrdinalsOfCall DEF Wait, InCall, Arrivals
<1>4. pc' = [pc EXCEPT ![c] = "run"] /\ done' = [done EXCEPT ![c] = @ + 1]
  BY DEF Wait
<1>5. Ordinal(c)' = Ordinal(c) + 1 /\ \A d \in Cta \ {c} : Ordinal(d)' = Ordinal(d)
  BY <1>1, <1>4, EpochsAssumption DEF Wait, Ordinal, TypeOK
<1>6. \A d \in Cta : Arrivals(d)' = Arrivals(d)
  BY <1>1, <1>3, <1>4, <1>5 DEF Arrivals, TypeOK
<1>7. \A d \in Cta : Arrivals(d) >= Ordinal(c) + 1
  <2>1. counter >= (Ordinal(c) + 1) * Workers
    BY <1>3, InRange DEF Wait, Target
  <2>2. m \in Nat
    BY <1>2, <1>1, OrdinalsOfCall
  <2>3. QED
    BY <1>1, <1>2, <1>3, <2>1, <2>2, LevelReached
<1>8. TypeOK' /\ InCall' /\ TargetsFit'
  <2>1. done[c] < Epochs
    BY <1>1 DEF Wait, InCall
  <2>2. QED
    BY <1>1, <1>4, <2>1, EpochsAssumption DEF Wait, TypeOK, InCall, TargetsFit
<1>9. Separation'
  BY <1>1, <1>5, <1>6, <1>7 DEF Separation
<1>10. Counts'
  <2>1. Ahead(m)' = Ahead(m)
    BY <1>6 DEF Ahead
  <2>2. Level(m)'
    BY <1>2, <1>6, <2>1 DEF Level, Wait
  <2>3. QED
    BY <1>2, <2>2 DEF Counts, Wait
<1>11. QED
  BY <1>7, <1>8, <1>9, <1>10 DEF IInv

(* The next call numbers its barriers on, or from 0 with a cleared counter. *)
LEMMA NextCallStep ==
  ASSUME IInv, NextCall
  PROVE  /\ IInv'
         /\ \A c \in Cta : /\ (past + Ordinal(c))' = past + Ordinal(c)
                           /\ (past + Arrivals(c))' = past + Arrivals(c)
<1> DEFINE e == (call + 1) * Epochs
<1>1. TypeOK /\ TargetsFit
  BY DEF IInv
<1>2. e \in Nat /\ e = call * Epochs + Epochs /\ call * Epochs \in Nat
  BY <1>1, EpochsAssumption DEF TypeOK
<1>3. /\ done' = [c \in Cta |-> 0] /\ pc' = pc
      /\ \A c \in Cta : /\ pc[c] = "run" /\ done[c] = Epochs
                        /\ Ordinal(c) = e /\ Arrivals(c) = e
  BY <1>2 DEF NextCall, KernelEnded, Ordinal, Arrivals
<1>4. counter = e * Workers
  BY LevelAtEnd DEF NextCall
<1>5. CASE MustReset
  <2>1. counter' = 0 /\ call' = 0 /\ past' = past + e
    BY <1>5 DEF NextCall
  <2>2. \A c \in Cta : Ordinal(c)' = 0 /\ Arrivals(c)' = 0
    BY <1>3, <2>1, EpochsAssumption DEF Ordinal, Arrivals
  <2>3. Level(0)'
    <3>1. Ahead(0)' = {}
      BY <2>2 DEF Ahead
    <3>2. Cardinality(Ahead(0)') = 0
      BY <3>1, FS_EmptySet
    <3>3. 0 * Workers = 0
      BY WorkersAssumption
    <3>4. QED
      BY <2>1, <2>2, <3>2, <3>3 DEF Level
  <2>4. (call' + 1) * Epochs = Epochs
    BY <2>1, EpochsAssumption
  <2>5. TypeOK' /\ InCall'
    BY <1>1, <1>2, <1>3, <2>1, EpochsAssumption, MaxIntAssumption
    DEF TypeOK, InCall, NextCall
  <2>6. TargetsFit' /\ Counts'
    BY <2>3, <2>4, EpochsAssumption, MaxIntAssumption DEF TargetsFit, Counts
  <2>7. Separation'
    BY <2>2 DEF Separation
  <2>8. QED
    BY <1>1, <1>2, <1>3, <2>1, <2>2, <2>5, <2>6, <2>7 DEF IInv, TypeOK
<1>6. CASE ~MustReset
  <2>1. counter' = counter /\ call' = call + 1 /\ past' = past
    BY <1>6 DEF NextCall
  <2>2. call' * Epochs = e
    BY <2>1
  <2>3. \A c \in Cta : Ordinal(c)' = e /\ Arrivals(c)' = e
    BY <1>2, <1>3, <2>2 DEF Ordinal, Arrivals
  <2>4. PICK k \in Nat : k = e
    BY <1>2
  <2>5. Level(k)'
    <3>1. Ahead(k)' = {}
      BY <2>3, <2>4 DEF Ahead
    <3>2. Cardinality(Ahead(k)') = 0
      BY <3>1, FS_EmptySet
    <3>3. k * Workers \in Nat
      BY WorkersAssumption
    <3>4. QED
      BY <1>4, <2>1, <2>3, <2>4, <3>2, <3>3 DEF Level
  <2>6. (call' + 1) * Epochs = e + Epochs /\ (call' + 1) * Epochs = (call + 2) * Epochs
    BY <1>1, <1>2, <2>1, EpochsAssumption DEF TypeOK
  <2>7. TargetsFit'
    <3>1. (call + 2) * Epochs * Workers <= MaxInt
      <4>1. (call + 2) * Epochs * Workers \in Int
        BY <1>1, EpochsAssumption, WorkersAssumption DEF TypeOK
      <4>2. QED
        BY <1>6, <4>1, MaxIntAssumption DEF MustReset
    <3>2. QED
      BY <2>6, <3>1 DEF TargetsFit
  <2>8. Counts'
    <3>1. k \in 0 .. (call' + 1) * Epochs
      BY <1>2, <2>4, <2>6, EpochsAssumption
    <3>2. QED
      BY <2>5, <3>1 DEF Counts
  <2>9. TypeOK' /\ InCall'
    BY <1>1, <1>3, <2>1, EpochsAssumption DEF TypeOK, InCall, NextCall
  <2>10. Separation'
    BY <2>3, <1>2 DEF Separation
  <2>11. QED
    BY <1>1, <1>2, <1>3, <2>1, <2>3, <2>7, <2>8, <2>9, <2>10 DEF IInv, TypeOK
<1>7. QED
  BY <1>5, <1>6

THEOREM StepInvariant == IInv /\ [Next]_vars => IInv'
<1> SUFFICES ASSUME IInv, [Next]_vars
             PROVE  IInv'
  OBVIOUS
<1>1. CASE NextCall
  BY <1>1, NextCallStep
<1>2. CASE \E c \in Cta : Arrive(c) \/ Wait(c)
  BY <1>2, ArriveStep, WaitStep
<1>3. CASE UNCHANGED vars
  BY <1>3 DEF vars, IInv, TypeOK, InCall, TargetsFit, Separation, Counts, Level,
              Ahead, Arrivals, Ordinal
<1>4. CASE HostDone
  BY <1>3, <1>4 DEF HostDone
<1>5. QED
  BY <1>1, <1>2, <1>3, <1>4 DEF Next

-----------------------------------------------------------------------------
(* The results.                                                            *)

LEMMA Invariance == Spec => []IInv
<1>1. QED
  BY InitInvariant, StepInvariant, PTL DEF Spec

(* Every word stays in int32 and every CTA within its call, for any grid   *)
(* size, barrier count and word size (CountingBarrier's types).            *)
THEOREM TypeCorrect == Spec => []TypeOK
<1>1. IInv => TypeOK
  BY DEF IInv
<1>2. QED
  BY <1>1, Invariance, PTL

(* No CTA leaves a counting barrier that another has not arrived at,       *)
(* whatever the grid, over any number of calls and counter resets.         *)
THEOREM BarrierSeparation == Spec => []Separation
<1>1. IInv => Separation
  BY DEF IInv
<1>2. QED
  BY <1>1, Invariance, PTL

(* The duty counting_grid_barrier puts on its caller is met by _wrap_calls *)
(* for every call the host makes.                                          *)
THEOREM CallerKeepsInt32 == Spec => []TargetsFit
<1>1. IInv => TargetsFit
  BY DEF IInv
<1>2. QED
  BY <1>1, Invariance, PTL

(* A finished call leaves the counter where the next one counts from.      *)
THEOREM CallsStayDense == Spec => []DenseOrdinals
<1>1. IInv => DenseOrdinals
  BY LevelAtEnd DEF DenseOrdinals
<1>2. QED
  BY <1>1, Invariance, PTL

(* The counting barrier implements GridBarrier's barrier, resets included: *)
(* each arrival and each successful wait is one step of it, and a new call *)
(* is none.                                                                *)
THEOREM Refinement == Spec => ImplementsGridBarrier
<1>1. Init => Barrier!Init
  <2> SUFFICES ASSUME Init
               PROVE  Barrier!Init
    OBVIOUS
  <2>1. \A c \in Cta : past + Ordinal(c) = 0 /\ past + Arrivals(c) = 0
    BY EpochsAssumption DEF Init, Ordinal, Arrivals
  <2>2. QED
    BY <2>1 DEF Barrier!Init, Barrier!Cta
<1>2. IInv /\ [Next]_vars => [Barrier!Next]_Barrier!vars
  <2> SUFFICES ASSUME IInv, [Next]_vars
               PROVE  [Barrier!Next]_Barrier!vars
    OBVIOUS
  <2>1. TypeOK /\ past \in Nat
    BY DEF IInv, TypeOK
  <2>2. \A c \in Cta : Ordinal(c) \in Nat /\ Arrivals(c) \in Nat
    BY <2>1, OrdinalsOfCall
  <2>3. CASE NextCall
    <3>1. /\ [c \in Cta |-> past + Ordinal(c)]' = [c \in Cta |-> past + Ordinal(c)]
          /\ [c \in Cta |-> past + Arrivals(c)]' = [c \in Cta |-> past + Arrivals(c)]
      BY <2>3, NextCallStep
    <3>2. QED
      BY <3>1 DEF Barrier!vars
  <2>4. ASSUME NEW c \in Cta, Arrive(c)
        PROVE  Barrier!Arrive(c)
    <3>1. pc' = [pc EXCEPT ![c] = "wait"] /\ pc[c] = "run" /\ past' = past
      BY <2>4 DEF Arrive
    <3>2. \A d \in Cta : Ordinal(d)' = Ordinal(d)
      BY <2>4 DEF Arrive, Ordinal
    <3>3. Arrivals(c) = Ordinal(c) /\ Arrivals(c)' = Arrivals(c) + 1
      BY <2>1, <2>2, <3>1, <3>2 DEF Arrivals, TypeOK
    <3>4. \A d \in Cta \ {c} : Arrivals(d)' = Arrivals(d)
      BY <2>1, <3>1, <3>2 DEF Arrivals, TypeOK
    <3> DEFINE P == [d \in Cta |-> past + Ordinal(d)]
               A == [d \in Cta |-> past + Arrivals(d)]
    <3>5. P' = P
      BY <3>1, <3>2
    <3>6. A' = [A EXCEPT ![c] = @ + 1]
      <4>1. past' + Arrivals(c)' = past + Arrivals(c) + 1
        BY <2>1, <2>2, <3>1, <3>3
      <4>2. \A d \in Cta \ {c} : past' + Arrivals(d)' = past + Arrivals(d)
        BY <3>1, <3>4
      <4>3. QED
        BY <4>1, <4>2
    <3>7. A[c] = P[c]
      BY <3>3
    <3>8. QED
      BY <3>5, <3>6, <3>7 DEF Barrier!Arrive, Barrier!Cta
  <2>5. ASSUME NEW c \in Cta, Wait(c)
        PROVE  Barrier!Leave(c)
    <3>1. /\ pc[c] = "wait" /\ pc' = [pc EXCEPT ![c] = "run"]
          /\ done' = [done EXCEPT ![c] = @ + 1] /\ past' = past
      BY <2>5 DEF Wait
    <3>2. Ordinal(c)' = Ordinal(c) + 1 /\ \A d \in Cta \ {c} : Ordinal(d)' = Ordinal(d)
      BY <2>1, <2>5, <3>1, EpochsAssumption DEF Wait, Ordinal, TypeOK
    <3>3. Arrivals(c) = Ordinal(c) + 1
      BY <3>1 DEF Arrivals
    <3>4. \A d \in Cta : Arrivals(d)' = Arrivals(d)
      BY <2>1, <2>2, <3>1, <3>2, <3>3 DEF Arrivals, TypeOK
    <3>5. \A d \in Cta : Arrivals(d) >= Arrivals(c)
      BY <2>5, <3>3, WaitStep
    <3> DEFINE P == [d \in Cta |-> past + Ordinal(d)]
               A == [d \in Cta |-> past + Arrivals(d)]
    <3>6. A' = A
      BY <3>1, <3>4
    <3>7. P' = [P EXCEPT ![c] = @ + 1]
      <4>1. past' + Ordinal(c)' = past + Ordinal(c) + 1
        BY <2>1, <2>2, <3>1, <3>2
      <4>2. \A d \in Cta \ {c} : past' + Ordinal(d)' = past + Ordinal(d)
        BY <3>1, <3>2
      <4>3. QED
        BY <4>1, <4>2
    <3>8. A[c] = P[c] + 1 /\ \A d \in Cta : A[d] >= A[c]
      BY <2>1, <2>2, <3>3, <3>5
    <3>9. QED
      BY <3>6, <3>7, <3>8 DEF Barrier!Leave, Barrier!Cta
  <2>6. CASE UNCHANGED vars
    BY <2>6 DEF vars, Barrier!vars, Ordinal, Arrivals
  <2>7. CASE HostDone
    BY <2>6, <2>7 DEF HostDone
  <2>8. QED
    BY <2>3, <2>4, <2>5, <2>6, <2>7 DEF Next, Barrier!Next, Barrier!Cta
<1>3. QED
  BY <1>1, <1>2, Invariance, PTL DEF Spec, ImplementsGridBarrier, Barrier!Spec

-----------------------------------------------------------------------------
(* The abstract barrier that both device barriers implement.               *)

VARIABLES came, left

Grid == INSTANCE GridBarrier WITH Workers <- Workers, arrived <- came, passed <- left

(* A CTA is in front of a barrier or inside it, and whoever has left a     *)
(* barrier has seen everyone arrive there.                                 *)
GridInv ==
  /\ Grid!TypeOK
  /\ \A c \in Grid!Cta : came[c] \in {left[c], left[c] + 1}
  /\ Grid!Separation

LEMMA GridStarts == Grid!Init => GridInv
BY DEF Grid!Init, GridInv, Grid!TypeOK, Grid!Separation

LEMMA GridSteps == GridInv /\ [Grid!Next]_Grid!vars => GridInv'
<1> SUFFICES ASSUME GridInv, [Grid!Next]_Grid!vars
             PROVE  GridInv'
  OBVIOUS
<1>1. CASE \E c \in Grid!Cta : Grid!Arrive(c)
  BY <1>1 DEF Grid!Arrive, GridInv, Grid!TypeOK, Grid!Separation
<1>2. CASE \E c \in Grid!Cta : Grid!Leave(c)
  <2>1. PICK c \in Grid!Cta : Grid!Leave(c)
    BY <1>2
  <2>2. Grid!TypeOK' /\ \A d \in Grid!Cta : came'[d] \in {left'[d], left'[d] + 1}
    BY <2>1 DEF Grid!Leave, GridInv, Grid!TypeOK
  <2>3. Grid!Separation'
    BY <2>1 DEF Grid!Leave, GridInv, Grid!TypeOK, Grid!Separation
  <2>4. QED
    BY <2>2, <2>3 DEF GridInv
<1>3. CASE UNCHANGED Grid!vars
  BY <1>3 DEF Grid!vars, GridInv, Grid!TypeOK, Grid!Separation
<1>4. QED
  BY <1>1, <1>2, <1>3 DEF Grid!Next

LEMMA GridInvariance == Grid!Spec => []GridInv
BY GridStarts, GridSteps, PTL DEF Grid!Spec

(* No CTA of the cooperative launch is past a barrier that another has not *)
(* arrived at: what runs behind a barrier of the generated kernel may read *)
(* what ran before it on any CTA.                                          *)
THEOREM BarrierSeparates == Grid!Spec => []Grid!Separation
<1>1. GridInv => Grid!Separation
  BY DEF GridInv
<1>2. QED
  BY <1>1, GridInvariance, PTL

(* No CTA runs two barrier intervals ahead of another, so only the phases  *)
(* of one interval, and those of the next, ever run at the same time.      *)
THEOREM GridInLockstep == Grid!Spec => []Grid!Lockstep
<1>1. GridInv => Grid!Lockstep
  BY DEF GridInv, Grid!TypeOK, Grid!Separation, Grid!Lockstep
<1>2. QED
  BY <1>1, GridInvariance, PTL

=============================================================================
