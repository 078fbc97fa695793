--------------------------- MODULE FlagBarrierProofs ---------------------------
(***************************************************************************)
(* The parameter launch's barrier separates barrier intervals, for every   *)
(* number of CTAs, phases and launches and every word size.                *)
(*                                                                         *)
(* What carries the proof is how the release flag stands to every CTA's    *)
(* next epoch.  It is smaller, but for a CTA that polls, for which it can  *)
(* be equal: the barrier is open (FlagBehind).  Conversely a CTA that has  *)
(* passed a barrier has seen the flag at its epoch (PassedReleased).  The  *)
(* arrival word counts the CTAs whose barrier is not open (Counted), so    *)
(* the arrival that makes it full finds all others at its own barrier and  *)
(* is alone with the two words until it has stored the flag (LastAlone).   *)
(* Epochs of different launches do not meet because the host advances them *)
(* by the stride, past every epoch a launch can store (HostAhead).  The    *)
(* same facts show that the flag barrier implements the abstract one, with *)
(* barriers numbered on from launch to launch.                             *)
(***************************************************************************)
EXTENDS FlagBarrier, FiniteSetTheorems, WellFoundedInduction, TLAPS

(* Arrived at a barrier that is not open yet. *)
Waiting == {c \in Cta : \/ pc[c] = "clear"
                        \/ pc[c] = "poll" /\ flag < epoch + phase[c]}

Positions ==
  \A c \in Cta : /\ InBarrier(c) => phase[c] \in BarrierPhases
                 /\ pc[c] = "exit" => phase[c] = Phases

FlagBehind ==
  \A c \in Cta : /\ flag <= epoch + phase[c]
                 /\ pc[c] # "poll" => flag < epoch + phase[c]

PassedReleased ==
  Idle \/ \A c \in Cta : \A b \in BarrierPhases : phase[c] > b => flag >= epoch + b

LastAlone ==
  \A c \in Cta : pc[c] \in {"clear", "release"} =>
    \A d \in Cta \ {c} : pc[d] = "poll" /\ phase[d] = phase[c]

Counted ==
  arrivals = IF \E c \in Cta : pc[c] = "release" THEN 0 ELSE Cardinality(Waiting)

EpochFits(e) == e = 0 \/ e + EpochStride <= MaxInt

HostAhead ==
  /\ EpochFits(epoch) /\ EpochFits(nextEpoch)
  /\ reset => nextEpoch = 0
  /\ ~ reset => flag < nextEpoch /\ (Idle \/ nextEpoch = epoch + EpochStride)

IInv ==
  /\ TypeOK /\ Positions /\ FlagBehind /\ PassedReleased /\ LastAlone /\ Counted
  /\ HostAhead

(* Every non-empty set of naturals with a bound has a largest member.      *)
LEMMA LargestNatural ==
  ASSUME NEW S \in SUBSET Nat, NEW n \in Nat, S # {}, \A s \in S : s <= n
  PROVE  \E s \in S : \A t \in S : t <= s
<1> DEFINE T == {n - s : s \in S}
<1>1. T \subseteq Nat
  <2>1. ASSUME NEW s \in S PROVE n - s \in Nat
    BY s \in Nat, s <= n
  <2>2. QED
    BY <2>1
<1>2. T # {}
  OBVIOUS
<1>3. PICK x \in T : \A y \in T : <<y, x>> \notin OpToRel(<, Nat)
  BY <1>1, <1>2, NatLessThanWellFounded, WFMin
<1>4. PICK s \in S : x = n - s
  BY <1>3
<1>5. ASSUME NEW t \in S PROVE t <= s
  <2>1. n - t \in T /\ n - t \in Nat /\ x \in Nat
    BY <1>1
  <2>2. ~ (n - t < x)
    BY <1>3, <2>1 DEF OpToRel
  <2>3. t \in Nat /\ s \in Nat
    OBVIOUS
  <2>4. QED
    BY <1>4, <2>1, <2>2, <2>3
<1>6. QED
  BY <1>5

(* The stride is past every epoch a launch can store in the flag, and no   *)
(* larger than a launch without the limit of int32 can use.                *)
LEMMA Stride ==
  /\ EpochStride \in Nat \ {0}
  /\ EpochStride <= Phases \/ EpochStride = 1
  /\ \A b \in BarrierPhases : b + 1 <= EpochStride
<1> DEFINE Used == {b + 1 : b \in BarrierPhases} \cup {1}
<1>1. Used \in SUBSET Nat /\ Used # {}
  BY PhasesAssumption
<1>2. \A s \in Used : s <= Phases + 1
  BY PhasesAssumption
<1>3. Phases + 1 \in Nat
  BY PhasesAssumption
<1>4. \E s \in Used : \A t \in Used : t <= s
  <2> HIDE DEF Used
  <2>1. QED
    BY <1>1, <1>2, <1>3, LargestNatural
<1>5. EpochStride \in Used /\ \A t \in Used : t <= EpochStride
  BY <1>4 DEF EpochStride
<1>6. QED
  BY <1>5, PhasesAssumption

LEMMA Basics ==
  /\ Workers \in Nat \ {0} /\ Phases \in Nat /\ MaxInt \in Nat /\ Phases <= MaxInt
  /\ \A b \in BarrierPhases : b \in Nat /\ b < Phases
  /\ 0 \in Cta
<1>1. Workers \in Nat \ {0} /\ Phases \in Nat /\ MaxInt \in Nat /\ Phases <= MaxInt
  BY WorkersAssumption, PhasesAssumption, MaxIntAssumption
<1>2. \A b \in BarrierPhases : b \in Nat /\ b < Phases
  BY PhasesAssumption
<1>3. 0 \in Cta
  BY <1>1 DEF Cta
<1>4. QED
  BY <1>1, <1>2, <1>3

(* The set of CTAs is finite, and every part of it is counted.             *)
LEMMA CtaFinite ==
  /\ IsFiniteSet(Cta) /\ Cardinality(Cta) = Workers
  /\ \A S \in SUBSET Cta : /\ IsFiniteSet(S)
                           /\ Cardinality(S) \in 0 .. Workers
<1>1. IsFiniteSet(Cta) /\ Cardinality(Cta) = Workers
  BY FS_Interval, WorkersAssumption DEF Cta
<1>2. ASSUME NEW S \in SUBSET Cta
      PROVE  IsFiniteSet(S) /\ Cardinality(S) \in 0 .. Workers
  <2>1. IsFiniteSet(S) /\ Cardinality(S) <= Workers
    BY <1>1, FS_Subset
  <2>2. Cardinality(S) \in Nat
    BY <2>1, FS_CardinalityType
  <2>3. QED
    BY <2>1, <2>2, WorkersAssumption
<1>3. QED
  BY <1>1, <1>2

(* The types of a state, one CTA at a time.                                *)
LEMMA CtaTypes ==
  ASSUME TypeOK, NEW c \in Cta
  PROVE  /\ phase[c] \in 0 .. Phases
         /\ pc[c] \in {"run", "poll", "clear", "release", "exit"}
BY DEF TypeOK

LEMMA WordTypes ==
  ASSUME TypeOK
  PROVE  flag \in Int /\ epoch \in Nat /\ nextEpoch \in Nat /\ arrivals \in Nat
BY Basics DEF TypeOK

-----------------------------------------------------------------------------

LEMMA InitInvariant == Init => IInv
<1>1. SUFFICES ASSUME Init PROVE IInv
  OBVIOUS
<1>2. /\ flag = -1 /\ arrivals = 0 /\ epoch = 0
      /\ phase = [c \in Cta |-> 0] /\ pc = [c \in Cta |-> "run"]
      /\ nextEpoch = IF EpochStride > MaxInt - EpochStride THEN 0 ELSE EpochStride
      /\ reset = (EpochStride > MaxInt - EpochStride)
      /\ launched = 0
  BY <1>1 DEF Init
<1>3. nextEpoch \in 0 .. MaxInt /\ EpochFits(nextEpoch)
  BY <1>2, Stride, Basics DEF EpochFits
<1>4. TypeOK
  BY <1>2, <1>3, Basics DEF TypeOK
<1>5. Positions /\ LastAlone
  BY <1>2 DEF Positions, LastAlone, InBarrier
<1>6. FlagBehind
  BY <1>2 DEF FlagBehind
<1>7. PassedReleased
  BY <1>2, Basics DEF PassedReleased
<1>8. Counted
  <2>1. Waiting = {}
    BY <1>2 DEF Waiting
  <2>2. QED
    BY <1>2, <2>1, FS_EmptySet DEF Counted
<1>9. HostAhead
  <2>1. CASE EpochStride > MaxInt - EpochStride
    <3>1. reset /\ nextEpoch = 0
      BY <1>2, <2>1
    <3>2. QED
      BY <1>2, <3>1 DEF HostAhead, EpochFits
  <2>2. CASE ~ (EpochStride > MaxInt - EpochStride)
    <3>1. ~ reset /\ nextEpoch = EpochStride
      BY <1>2, <2>2
    <3>2. flag < nextEpoch /\ nextEpoch = epoch + EpochStride
      BY <1>2, <3>1, Stride
    <3>3. QED
      BY <1>2, <1>3, <3>1, <3>2 DEF HostAhead, EpochFits
  <2>3. QED
    BY <2>1, <2>2
<1>10. QED
  BY <1>4, <1>5, <1>6, <1>7, <1>8, <1>9 DEF IInv

(* Nobody is in a barrier between two kernels. *)
LEMMA IdleFacts ==
  ASSUME IInv, Idle
  PROVE  Waiting = {} /\ arrivals = 0
<1>1. \A c \in Cta : pc[c] = "exit"
  BY DEF Idle
<1>2. Waiting = {}
  BY <1>1 DEF Waiting
<1>3. QED
  BY <1>1, <1>2, FS_EmptySet DEF IInv, Counted

LEMMA LaunchStep == ASSUME IInv, Launch PROVE IInv'
<1>1. /\ Idle /\ ~ reset
      /\ epoch' = nextEpoch /\ flag' = flag /\ arrivals' = arrivals
      /\ nextEpoch' = IF nextEpoch + EpochStride > MaxInt - EpochStride
                        THEN 0 ELSE nextEpoch + EpochStride
      /\ reset' = (nextEpoch + EpochStride > MaxInt - EpochStride)
      /\ launched' = launched + 1
      /\ phase' = [c \in Cta |-> 0] /\ pc' = [c \in Cta |-> "run"]
  BY DEF Launch
<1>2. TypeOK /\ HostAhead /\ Idle
  BY <1>1 DEF IInv
<1>3. flag \in Int /\ nextEpoch \in Nat
  BY <1>2, WordTypes
<1>4. nextEpoch' \in 0 .. MaxInt /\ EpochFits(nextEpoch')
  BY <1>1, <1>3, Stride, Basics DEF EpochFits
<1>5. TypeOK'
  BY <1>1, <1>2, <1>4, Basics DEF TypeOK
<1>6. Positions' /\ LastAlone'
  BY <1>1 DEF Positions, LastAlone, InBarrier
<1>7. FlagBehind'
  BY <1>1, <1>2, <1>3 DEF FlagBehind, HostAhead
<1>8. PassedReleased'
  BY <1>1, Basics DEF PassedReleased
<1>9. Counted'
  <2>1. Waiting' = {}
    BY <1>1 DEF Waiting
  <2>2. arrivals = 0
    BY <1>1, IdleFacts
  <2>3. QED
    BY <1>1, <2>1, <2>2, FS_EmptySet DEF Counted
<1>10. HostAhead'
  <2>1. EpochFits(epoch')
    BY <1>1, <1>2 DEF HostAhead, EpochFits
  <2>2. ~ reset' => flag' < nextEpoch' /\ nextEpoch' = epoch' + EpochStride
    <3>1. CASE nextEpoch + EpochStride > MaxInt - EpochStride
      BY <1>1, <3>1
    <3>2. CASE ~ (nextEpoch + EpochStride > MaxInt - EpochStride)
      <4>1. nextEpoch' = nextEpoch + EpochStride /\ flag < nextEpoch
        BY <1>1, <1>2, <3>2 DEF HostAhead
      <4>2. QED
        BY <1>1, <1>3, <4>1, Stride
    <3>3. QED
      BY <3>1, <3>2
  <2>3. reset' => nextEpoch' = 0
    BY <1>1
  <2>4. EpochFits(epoch)' /\ EpochFits(nextEpoch)'
    BY <1>4, <2>1 DEF EpochFits
  <2>5. QED
    BY <2>2, <2>3, <2>4 DEF HostAhead
<1>11. QED
  BY <1>5, <1>6, <1>7, <1>8, <1>9, <1>10 DEF IInv

LEMMA ResetStep == ASSUME IInv, ResetReady PROVE IInv'
<1>1. /\ Idle /\ reset
      /\ flag' = -1 /\ arrivals' = 0 /\ reset' = FALSE
      /\ UNCHANGED <<phase, pc, epoch, nextEpoch, launched>>
  BY DEF ResetReady
<1>2. TypeOK /\ HostAhead
  BY DEF IInv
<1>3. TypeOK'
  <2>1. flag' \in -1 .. MaxInt /\ arrivals' \in 0 .. Workers
    BY <1>1, Basics
  <2>2. reset' \in BOOLEAN
    BY <1>1
  <2>3. QED
    BY <1>1, <1>2, <2>1, <2>2 DEF TypeOK
<1>4. Positions' /\ LastAlone'
  BY <1>1 DEF IInv, Positions, LastAlone, InBarrier
<1>5. FlagBehind'
  <2>1. SUFFICES ASSUME NEW c \in Cta PROVE -1 < epoch + phase[c]
    BY <1>1, <1>2, WordTypes, CtaTypes DEF FlagBehind
  <2>2. QED
    BY <1>2, WordTypes, CtaTypes, Basics
<1>6. PassedReleased' /\ Idle'
  BY <1>1 DEF PassedReleased, Idle
<1>7. Counted'
  <2>1. Waiting' = {}
    BY <1>1 DEF Waiting, Idle
  <2>2. QED
    BY <1>1, <2>1, FS_EmptySet DEF Counted
<1>8. HostAhead'
  BY <1>1, <1>2, <1>6 DEF HostAhead, EpochFits
<1>9. QED
  BY <1>3, <1>4, <1>5, <1>6, <1>7, <1>8 DEF IInv

(* A CTA of a running kernel: what the host keeps does not change while it *)
(* runs.                                                                   *)
LEMMA HostStep ==
  ASSUME IInv, NEW c \in Cta, pc[c] # "exit", UNCHANGED host, flag' \in Int,
         flag' = flag \/ \E b \in BarrierPhases : flag' = epoch + b
  PROVE  HostAhead'
<1>1. ~ Idle
  BY DEF Idle
<1>2. UNCHANGED <<epoch, nextEpoch, reset>>
  BY DEF host
<1>3. ASSUME ~ reset PROVE flag' < nextEpoch
  <2>1. flag < nextEpoch /\ nextEpoch = epoch + EpochStride
    BY <1>1, <1>3 DEF IInv, HostAhead
  <2>2. CASE flag' = flag
    BY <2>1, <2>2
  <2>3. ASSUME NEW b \in BarrierPhases, flag' = epoch + b PROVE flag' < nextEpoch
    BY <2>1, <2>3, Stride, Basics, WordTypes DEF IInv
  <2>4. QED
    BY <2>2, <2>3
<1>4. QED
  BY <1>1, <1>2, <1>3 DEF IInv, HostAhead, EpochFits

LEMMA FinishStep == ASSUME IInv, NEW c \in Cta, FinishPhase(c) PROVE IInv'
<1>1. /\ pc[c] = "run" /\ phase[c] \in 0 .. Phases - 1 /\ phase[c] \notin BarrierPhases
      /\ phase' = [phase EXCEPT ![c] = @ + 1]
      /\ UNCHANGED <<flag, arrivals, pc>> /\ UNCHANGED host
  BY DEF FinishPhase
<1>2. TypeOK /\ flag \in Int /\ epoch \in Nat
  BY WordTypes DEF IInv
<1>3. phase'[c] = phase[c] + 1 /\ \A d \in Cta : d # c => phase'[d] = phase[d]
  BY <1>1, <1>2 DEF TypeOK
<1>4. TypeOK'
  BY <1>1, <1>2, Basics DEF TypeOK, host
<1>5. Positions'
  BY <1>1, <1>3 DEF IInv, Positions, InBarrier
<1>6. FlagBehind'
  <2>1. SUFFICES ASSUME NEW d \in Cta
                 PROVE  /\ flag <= epoch + phase'[d]
                        /\ pc[d] # "poll" => flag < epoch + phase'[d]
    BY <1>1 DEF FlagBehind, host
  <2>2. QED
    BY <1>1, <1>2, <1>3 DEF IInv, FlagBehind
<1>7. PassedReleased'
  <2>1. SUFFICES ASSUME NEW d \in Cta, NEW b \in BarrierPhases, phase'[d] > b
                 PROVE  flag >= epoch + b
    BY <1>1 DEF PassedReleased, host
  <2>2. phase[d] > b
    BY <1>1, <1>3, <2>1, Basics
  <2>3. QED
    BY <1>1, <2>2 DEF IInv, PassedReleased, Idle
<1>8. LastAlone'
  BY <1>1, <1>3 DEF IInv, LastAlone
<1>9. Counted'
  <2>1. Waiting' = Waiting
    BY <1>1, <1>3 DEF Waiting, host
  <2>2. QED
    BY <1>1, <2>1 DEF IInv, Counted
<1>10. HostAhead'
  BY <1>1, <1>2, HostStep
<1>11. QED
  BY <1>4, <1>5, <1>6, <1>7, <1>8, <1>9, <1>10 DEF IInv

LEMMA ExitStep == ASSUME IInv, NEW c \in Cta, Exit(c) PROVE IInv'
<1>1. /\ pc[c] = "run" /\ phase[c] = Phases
      /\ pc' = [pc EXCEPT ![c] = "exit"]
      /\ UNCHANGED <<flag, arrivals, phase>> /\ UNCHANGED host
  BY DEF Exit
<1>2. TypeOK /\ flag \in Int
  BY WordTypes DEF IInv
<1>3. pc'[c] = "exit" /\ \A d \in Cta : d # c => pc'[d] = pc[d]
  BY <1>1, <1>2 DEF TypeOK
<1>4. TypeOK'
  BY <1>1, <1>2 DEF TypeOK, host
<1>5. Positions'
  BY <1>1, <1>3 DEF IInv, Positions, InBarrier
<1>6. FlagBehind'
  BY <1>1, <1>3 DEF IInv, FlagBehind, host
<1>7. PassedReleased'
  BY <1>1 DEF IInv, PassedReleased, Idle, host
<1>8. LastAlone'
  BY <1>1, <1>3 DEF IInv, LastAlone
<1>9. Counted'
  <2>1. Waiting' = Waiting
    BY <1>1, <1>3 DEF Waiting, host
  <2>2. (\E d \in Cta : pc'[d] = "release") <=> (\E d \in Cta : pc[d] = "release")
    BY <1>1, <1>3
  <2>3. QED
    BY <1>1, <2>1, <2>2 DEF IInv, Counted
<1>10. HostAhead'
  BY <1>1, <1>2, HostStep
<1>11. QED
  BY <1>4, <1>5, <1>6, <1>7, <1>8, <1>9, <1>10 DEF IInv

(* The arrival that finds all others arrived finds them polling at its own *)
(* barrier, because an open barrier behind one of two CTAs cannot be ahead *)
(* of the other.                                                           *)
LEMMA LastArrival ==
  ASSUME IInv, NEW c \in Cta, pc[c] = "run", phase[c] \in BarrierPhases,
         arrivals = Workers - 1
  PROVE  \A d \in Cta \ {c} : pc[d] = "poll" /\ phase[d] = phase[c]
<1>1. TypeOK /\ ~ Idle /\ flag \in Int /\ epoch \in Nat
  BY WordTypes DEF IInv, Idle
<1>2. ASSUME NEW d \in Cta \ {c} PROVE pc[d] \notin {"clear", "release"}
  <2>1. pc[d] \in {"clear", "release"} => pc[c] = "poll"
    BY DEF IInv, LastAlone
  <2>2. QED
    BY <2>1
<1>3. arrivals = Cardinality(Waiting)
  BY <1>2 DEF IInv, Counted
<1>4. Waiting = Cta \ {c}
  <2>1. Waiting \in SUBSET (Cta \ {c})
    BY DEF Waiting
  <2>2. IsFiniteSet(Cta \ {c}) /\ Cardinality(Cta \ {c}) = Workers - 1
    BY CtaFinite, FS_RemoveElement
  <2>3. QED
    BY <1>3, <2>1, <2>2, FS_Subset
<1>5. SUFFICES ASSUME NEW d \in Cta \ {c} PROVE pc[d] = "poll" /\ phase[d] = phase[c]
  OBVIOUS
<1>6. pc[d] = "poll" /\ flag < epoch + phase[d] /\ phase[d] \in BarrierPhases
  BY <1>2, <1>4 DEF Waiting, IInv, Positions, InBarrier
<1>7. flag < epoch + phase[c]
  BY DEF IInv, FlagBehind
<1>8. phase[c] \in Nat /\ phase[d] \in Nat
  BY <1>6, Basics
<1>9. ~ (phase[c] > phase[d])
  BY <1>1, <1>6, <1>8 DEF IInv, PassedReleased
<1>10. ~ (phase[d] > phase[c])
  BY <1>1, <1>7, <1>8 DEF IInv, PassedReleased
<1>11. QED
  BY <1>6, <1>8, <1>9, <1>10

LEMMA ArriveStep == ASSUME IInv, NEW c \in Cta, Arrive(c) PROVE IInv'
<1> DEFINE at == IF arrivals = Workers - 1 THEN "clear" ELSE "poll"
<1>1. /\ pc[c] = "run" /\ phase[c] \in BarrierPhases
      /\ arrivals' = arrivals + 1
      /\ pc' = [pc EXCEPT ![c] = at]
      /\ UNCHANGED <<flag, phase>> /\ UNCHANGED host
  BY DEF Arrive
<1>2. TypeOK /\ flag \in Int /\ epoch \in Nat /\ arrivals \in Nat
  BY WordTypes DEF IInv
<1>3. pc'[c] = at /\ \A d \in Cta : d # c => pc'[d] = pc[d]
  BY <1>1, <1>2 DEF TypeOK
<1>4. \A d \in Cta : pc[d] \notin {"clear", "release"}
  <2>1. ASSUME NEW d \in Cta, pc[d] \in {"clear", "release"} PROVE FALSE
    <3>1. d # c
      BY <1>1, <2>1
    <3>2. pc[c] = "poll"
      BY <2>1, <3>1 DEF IInv, LastAlone
    <3>3. QED
      BY <1>1, <3>2
  <2>2. QED
    BY <2>1
<1>5. arrivals = Cardinality(Waiting)
  BY <1>4 DEF IInv, Counted
<1>6. flag < epoch + phase[c]
  BY <1>1 DEF IInv, FlagBehind
<1>7. Waiting' = Waiting \cup {c} /\ c \notin Waiting
  <2>1. c \notin Waiting
    BY <1>1 DEF Waiting
  <2>2. c \in Waiting'
    BY <1>1, <1>3, <1>6 DEF Waiting, host
  <2>3. \A d \in Cta : d # c => (d \in Waiting' <=> d \in Waiting)
    BY <1>1, <1>3 DEF Waiting, host
  <2>4. Waiting \subseteq Cta /\ Waiting' \subseteq Cta
    BY DEF Waiting
  <2>5. QED
    BY <2>1, <2>2, <2>3, <2>4
<1>8. arrivals' = Cardinality(Waiting') /\ arrivals' \in 0 .. Workers
  <2>1. Waiting \in SUBSET Cta /\ Waiting' \in SUBSET Cta
    BY DEF Waiting
  <2>2. IsFiniteSet(Waiting) /\ Cardinality(Waiting') \in 0 .. Workers
    BY <2>1, CtaFinite
  <2>3. Cardinality(Waiting') = Cardinality(Waiting) + 1
    BY <1>7, <2>2, FS_AddElement
  <2>4. QED
    BY <1>1, <1>5, <2>2, <2>3
<1>9. TypeOK'
  BY <1>1, <1>2, <1>8 DEF TypeOK, host
<1>10. Positions'
  BY <1>1, <1>3 DEF IInv, Positions, InBarrier
<1>11. FlagBehind'
  BY <1>1, <1>3, <1>6 DEF IInv, FlagBehind, host
<1>12. PassedReleased'
  BY <1>1 DEF IInv, PassedReleased, Idle, host
<1>13. LastAlone'
  <2>1. CASE arrivals = Workers - 1
    <3>1. \A d \in Cta \ {c} : pc[d] = "poll" /\ phase[d] = phase[c]
      BY <1>1, <2>1, LastArrival
    <3>2. QED
      BY <1>1, <1>3, <1>4, <3>1 DEF LastAlone
  <2>2. CASE arrivals # Workers - 1
    BY <1>1, <1>3, <1>4, <2>2 DEF LastAlone
  <2>3. QED
    BY <2>1, <2>2
<1>14. Counted'
  BY <1>3, <1>4, <1>8 DEF Counted
<1>15. HostAhead'
  BY <1>1, <1>2, HostStep
<1>16. QED
  BY <1>9, <1>10, <1>11, <1>12, <1>13, <1>14, <1>15 DEF IInv

LEMMA ClearStep == ASSUME IInv, NEW c \in Cta, Clear(c) PROVE IInv'
<1>1. /\ pc[c] = "clear" /\ arrivals' = 0
      /\ pc' = [pc EXCEPT ![c] = "release"]
      /\ UNCHANGED <<flag, phase>> /\ UNCHANGED host
  BY DEF Clear
<1>2. TypeOK /\ flag \in Int
  BY WordTypes DEF IInv
<1>3. pc'[c] = "release" /\ \A d \in Cta : d # c => pc'[d] = pc[d]
  BY <1>1, <1>2 DEF TypeOK
<1>4. TypeOK'
  BY <1>1, <1>2, Basics DEF TypeOK, host
<1>5. Positions'
  BY <1>1, <1>3 DEF IInv, Positions, InBarrier
<1>6. FlagBehind'
  BY <1>1, <1>3 DEF IInv, FlagBehind, host
<1>7. PassedReleased'
  BY <1>1 DEF IInv, PassedReleased, Idle, host
<1>8. LastAlone'
  BY <1>1, <1>3 DEF IInv, LastAlone
<1>9. Counted'
  BY <1>1, <1>3 DEF Counted
<1>10. HostAhead'
  BY <1>1, <1>2, HostStep
<1>11. QED
  BY <1>4, <1>5, <1>6, <1>7, <1>8, <1>9, <1>10 DEF IInv

(* The flag opens the barrier for all others, who poll for just this epoch. *)
LEMMA ReleaseStep == ASSUME IInv, NEW c \in Cta, Release(c) PROVE IInv'
<1>1. /\ pc[c] = "release" /\ flag' = epoch + phase[c]
      /\ pc' = [pc EXCEPT ![c] = "run"] /\ phase' = [phase EXCEPT ![c] = @ + 1]
      /\ UNCHANGED arrivals /\ UNCHANGED host
  BY DEF Release, Leave
<1>2. TypeOK /\ epoch \in Nat /\ flag \in Int
  BY WordTypes DEF IInv
<1>3. /\ pc'[c] = "run" /\ phase'[c] = phase[c] + 1
      /\ \A d \in Cta : d # c => pc'[d] = pc[d] /\ phase'[d] = phase[d]
  BY <1>1, <1>2 DEF TypeOK
<1>4. phase[c] \in BarrierPhases /\ phase[c] \in Nat /\ phase[c] < Phases
  BY <1>1, Basics DEF IInv, Positions, InBarrier
<1>5. \A d \in Cta \ {c} : pc[d] = "poll" /\ phase[d] = phase[c]
  BY <1>1 DEF IInv, LastAlone
<1>6. flag' \in -1 .. MaxInt
  BY <1>1, <1>2, <1>4, Stride, Basics DEF IInv, HostAhead, EpochFits
<1>7. TypeOK'
  <2>1. phase[c] + 1 \in 0 .. Phases
    BY <1>4, Basics
  <2>2. phase' \in [Cta -> 0 .. Phases]
    BY <1>1, <1>2, <2>1 DEF TypeOK
  <2>3. pc' \in [Cta -> {"run", "poll", "clear", "release", "exit"}]
    BY <1>1, <1>2 DEF TypeOK
  <2>4. QED
    BY <1>1, <1>2, <1>6, <2>2, <2>3 DEF TypeOK, host
<1>8. Positions'
  BY <1>1, <1>3 DEF IInv, Positions, InBarrier
<1>9. FlagBehind'
  <2>1. SUFFICES ASSUME NEW d \in Cta
                 PROVE  /\ flag' <= epoch + phase'[d]
                        /\ pc'[d] # "poll" => flag' < epoch + phase'[d]
    BY <1>1 DEF FlagBehind, host
  <2>2. CASE d = c
    BY <1>1, <1>2, <1>3, <1>4, <2>2
  <2>3. CASE d # c
    BY <1>1, <1>2, <1>3, <1>4, <1>5, <2>3
  <2>4. QED
    BY <2>2, <2>3
<1>10. PassedReleased'
  <2>1. SUFFICES ASSUME NEW d \in Cta, NEW b \in BarrierPhases, phase'[d] > b
                 PROVE  flag' >= epoch + b
    BY <1>1 DEF PassedReleased, host
  <2>2. phase'[d] <= phase[c] + 1
    BY <1>3, <1>4, <1>5
  <2>3. phase'[d] \in Nat /\ b \in Nat
    BY <1>3, <1>4, <1>5, Basics
  <2>4. QED
    BY <1>1, <1>2, <1>4, <2>1, <2>2, <2>3
<1>11. LastAlone'
  BY <1>3, <1>5 DEF LastAlone
<1>12. Counted'
  <2>1. Waiting' = {}
    <3>1. ASSUME NEW d \in Waiting' PROVE FALSE
      <4>1. d \in Cta /\ d # c
        BY <1>3, <3>1 DEF Waiting
      <4>2. pc'[d] = "poll" /\ ~ (flag' < epoch + phase'[d])
        BY <1>1, <1>2, <1>3, <1>4, <1>5, <4>1
      <4>3. QED
        BY <1>1, <3>1, <4>2 DEF Waiting, host
    <3>2. QED
      BY <3>1
  <2>2. arrivals = 0
    BY <1>1 DEF IInv, Counted
  <2>3. QED
    BY <1>1, <2>1, <2>2, FS_EmptySet DEF Counted
<1>13. HostAhead'
  BY <1>1, <1>4, <1>6, HostStep
<1>14. QED
  BY <1>7, <1>8, <1>9, <1>10, <1>11, <1>12, <1>13 DEF IInv

LEMMA PollStep == ASSUME IInv, NEW c \in Cta, Poll(c) PROVE IInv'
<1>1. /\ pc[c] = "poll" /\ flag = epoch + phase[c]
      /\ pc' = [pc EXCEPT ![c] = "run"] /\ phase' = [phase EXCEPT ![c] = @ + 1]
      /\ UNCHANGED <<flag, arrivals>> /\ UNCHANGED host
  BY DEF Poll, Leave
<1>2. TypeOK /\ epoch \in Nat /\ flag \in Int
  BY WordTypes DEF IInv
<1>3. /\ pc'[c] = "run" /\ phase'[c] = phase[c] + 1
      /\ \A d \in Cta : d # c => pc'[d] = pc[d] /\ phase'[d] = phase[d]
  BY <1>1, <1>2 DEF TypeOK
<1>4. phase[c] \in BarrierPhases /\ phase[c] \in Nat /\ phase[c] < Phases
  BY <1>1, Basics DEF IInv, Positions, InBarrier
<1>5. TypeOK'
  <2>1. phase[c] + 1 \in 0 .. Phases
    BY <1>4, Basics
  <2>2. phase' \in [Cta -> 0 .. Phases]
    BY <1>1, <1>2, <2>1 DEF TypeOK
  <2>3. pc' \in [Cta -> {"run", "poll", "clear", "release", "exit"}]
    BY <1>1, <1>2 DEF TypeOK
  <2>4. QED
    BY <1>1, <1>2, <2>2, <2>3 DEF TypeOK, host
<1>6. Positions'
  BY <1>1, <1>3 DEF IInv, Positions, InBarrier
<1>7. FlagBehind'
  <2>1. SUFFICES ASSUME NEW d \in Cta
                 PROVE  /\ flag <= epoch + phase'[d]
                        /\ pc'[d] # "poll" => flag < epoch + phase'[d]
    BY <1>1 DEF FlagBehind, host
  <2>2. CASE d = c
    BY <1>1, <1>2, <1>3, <1>4, <2>2
  <2>3. CASE d # c
    BY <1>3, <2>3 DEF IInv, FlagBehind
  <2>4. QED
    BY <2>2, <2>3
<1>8. PassedReleased'
  <2>1. SUFFICES ASSUME NEW d \in Cta, NEW b \in BarrierPhases, phase'[d] > b
                 PROVE  flag >= epoch + b
    BY <1>1 DEF PassedReleased, host
  <2>2. CASE d = c
    <3>1. b <= phase[c] /\ b \in Nat
      BY <1>3, <1>4, <2>1, <2>2, Basics
    <3>2. QED
      BY <1>1, <1>2, <1>4, <3>1
  <2>3. CASE d # c
    BY <1>1, <1>3, <2>1, <2>3 DEF IInv, PassedReleased, Idle
  <2>4. QED
    BY <2>2, <2>3
<1>9. \A d \in Cta : pc[d] \notin {"clear", "release"}
  <2>1. ASSUME NEW d \in Cta, pc[d] \in {"clear", "release"} PROVE FALSE
    <3>1. c \in Cta \ {d}
      BY <1>1, <2>1
    <3>2. phase[c] = phase[d]
      BY <2>1, <3>1 DEF IInv, LastAlone
    <3>3. flag < epoch + phase[d]
      BY <2>1 DEF IInv, FlagBehind
    <3>4. QED
      BY <1>1, <1>2, <1>4, <3>2, <3>3
  <2>2. QED
    BY <2>1
<1>10. LastAlone'
  BY <1>3, <1>9 DEF LastAlone
<1>11. Counted'
  <2>1. Waiting' = Waiting
    <3>1. c \notin Waiting /\ c \notin Waiting'
      BY <1>1, <1>2, <1>3, <1>4 DEF Waiting
    <3>2. \A d \in Cta : d # c => (d \in Waiting' <=> d \in Waiting)
      BY <1>1, <1>3 DEF Waiting, host
    <3>3. Waiting \subseteq Cta /\ Waiting' \subseteq Cta
      BY DEF Waiting
    <3>4. QED
      BY <3>1, <3>2, <3>3
  <2>2. QED
    BY <1>1, <1>3, <1>9, <2>1 DEF IInv, Counted
<1>12. HostAhead'
  BY <1>1, <1>2, HostStep
<1>13. QED
  BY <1>5, <1>6, <1>7, <1>8, <1>10, <1>11, <1>12 DEF IInv

LEMMA StepInvariant == IInv /\ [Next]_vars => IInv'
<1>1. SUFFICES ASSUME IInv, [Next]_vars PROVE IInv'
  OBVIOUS
<1>2. CASE Launch
  BY <1>1, <1>2, LaunchStep
<1>3. CASE ResetReady
  BY <1>1, <1>3, ResetStep
<1>4. ASSUME NEW c \in Cta, CtaStep(c) PROVE IInv'
  BY <1>1, <1>4, FinishStep, ArriveStep, ClearStep, ReleaseStep, PollStep, ExitStep DEF CtaStep
<1>5. CASE UNCHANGED vars
  BY <1>1, <1>5 DEF vars, IInv, TypeOK, Positions, FlagBehind, PassedReleased, LastAlone,
     Counted, HostAhead, EpochFits, Waiting, InBarrier, Idle
<1>6. CASE HostDone
  BY <1>5, <1>6 DEF HostDone
<1>7. QED
  BY <1>1, <1>2, <1>3, <1>4, <1>5, <1>6 DEF Next

-----------------------------------------------------------------------------
(* The results.                                                            *)

LEMMA Invariance == Spec => []IInv
<1>1. QED
  BY InitInvariant, StepInvariant, PTL DEF Spec

(* The words of grid_barrier and the callable's epochs keep their types,   *)
(* the arrival word never passes the number of CTAs.                       *)
THEOREM TypeCorrect == Spec => []TypeOK
<1>1. IInv => TypeOK
  BY DEF IInv
<1>2. QED
  BY <1>1, Invariance, PTL

(* A CTA past a grid_barrier runs only when every CTA has arrived there,   *)
(* whatever the grid, the phases of the plan and the launches before.      *)
THEOREM BarrierSeparation == Spec => []IntervalSeparation
<1>1. IInv => IntervalSeparation
  <2>1. SUFFICES ASSUME IInv, NEW c \in Cta, NEW d \in Cta, NEW b \in BarrierPhases,
                        phase[c] > b
                 PROVE  phase[d] > b \/ (phase[d] = b /\ InBarrier(d))
    BY DEF IntervalSeparation
  <2>2. TypeOK /\ flag \in Int /\ epoch \in Nat /\ phase[d] \in Nat /\ b \in Nat /\ b < Phases
    BY <2>1, WordTypes, CtaTypes, Basics DEF IInv
  <2>3. CASE Idle
    <3>1. pc[d] = "exit" /\ phase[d] = Phases
      BY <2>1, <2>3 DEF Idle, IInv, Positions
    <3>2. QED
      BY <2>2, <3>1
  <2>4. CASE ~ Idle
    <3>1. flag >= epoch + b
      BY <2>1, <2>4 DEF IInv, PassedReleased
    <3>2. flag <= epoch + phase[d] /\ (pc[d] # "poll" => flag < epoch + phase[d])
      BY <2>1 DEF IInv, FlagBehind
    <3>3. QED
      BY <2>2, <3>1, <3>2 DEF InBarrier
  <2>5. QED
    BY <2>3, <2>4
<1>2. QED
  BY <1>1, Invariance, PTL

(* Between the last arrival's clear of the arrival word and its store of   *)
(* the flag no CTA can arrive at the next barrier.                         *)
THEOREM CounterClearedInTime == Spec => []ClearBeforeNextArrival
<1>1. IInv => ClearBeforeNextArrival
  <2>1. SUFFICES ASSUME IInv, NEW c \in Cta, pc[c] = "clear", NEW d \in Cta \ {c}
                 PROVE  pc[d] = "poll" /\ phase[d] = phase[c] /\ flag # epoch + phase[d]
    BY DEF ClearBeforeNextArrival
  <2>2. pc[d] = "poll" /\ phase[d] = phase[c]
    BY <2>1 DEF IInv, LastAlone
  <2>3. flag < epoch + phase[c] /\ flag \in Int /\ epoch \in Nat /\ phase[c] \in Nat
    BY <2>1, WordTypes, CtaTypes DEF IInv, FlagBehind
  <2>4. QED
    BY <2>2, <2>3
<1>2. QED
  BY <1>1, Invariance, PTL

(* A CTA that comes to a barrier never finds the flag at its epoch         *)
(* already, not from an earlier launch and not from before a reset.        *)
THEOREM FlagNeverStale == Spec => []NoStaleRelease
<1>1. IInv => NoStaleRelease
  <2>1. SUFFICES ASSUME IInv, NEW c \in Cta, pc[c] = "run", phase[c] \in BarrierPhases
                 PROVE  flag # epoch + phase[c]
    BY DEF NoStaleRelease
  <2>2. flag < epoch + phase[c] /\ flag \in Int /\ epoch \in Nat /\ phase[c] \in Nat
    BY <2>1, WordTypes, CtaTypes DEF IInv, FlagBehind
  <2>3. QED
    BY <2>2
<1>2. QED
  BY <1>1, Invariance, PTL

(* No epoch stored in the flag passes int32, because forward resets the    *)
(* words one launch before it could.                                       *)
THEOREM CallerKeepsInt32 == Spec => []EpochsFit
<1>1. IInv => EpochsFit
  <2>1. SUFFICES ASSUME IInv, NEW b \in BarrierPhases PROVE epoch + b <= MaxInt
    BY DEF EpochsFit
  <2>2. QED
    BY <2>1, Stride, Basics, WordTypes DEF IInv, HostAhead, EpochFits
<1>2. QED
  BY <1>1, Invariance, PTL

-----------------------------------------------------------------------------
(* The refinement.  Barriers are numbered through all launches, so a CTA's *)
(* number goes up by one when it passes a phase that closes an interval    *)
(* and stays when it passes another, or when the next launch puts it back  *)
(* to phase 0.                                                             *)

ArrivedBarriers(c) == PassedBarriers(c) + (IF InBarrier(c) THEN 1 ELSE 0)

LEMMA BarriersCounted ==
  /\ Cardinality(BarrierPhases) \in Nat
  /\ \A p \in Nat : /\ BarriersBefore(p) \in Nat
                    /\ BarriersBefore(p + 1) =
                         BarriersBefore(p) + (IF p \in BarrierPhases THEN 1 ELSE 0)
                    /\ \A q \in Nat : p <= q => BarriersBefore(p) <= BarriersBefore(q)
  /\ BarriersBefore(0) = 0
  /\ BarriersBefore(Phases) = Cardinality(BarrierPhases)
<1> DEFINE Below(p) == {b \in BarrierPhases : b < p}
<1>1. IsFiniteSet(BarrierPhases)
  <2>1. 0 \in Int /\ Phases - 1 \in Int /\ BarrierPhases \subseteq 0 .. Phases - 1
    BY PhasesAssumption
  <2>2. IsFiniteSet(0 .. Phases - 1)
    BY <2>1, FS_Interval
  <2>3. QED
    BY <2>1, <2>2, FS_Subset
<1>2. ASSUME NEW p
      PROVE  IsFiniteSet(Below(p)) /\ BarriersBefore(p) = Cardinality(Below(p))
  <2>1. Below(p) \subseteq BarrierPhases
    OBVIOUS
  <2>2. IsFiniteSet(Below(p))
    BY <1>1, <2>1, FS_Subset
  <2>3. QED
    BY <2>2 DEF BarriersBefore
<1>3. Cardinality(BarrierPhases) \in Nat /\ \A p : Cardinality(Below(p)) \in Nat
  BY <1>1, <1>2, FS_CardinalityType
<1>4. ASSUME NEW p \in Nat
      PROVE  Cardinality(Below(p + 1)) =
               Cardinality(Below(p)) + (IF p \in BarrierPhases THEN 1 ELSE 0)
  <2>1. CASE p \in BarrierPhases
    <3>1. Below(p + 1) = Below(p) \cup {p} /\ p \notin Below(p)
      <4>1. \A b \in BarrierPhases : b < p + 1 <=> b < p \/ b = p
        <5>1. TAKE b \in BarrierPhases
        <5>2. b \in Nat
          BY Basics
        <5>3. QED
          BY <5>2
      <4>2. ~ (p < p)
        OBVIOUS
      <4>3. QED
        BY <2>1, <4>1, <4>2
    <3>2. QED
      BY <1>2, <2>1, <3>1, FS_AddElement
  <2>2. CASE p \notin BarrierPhases
    <3>1. Below(p + 1) = Below(p)
      <4>1. \A b \in BarrierPhases : b < p + 1 <=> b < p
        <5>1. TAKE b \in BarrierPhases
        <5>2. b \in Nat /\ b # p
          BY <2>2, Basics
        <5>3. QED
          BY <5>2
      <4>2. QED
        BY <4>1
    <3>2. QED
      BY <1>3, <2>2, <3>1
  <2>3. QED
    BY <2>1, <2>2
<1>5. ASSUME NEW p \in Nat, NEW q \in Nat, p <= q
      PROVE  Cardinality(Below(p)) <= Cardinality(Below(q))
  <2>1. Below(p) \subseteq Below(q)
    BY <1>5, Basics
  <2>2. QED
    BY <1>2, <2>1, FS_Subset
<1>6. Below(0) = {} /\ Below(Phases) = BarrierPhases
  BY Basics
<1>7. Cardinality({}) = 0
  BY FS_EmptySet
<1> HIDE DEF Below
<1>8. QED
  BY <1>2, <1>3, <1>4, <1>5, <1>6, <1>7

(* Barriers of the launches before, and a CTA's numbers with them.         *)
LEMMA NumbersTyped ==
  ASSUME TypeOK
  PROVE  /\ launched * Cardinality(BarrierPhases) \in Nat
         /\ \A c \in Cta : PassedBarriers(c) \in Nat
<1>1. launched \in Nat /\ Cardinality(BarrierPhases) \in Nat
  BY BarriersCounted DEF TypeOK
<1>2. launched * Cardinality(BarrierPhases) \in Nat
  BY <1>1, SMT
<1>3. \A c \in Cta : BarriersBefore(phase[c]) \in Nat
  BY CtaTypes, BarriersCounted
<1>4. QED
  BY <1>2, <1>3 DEF PassedBarriers

(* A step of one CTA, in the numbers of the grid barrier.                  *)
LEMMA NumbersMoved ==
  ASSUME IInv, NEW c \in Cta, launched' = launched,
         phase' = [phase EXCEPT ![c] = @ + 1], phase[c] + 1 <= Phases,
         \A d \in Cta \ {c} : pc'[d] = pc[d]
  PROVE  /\ PassedBarriers(c)' =
              PassedBarriers(c) + (IF phase[c] \in BarrierPhases THEN 1 ELSE 0)
         /\ \A d \in Cta \ {c} : /\ PassedBarriers(d)' = PassedBarriers(d)
                                 /\ ArrivedBarriers(d)' = ArrivedBarriers(d)
<1>1. TypeOK /\ phase[c] \in Nat
  BY CtaTypes DEF IInv
<1>2. phase'[c] = phase[c] + 1 /\ \A d \in Cta \ {c} : phase'[d] = phase[d]
  BY <1>1 DEF TypeOK
<1>3. \A d \in Cta \ {c} : PassedBarriers(d)' = PassedBarriers(d)
  BY <1>2 DEF PassedBarriers
<1>4. \A d \in Cta \ {c} : ArrivedBarriers(d)' = ArrivedBarriers(d)
  BY <1>3 DEF ArrivedBarriers, InBarrier
<1>5. PICK p \in Nat, n \in Nat : p = phase[c] /\ n = launched * Cardinality(BarrierPhases)
  BY <1>1, NumbersTyped
<1>6. BarriersBefore(p) \in Nat
      /\ BarriersBefore(p + 1) =
           BarriersBefore(p) + (IF p \in BarrierPhases THEN 1 ELSE 0)
  BY <1>5, BarriersCounted
<1>7. PassedBarriers(c) = n + BarriersBefore(p)
  BY <1>5 DEF PassedBarriers
<1>8. PassedBarriers(c)' = n + BarriersBefore(p + 1)
  BY <1>2, <1>5 DEF PassedBarriers
<1>9. QED
  BY <1>3, <1>4, <1>5, <1>6, <1>7, <1>8

(* A step that moves nobody's numbers is none of the grid barrier's.       *)
LEMMA NumbersKept ==
  ASSUME \A c \in Cta : /\ PassedBarriers(c)' = PassedBarriers(c)
                        /\ ArrivedBarriers(c)' = ArrivedBarriers(c)
  PROVE  UNCHANGED Barrier!vars
<1>1. /\ [c \in Cta |-> PassedBarriers(c)]' = [c \in Cta |-> PassedBarriers(c)]
      /\ [c \in Cta |-> ArrivedBarriers(c)]' = [c \in Cta |-> ArrivedBarriers(c)]
  OBVIOUS
<1>2. QED
  BY <1>1 DEF Barrier!vars, ArrivedBarriers

LEMMA ArriveMaps == ASSUME IInv, NEW c \in Cta, Arrive(c) PROVE Barrier!Arrive(c)
<1>1. /\ pc[c] = "run" /\ phase' = phase /\ launched' = launched
      /\ \A d \in Cta \ {c} : pc'[d] = pc[d]
      /\ pc'[c] \in {"clear", "poll"}
  BY DEF Arrive, host, IInv, TypeOK
<1>2. TypeOK /\ \A d \in Cta : phase[d] \in Nat /\ PassedBarriers(d) \in Nat
  BY CtaTypes, NumbersTyped DEF IInv
<1>3. \A d \in Cta : PassedBarriers(d)' = PassedBarriers(d)
  BY <1>1 DEF PassedBarriers
<1>4. ArrivedBarriers(c) = PassedBarriers(c) /\ ArrivedBarriers(c)' = PassedBarriers(c) + 1
  BY <1>1, <1>2, <1>3 DEF ArrivedBarriers, InBarrier
<1>5. \A d \in Cta \ {c} : ArrivedBarriers(d)' = ArrivedBarriers(d)
  BY <1>1, <1>3 DEF ArrivedBarriers, InBarrier
<1> DEFINE P == [d \in Cta |-> PassedBarriers(d)]
           A == [d \in Cta |-> ArrivedBarriers(d)]
<1>6. P' = P
  BY <1>3
<1>7. A' = [A EXCEPT ![c] = @ + 1] /\ A[c] = P[c]
  BY <1>4, <1>5
<1>8. QED
  BY <1>6, <1>7 DEF Barrier!Arrive, ArrivedBarriers

(* A CTA leaves: all others have arrived.                                  *)
LEMMA LeaveMaps ==
  ASSUME IInv, NEW c \in Cta, InBarrier(c), Leave(c), UNCHANGED host,
         \A d \in Cta : ArrivedBarriers(d) >= ArrivedBarriers(c)
  PROVE  Barrier!Leave(c)
<1>1. /\ phase' = [phase EXCEPT ![c] = @ + 1] /\ launched' = launched
      /\ \A d \in Cta \ {c} : pc'[d] = pc[d]
      /\ pc'[c] = "run"
  BY DEF Leave, host, IInv, TypeOK
<1>2. phase[c] \in BarrierPhases /\ phase[c] + 1 <= Phases
      /\ \A d \in Cta : PassedBarriers(d) \in Nat
  BY Basics, NumbersTyped DEF IInv, Positions
<1>3. /\ PassedBarriers(c)' = PassedBarriers(c) + 1
      /\ \A d \in Cta \ {c} : /\ PassedBarriers(d)' = PassedBarriers(d)
                              /\ ArrivedBarriers(d)' = ArrivedBarriers(d)
  BY <1>1, <1>2, NumbersMoved
<1>4. ArrivedBarriers(c) = PassedBarriers(c) + 1 /\ ArrivedBarriers(c)' = PassedBarriers(c) + 1
  BY <1>1, <1>2, <1>3 DEF ArrivedBarriers, InBarrier
<1> DEFINE P == [d \in Cta |-> PassedBarriers(d)]
           A == [d \in Cta |-> ArrivedBarriers(d)]
<1>5. P' = [P EXCEPT ![c] = @ + 1]
  BY <1>3
<1>6. A' = A
  BY <1>3, <1>4
<1>7. A[c] = P[c] + 1 /\ \A d \in Cta : A[d] >= A[c]
  BY <1>4
<1>8. QED
  BY <1>5, <1>6, <1>7 DEF Barrier!Leave, Barrier!Cta, Cta, ArrivedBarriers

(* An open barrier is one that everybody has arrived at.                   *)
LEMMA OpenForAll ==
  ASSUME IInv, NEW c \in Cta, InBarrier(c), NEW d \in Cta, phase[c] <= phase[d],
         ~ InBarrier(d) => phase[c] < phase[d]
  PROVE  ArrivedBarriers(d) >= ArrivedBarriers(c)
<1>1. PICK p \in Nat, q \in Nat, n \in Nat :
         p = phase[c] /\ q = phase[d] /\ n = launched * Cardinality(BarrierPhases)
  BY CtaTypes, NumbersTyped DEF IInv
<1>2. p \in BarrierPhases
  BY <1>1 DEF IInv, Positions
<1>3. /\ BarriersBefore(p) \in Nat /\ BarriersBefore(q) \in Nat
      /\ BarriersBefore(p) <= BarriersBefore(q)
      /\ p < q => BarriersBefore(p) + 1 <= BarriersBefore(q)
  <2>1. p + 1 \in Nat /\ (p < q => p + 1 <= q)
    OBVIOUS
  <2>2. QED
    BY <1>1, <1>2, <2>1, BarriersCounted
<1>4. ArrivedBarriers(c) = n + BarriersBefore(p) + 1
  BY <1>1 DEF ArrivedBarriers, PassedBarriers
<1>5. ArrivedBarriers(d) = n + BarriersBefore(q) + (IF InBarrier(d) THEN 1 ELSE 0)
  BY <1>1 DEF ArrivedBarriers, PassedBarriers
<1>6. QED
  BY <1>1, <1>3, <1>4, <1>5

LEMMA LaunchKeepsNumbers == ASSUME IInv, Launch PROVE UNCHANGED Barrier!vars
<1>1. /\ \A c \in Cta : pc[c] = "exit" /\ pc'[c] = "run" /\ phase'[c] = 0
      /\ launched' = launched + 1
  BY DEF Launch, Idle
<1>2. PICK n \in Nat, l \in Nat : n = Cardinality(BarrierPhases) /\ l = launched
  BY BarriersCounted DEF IInv, TypeOK
<1>3. BarriersBefore(0) = 0 /\ BarriersBefore(Phases) = n
  BY <1>2, BarriersCounted
<1>4. (l + 1) * n + 0 = l * n + n
  BY <1>2, SMT
<1>5. SUFFICES ASSUME NEW c \in Cta
               PROVE  /\ PassedBarriers(c)' = PassedBarriers(c)
                      /\ ArrivedBarriers(c)' = ArrivedBarriers(c)
  BY NumbersKept
<1>6. phase[c] = Phases
  BY <1>1 DEF IInv, Positions
<1>7. PassedBarriers(c) = l * n + n /\ PassedBarriers(c)' = (l + 1) * n + 0
  BY <1>1, <1>2, <1>3, <1>6 DEF PassedBarriers
<1>8. QED
  BY <1>1, <1>4, <1>7 DEF ArrivedBarriers, InBarrier

(* Arrival word and release flag implement GridBarrier's barrier, launches *)
(* and resets of the words included: an arrival at a barrier and the step  *)
(* that finds it open, or opens it, are the grid barrier's two steps, and  *)
(* all other steps of grid_barrier and its caller are none.                *)
THEOREM Refinement == Spec => ImplementsGridBarrier
<1>1. Init => Barrier!Init
  <2>1. SUFFICES ASSUME Init PROVE Barrier!Init
    OBVIOUS
  <2>2. \A c \in Cta : ~ InBarrier(c) /\ PassedBarriers(c) = 0
    <3>1. 0 * Cardinality(BarrierPhases) = 0
      BY BarriersCounted, SMT
    <3>2. QED
      BY <2>1, <3>1, BarriersCounted DEF Init, PassedBarriers, InBarrier
  <2>3. QED
    BY <2>2 DEF Barrier!Init, Barrier!Cta, Cta
<1>2. IInv /\ [Next]_vars => [Barrier!Next]_Barrier!vars
  <2>1. SUFFICES ASSUME IInv, [Next]_vars PROVE [Barrier!Next]_Barrier!vars
    OBVIOUS
  <2>2. TypeOK /\ flag \in Int /\ epoch \in Nat /\ \A d \in Cta : phase[d] \in Nat
    BY <2>1, WordTypes, CtaTypes DEF IInv
  <2>3. CASE Launch
    BY <2>1, <2>3, LaunchKeepsNumbers
  <2>4. CASE ResetReady
    <3>1. \A c \in Cta : /\ PassedBarriers(c)' = PassedBarriers(c)
                         /\ ArrivedBarriers(c)' = ArrivedBarriers(c)
      BY <2>4 DEF ResetReady, PassedBarriers, ArrivedBarriers, InBarrier
    <3>2. QED
      BY <3>1, NumbersKept
  <2>5. CASE UNCHANGED vars
    <3>1. \A c \in Cta : /\ PassedBarriers(c)' = PassedBarriers(c)
                         /\ ArrivedBarriers(c)' = ArrivedBarriers(c)
      BY <2>5 DEF vars, PassedBarriers, ArrivedBarriers, InBarrier
    <3>2. QED
      BY <3>1, NumbersKept
  <2>6. CASE HostDone
    BY <2>5, <2>6 DEF HostDone
  <2>7. ASSUME NEW c \in Cta, FinishPhase(c)
        PROVE  UNCHANGED Barrier!vars
    <3>1. /\ pc[c] = "run" /\ phase[c] \in 0 .. Phases - 1 /\ phase[c] \notin BarrierPhases
          /\ phase' = [phase EXCEPT ![c] = @ + 1] /\ pc' = pc /\ launched' = launched
      BY <2>7 DEF FinishPhase, host
    <3>2. phase[c] + 1 <= Phases /\ PassedBarriers(c) \in Nat
      BY <2>2, <3>1, Basics, NumbersTyped
    <3>3. /\ PassedBarriers(c)' = PassedBarriers(c) + 0
          /\ \A d \in Cta \ {c} : /\ PassedBarriers(d)' = PassedBarriers(d)
                                  /\ ArrivedBarriers(d)' = ArrivedBarriers(d)
      BY <2>1, <3>1, <3>2, NumbersMoved
    <3>4. ArrivedBarriers(c)' = ArrivedBarriers(c)
      BY <3>1, <3>2, <3>3 DEF ArrivedBarriers, InBarrier
    <3>5. QED
      BY <3>2, <3>3, <3>4, NumbersKept
  <2>8. ASSUME NEW c \in Cta, Clear(c) \/ Exit(c)
        PROVE  UNCHANGED Barrier!vars
    <3>1. phase' = phase /\ launched' = launched
          /\ \A d \in Cta : InBarrier(d)' <=> InBarrier(d)
      BY <2>2, <2>8 DEF Clear, Exit, host, InBarrier, TypeOK
    <3>2. \A d \in Cta : /\ PassedBarriers(d)' = PassedBarriers(d)
                         /\ ArrivedBarriers(d)' = ArrivedBarriers(d)
      BY <3>1 DEF PassedBarriers, ArrivedBarriers
    <3>3. QED
      BY <3>2, NumbersKept
  <2>9. ASSUME NEW c \in Cta, Release(c)
        PROVE  Barrier!Leave(c)
    <3>1. InBarrier(c) /\ Leave(c) /\ UNCHANGED host /\ pc[c] = "release"
      BY <2>9 DEF Release, InBarrier
    <3>2. ASSUME NEW d \in Cta PROVE ArrivedBarriers(d) >= ArrivedBarriers(c)
      <4>1. InBarrier(d) /\ phase[d] = phase[c]
        BY <2>1, <3>1 DEF IInv, LastAlone, InBarrier
      <4>2. QED
        BY <2>1, <2>2, <3>1, <4>1, OpenForAll
    <3>3. QED
      BY <2>1, <3>1, <3>2, LeaveMaps
  <2>10. ASSUME NEW c \in Cta, Poll(c)
         PROVE  Barrier!Leave(c)
    <3>1. InBarrier(c) /\ Leave(c) /\ UNCHANGED host /\ flag = epoch + phase[c]
      BY <2>10 DEF Poll, InBarrier
    <3>2. ASSUME NEW d \in Cta PROVE ArrivedBarriers(d) >= ArrivedBarriers(c)
      <4>1. /\ epoch + phase[c] <= epoch + phase[d]
            /\ ~ InBarrier(d) => epoch + phase[c] < epoch + phase[d]
        BY <2>1, <3>1 DEF IInv, FlagBehind, InBarrier
      <4>2. phase[c] <= phase[d] /\ (~ InBarrier(d) => phase[c] < phase[d])
        BY <2>2, <4>1
      <4>3. QED
        BY <2>1, <3>1, <4>2, OpenForAll
    <3>3. QED
      BY <2>1, <3>1, <3>2, LeaveMaps
  <2>11. ASSUME NEW c \in Cta, CtaStep(c)
         PROVE  Barrier!Arrive(c) \/ Barrier!Leave(c) \/ UNCHANGED Barrier!vars
    BY <2>1, <2>7, <2>8, <2>9, <2>10, <2>11, ArriveMaps DEF CtaStep
  <2>12. QED
    BY <2>1, <2>3, <2>4, <2>5, <2>6, <2>11 DEF Next, Barrier!Next, Barrier!Cta, Cta
<1>3. QED
  BY <1>1, <1>2, Invariance, PTL DEF Spec, ImplementsGridBarrier, Barrier!Spec

=============================================================================
