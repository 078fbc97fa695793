----------------------------- MODULE FlagBarrier -----------------------------
(***************************************************************************)
(* The parameter launch: runtime.grid_barrier, as the generated kernel's   *)
(* worker loop calls it and as the bound callable numbers it.              *)
(*                                                                         *)
(* Every CTA runs the plan's phases in order.  A phase that closes a       *)
(* barrier interval publishes with grid_barrier(ready, workers,            *)
(* epoch + phase.index): one atomic add on the arrival word; the last      *)
(* arrival clears that word and then stores the epoch into the release     *)
(* flag, which the other CTAs poll for EQUALITY.  The host passes epoch,   *)
(* advances it by the launch's stride, and when the next launch could pass *)
(* int32 it enqueues a reset of the words behind the launch and starts     *)
(* again at epoch 0.                                                       *)
(*                                                                         *)
(* One stream runs launches and resets in the order the host enqueues      *)
(* them, and a launch takes its epoch by value, so Launch stands for the   *)
(* host call and the start of its kernel.  Threads of one CTA are one      *)
(* actor: sync_threads surrounds every access to the barrier words.        *)
(***************************************************************************)
EXTENDS Integers, FiniteSets

CONSTANTS
  Workers,        \* CTAs of the cooperative launch (plan.launch.grid_size)
  Phases,         \* phases of the plan, indexed 0 .. Phases - 1
  BarrierPhases,  \* indices of the phases that close a barrier interval
  MaxInt,         \* largest value of a device word (2^31 - 1 in the code)
  MaxLaunches     \* bound on the history: the host launches this often again

ASSUME WorkersAssumption == Workers \in Nat \ {0}
ASSUME PhasesAssumption  == Phases \in Nat /\ BarrierPhases \subseteq 0 .. Phases - 1
ASSUME MaxIntAssumption  == MaxInt \in Nat /\ Phases <= MaxInt /\ MaxLaunches \in Nat

Cta == 0 .. Workers - 1

VARIABLES
  flag,       \* ready[workers]: epoch of the last barrier released
  arrivals,   \* ready[workers + 1]: CTAs arrived at the barrier collecting now
  phase,      \* phase each CTA is at
  pc,         \* where in worker loop and barrier each CTA is
  epoch,      \* epoch argument of the running kernel
  nextEpoch,  \* the bound callable's next_epoch
  reset,      \* a reset of the words is enqueued behind the running kernel
  launched    \* history: launches before the running one

device == <<flag, arrivals, phase, pc>>
host   == <<epoch, nextEpoch, reset, launched>>
vars   == <<flag, arrivals, phase, pc, epoch, nextEpoch, reset, launched>>

(* Fault: the stride stops at the last barrier phase.                      *)
StrideOneShort ==
  LET Used == BarrierPhases \cup {1}
  IN  CHOOSE s \in Used : \A t \in Used : t <= s

(* Epochs one launch uses up: one past its last barrier phase, at least 1. *)
EpochStride ==
  LET Used == {b + 1 : b \in BarrierPhases} \cup {1}
  IN  CHOOSE s \in Used : \A t \in Used : t <= s

Idle == \A c \in Cta : pc[c] = "exit"

Init ==
  /\ flag = -1
  /\ arrivals = 0
  /\ phase = [c \in Cta |-> 0]
  /\ pc    = [c \in Cta |-> "run"]
  /\ epoch = 0
  /\ nextEpoch = IF EpochStride > MaxInt - EpochStride THEN 0 ELSE EpochStride
  /\ reset = (EpochStride > MaxInt - EpochStride)
  /\ launched = 0

-----------------------------------------------------------------------------
(* The host. *)

(* Fault: the wrap test forgets the barriers of the next launch itself.    *)
LaunchWrapsLate ==
  /\ Idle /\ ~reset
  /\ launched < MaxLaunches
  /\ epoch' = nextEpoch
  /\ LET next == nextEpoch + EpochStride
         wrap == next > MaxInt
     IN  /\ nextEpoch' = IF wrap THEN 0 ELSE next
         /\ reset' = wrap
  /\ launched' = launched + 1
  /\ phase' = [c \in Cta |-> 0]
  /\ pc'    = [c \in Cta |-> "run"]
  /\ UNCHANGED <<flag, arrivals>>

Launch ==
  /\ Idle /\ ~reset
  /\ launched < MaxLaunches
  /\ epoch' = nextEpoch
  /\ LET next == nextEpoch + EpochStride
         wrap == next > MaxInt - EpochStride
     IN  /\ nextEpoch' = IF wrap THEN 0 ELSE next
         /\ reset' = wrap
  /\ launched' = launched + 1
  /\ phase' = [c \in Cta |-> 0]
  /\ pc'    = [c \in Cta |-> "run"]
  /\ UNCHANGED <<flag, arrivals>>

ResetReady ==
  /\ Idle /\ reset
  /\ flag' = -1
  /\ arrivals' = 0
  /\ reset' = FALSE
  /\ UNCHANGED <<phase, pc, epoch, nextEpoch, launched>>

(* The host may make no further call. *)
HostDone ==
  /\ Idle /\ ~reset
  /\ launched = MaxLaunches
  /\ UNCHANGED vars

-----------------------------------------------------------------------------
(* The worker loop of CTA c. *)

(* A phase inside an interval ends with a CTA synchronisation only. *)
FinishPhase(c) ==
  /\ pc[c] = "run"
  /\ phase[c] \in (0 .. Phases - 1) \ BarrierPhases
  /\ phase' = [phase EXCEPT ![c] = @ + 1]
  /\ UNCHANGED <<flag, arrivals, pc, host>>

(* Fault: the last arrival but one takes itself for the last.              *)
ArriveOneShort(c) ==
  /\ pc[c] = "run"
  /\ phase[c] \in BarrierPhases
  /\ arrivals' = arrivals + 1
  /\ pc' = [pc EXCEPT ![c] = IF arrivals = Workers - 2 THEN "clear" ELSE "poll"]
  /\ UNCHANGED <<flag, phase, host>>

Arrive(c) ==
  /\ pc[c] = "run"
  /\ phase[c] \in BarrierPhases
  /\ arrivals' = arrivals + 1
  /\ pc' = [pc EXCEPT ![c] = IF arrivals = Workers - 1 THEN "clear" ELSE "poll"]
  /\ UNCHANGED <<flag, phase, host>>

(* Fault: the last arrival leaves the counter as it is.                    *)
ClearSkipped(c) ==
  /\ pc[c] = "clear"
  /\ pc' = [pc EXCEPT ![c] = "release"]
  /\ UNCHANGED <<flag, arrivals, phase, host>>

Clear(c) ==
  /\ pc[c] = "clear"
  /\ arrivals' = 0
  /\ pc' = [pc EXCEPT ![c] = "release"]
  /\ UNCHANGED <<flag, phase, host>>

Leave(c) ==
  /\ pc' = [pc EXCEPT ![c] = "run"]
  /\ phase' = [phase EXCEPT ![c] = @ + 1]

Release(c) ==
  /\ pc[c] = "release"
  /\ flag' = epoch + phase[c]
  /\ Leave(c)
  /\ UNCHANGED <<arrivals, host>>

(* A failed poll reads the flag again: it changes nothing. *)
Poll(c) ==
  /\ pc[c] = "poll"
  /\ flag = epoch + phase[c]
  /\ Leave(c)
  /\ UNCHANGED <<flag, arrivals, host>>

Exit(c) ==
  /\ pc[c] = "run"
  /\ phase[c] = Phases
  /\ pc' = [pc EXCEPT ![c] = "exit"]
  /\ UNCHANGED <<flag, arrivals, phase, host>>

CtaStep(c) ==
  FinishPhase(c) \/ Arrive(c) \/ Clear(c) \/ Release(c) \/ Poll(c) \/ Exit(c)

Next == Launch \/ ResetReady \/ HostDone \/ (\E c \in Cta : CtaStep(c))

Spec == Init /\ [][Next]_vars

(* A cooperative launch keeps every CTA of the grid resident, so each one  *)
(* keeps running; the stream runs a reset once the kernel before it ended. *)
Fairness == WF_vars(ResetReady) /\ \A c \in Cta : WF_vars(CtaStep(c))

FairSpec == Spec /\ Fairness

-----------------------------------------------------------------------------
(* Correctness *)

InBarrier(c) == pc[c] \in {"poll", "clear", "release"}

TypeOK ==
  /\ flag \in -1 .. MaxInt
  /\ arrivals \in 0 .. Workers
  /\ phase \in [Cta -> 0 .. Phases]
  /\ pc \in [Cta -> {"run", "poll", "clear", "release", "exit"}]
  /\ epoch \in 0 .. MaxInt
  /\ nextEpoch \in 0 .. MaxInt
  /\ reset \in BOOLEAN
  /\ launched \in Nat

(* A CTA past the barrier of phase b runs only when every CTA has finished *)
(* phase b: what a later interval reads has been written.                  *)
IntervalSeparation ==
  \A c, d \in Cta : \A b \in BarrierPhases :
    phase[c] > b => phase[d] > b \/ (phase[d] = b /\ InBarrier(d))

(* The claim beside the counter's clear: no CTA can arrive at the next     *)
(* barrier before the last arrival of this one has cleared the counter,    *)
(* because every other CTA still polls for this barrier's epoch.           *)
ClearBeforeNextArrival ==
  \A c \in Cta : pc[c] = "clear" =>
    \A d \in Cta \ {c} : pc[d] = "poll" /\ phase[d] = phase[c] /\ flag # epoch + phase[d]

(* No CTA finds its barrier open when it gets there: equality with a stale *)
(* flag, of an earlier launch or from before the epochs started again at   *)
(* 0, would let it through alone.                                          *)
NoStaleRelease ==
  \A c \in Cta : pc[c] = "run" /\ phase[c] \in BarrierPhases => flag # epoch + phase[c]

(* Every epoch a kernel stores into the int32 flag, epoch + phase.index,   *)
(* fits it: the callable starts its epochs again early enough.             *)
EpochsFit == \A b \in BarrierPhases : epoch + b <= MaxInt

(* Every CTA that is inside grid_barrier gets through: the last arrival is *)
(* recognised, and no poller misses its epoch because the flag moved on.   *)
BarriersOpen == \A c \in Cta : InBarrier(c) ~> ~InBarrier(c)

(* The numbers of the barriers run on through launches and resets.         *)
BarriersBefore(p) == Cardinality({b \in BarrierPhases : b < p})
PassedBarriers(c) == launched * Cardinality(BarrierPhases) + BarriersBefore(phase[c])

Barrier == INSTANCE GridBarrier WITH
  passed  <- [c \in Cta |-> PassedBarriers(c)],
  arrived <- [c \in Cta |-> PassedBarriers(c) + (IF InBarrier(c) THEN 1 ELSE 0)]

(* Arrival counter and release flag together implement a grid barrier.     *)
ImplementsGridBarrier == Barrier!Spec

=============================================================================
