--------------------------- MODULE CountingBarrier ---------------------------
(***************************************************************************)
(* The barriers of a table launch: runtime.counting_grid_barrier, numbered *)
(* by the generated kernel from the device call counter and kept within    *)
(* int32 by the runtime state's _wrap_calls.                               *)
(*                                                                         *)
(* The arrival word only grows.  Barrier number n since the last reset     *)
(* opens once it reaches (n + 1) * Workers; call k owns the numbers        *)
(* k * Epochs .. k * Epochs + Epochs - 1.  Arriving and waiting are two    *)
(* halves, because a CTA may load weights between them.  Before a launch   *)
(* whose barriers could pass int32 the host resets the words and numbers   *)
(* its calls from 0 again.                                                 *)
(***************************************************************************)
EXTENDS Integers, FiniteSets

CONSTANTS
  Workers,  \* CTAs of the cooperative launch (plan.launch.grid_size)
  Epochs,   \* barriers of one call (launch.barrier_epochs)
  MaxInt,   \* largest value of a device word (2^31 - 1 in the code)
  MaxCalls  \* bound on the history: the host launches this often again

ASSUME WorkersAssumption == Workers \in Nat \ {0}
ASSUME EpochsAssumption  == Epochs \in Nat \ {0} /\ MaxCalls \in Nat
(* A reset makes room for one call at least. *)
ASSUME MaxIntAssumption  == MaxInt \in Nat /\ Epochs * Workers <= MaxInt

Cta == 0 .. Workers - 1

VARIABLES
  counter,  \* ready[workers + 1]: arrivals since the last reset
  call,     \* number of the running call since the last reset
  done,     \* barriers of this call each CTA has left
  pc,       \* "run" or "wait" (arrived, polling the counter)
  past,     \* history: barriers completed before the last reset
  started   \* history: calls started after the first

vars == <<counter, call, done, pc, past, started>>

(* An int32 sum or product; only values past MaxInt are changed by it. *)
Int32(x) ==
  IF x <= MaxInt THEN x ELSE ((x + MaxInt + 1) % (2 * MaxInt + 2)) - (MaxInt + 1)

Ordinal(c) == call * Epochs + done[c]

(* Fault: the target of the barrier before.                                *)
TargetOneBarrierEarly(c) == Int32(Ordinal(c) * Workers)

Target(c) == Int32((Ordinal(c) + 1) * Workers)

Init ==
  /\ counter = 0
  /\ call = 0
  /\ done = [c \in Cta |-> 0]
  /\ pc   = [c \in Cta |-> "run"]
  /\ past = 0
  /\ started = 0

(* Fault: one thread of each of two warps arrives.                         *)
ArriveTwice(c) ==
  /\ pc[c] = "run"
  /\ done[c] < Epochs
  /\ counter' = Int32(counter + 2)
  /\ pc' = [pc EXCEPT ![c] = "wait"]
  /\ UNCHANGED <<call, done, past, started>>

(* counting_grid_arrive *)
Arrive(c) ==
  /\ pc[c] = "run"
  /\ done[c] < Epochs
  /\ counter' = Int32(counter + 1)
  /\ pc' = [pc EXCEPT ![c] = "wait"]
  /\ UNCHANGED <<call, done, past, started>>

(* Fault: a wait for equality, like the release flag's.                    *)
WaitExactly(c) ==
  /\ pc[c] = "wait"
  /\ counter = Target(c)
  /\ pc' = [pc EXCEPT ![c] = "run"]
  /\ done' = [done EXCEPT ![c] = @ + 1]
  /\ UNCHANGED <<counter, call, past, started>>

(* counting_grid_wait: polls that find the counter below the target change *)
(* nothing.                                                                *)
Wait(c) ==
  /\ pc[c] = "wait"
  /\ counter >= Target(c)
  /\ pc' = [pc EXCEPT ![c] = "run"]
  /\ done' = [done EXCEPT ![c] = @ + 1]
  /\ UNCHANGED <<counter, call, past, started>>

KernelEnded == \A c \in Cta : pc[c] = "run" /\ done[c] = Epochs

(* Fault: the test covers the calls made, not the call about to be made.   *)
MustResetLate == (call + 1) * Epochs * Workers > MaxInt

(* _wrap_calls, for the call after the running one. *)
MustReset == (call + 2) * Epochs * Workers > MaxInt

NextCall ==
  /\ KernelEnded
  /\ started < MaxCalls
  /\ started' = started + 1
  /\ done' = [c \in Cta |-> 0]
  /\ IF MustReset
       THEN counter' = 0 /\ call' = 0 /\ past' = past + (call + 1) * Epochs
       ELSE call' = call + 1 /\ UNCHANGED <<counter, past>>
  /\ UNCHANGED pc

(* The host may make no further call. *)
HostDone ==
  /\ KernelEnded
  /\ started = MaxCalls
  /\ UNCHANGED vars

Next == NextCall \/ HostDone \/ (\E c \in Cta : Arrive(c) \/ Wait(c))

Spec == Init /\ [][Next]_vars

(* A cooperative launch keeps every CTA resident, so each keeps running. *)
Fairness == \A c \in Cta : WF_vars(Arrive(c) \/ Wait(c))

FairSpec == Spec /\ Fairness

-----------------------------------------------------------------------------
(* Correctness *)

TypeOK ==
  /\ counter \in 0 .. MaxInt
  /\ call \in Nat
  /\ done \in [Cta -> 0 .. Epochs]
  /\ pc \in [Cta -> {"run", "wait"}]
  /\ past \in Nat
  /\ started \in Nat

(* Barriers each CTA has arrived at and left since the last reset. *)
Arrivals(c) == Ordinal(c) + (IF pc[c] = "wait" THEN 1 ELSE 0)

(* Nobody is past a barrier that somebody has not arrived at, although one *)
(* word counts the arrivals of all barriers together.                      *)
Separation == \A c, d \in Cta : Ordinal(c) <= Arrivals(d)

(* The caller's duty, stated on the barrier: the arrivals of the running   *)
(* call, the last of them included, never pass int32.                      *)
TargetsFit == (call + 1) * Epochs * Workers <= MaxInt

(* A kernel leaves the counter exactly where the next call's first target  *)
(* counts from, so numbering by call * Epochs needs no state of its own.   *)
DenseOrdinals == KernelEnded => counter = (call + 1) * Epochs * Workers

(* Every CTA that polls in counting_grid_wait leaves it, however far later *)
(* arrivals have moved the counter before it looks.                        *)
BarriersOpen == \A c \in Cta : pc[c] = "wait" ~> pc[c] = "run"

(* The numbers of the barriers run on through resets.                      *)
Barrier == INSTANCE GridBarrier WITH
  passed  <- [c \in Cta |-> past + Ordinal(c)],
  arrived <- [c \in Cta |-> past + Arrivals(c)]

(* The one growing word implements a grid barrier.                         *)
ImplementsGridBarrier == Barrier!Spec

=============================================================================
