----------------------------- MODULE GridBarrier -----------------------------
(***************************************************************************)
(* What a grid barrier promises to the phases of a megakernel, whatever    *)
(* device words it is built from: a CTA leaves barrier k only after every  *)
(* CTA of the cooperative grid has arrived at barrier k.  Barriers are     *)
(* numbered over the life of the barrier words, across launches and        *)
(* across resets of those words.                                           *)
(*                                                                         *)
(* FlagBarrier (runtime.grid_barrier) and CountingBarrier                  *)
(* (runtime.counting_grid_barrier) each implement this specification.      *)
(***************************************************************************)
EXTENDS Integers

CONSTANT Workers  \* CTAs of the cooperative launch (plan.launch.grid_size)

Cta == 0 .. Workers - 1

VARIABLES
  arrived,  \* barriers each CTA has arrived at
  passed    \* barriers each CTA has left

vars == <<arrived, passed>>

Init ==
  /\ arrived = [c \in Cta |-> 0]
  /\ passed  = [c \in Cta |-> 0]

Arrive(c) ==
  /\ arrived[c] = passed[c]
  /\ arrived' = [arrived EXCEPT ![c] = @ + 1]
  /\ UNCHANGED passed

Leave(c) ==
  /\ arrived[c] = passed[c] + 1
  /\ \A d \in Cta : arrived[d] >= arrived[c]
  /\ passed' = [passed EXCEPT ![c] = @ + 1]
  /\ UNCHANGED arrived

Next == \E c \in Cta : Arrive(c) \/ Leave(c)

Spec == Init /\ [][Next]_vars

-----------------------------------------------------------------------------

TypeOK ==
  /\ arrived \in [Cta -> Nat]
  /\ passed  \in [Cta -> Nat]

(* A phase that follows barrier k reads what every phase before it wrote:  *)
(* no CTA has left a barrier that another CTA has not arrived at.          *)
Separation == \A c, d \in Cta : passed[c] <= arrived[d]

(* The grid stays within one barrier of itself: no CTA runs two barrier    *)
(* intervals ahead of another.                                             *)
Lockstep == \A c, d \in Cta : passed[c] <= passed[d] + 1

=============================================================================
