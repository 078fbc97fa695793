-------------------------------- MODULE Buckets --------------------------------
(***************************************************************************)
(* bucketed (buckets.py): calls of any length through the kernels of a few *)
(* fixed lengths.  A call is padded to the smallest bucket that holds it   *)
(* and its outputs are cut back; the first call of a bucket also runs the  *)
(* module eagerly, to see that padding changes nothing.                    *)
(*                                                                         *)
(* What the outputs at real positions may depend on, besides the real      *)
(* positions: nothing, the padding's values, or the padded length.         *)
(***************************************************************************)
EXTENDS Naturals, FiniteSets, FiniteSetsExt

CONSTANTS
  Lengths,   \* bucket lengths
  MaxLength, \* bound on the length of a call: no bucket holds the longest
  Verify     \* the verify argument

VARIABLES
  depends,   \* "nothing", "values" or "length"
  verified,  \* buckets whose first call is over
  answers    \* lengths answered, with their buckets

vars == <<depends, verified, answers>>

TypeOK ==
  /\ depends \in {"nothing", "values", "length"}
  /\ verified \subseteq Lengths
  /\ answers \subseteq [length : 1 .. MaxLength, bucket : Lengths]

Init ==
  /\ depends \in {"nothing", "values", "length"}
  /\ verified = {} /\ answers = {}

Holding(n) == {b \in Lengths : n <= b}

BucketFor(n) == Min(Holding(n))

Unverified(b) == Verify /\ b \notin verified

(* Two eager calls with different paddings agree with each other, and one  *)
(* with the call that is not padded.  A call as long as its bucket has no  *)
(* padding, and agrees with itself.                                        *)
Agrees(n) == n = BucketFor(n) \/ depends = "nothing"

Answer(n) ==
  /\ Holding(n) # {}
  /\ Unverified(BucketFor(n)) => Agrees(n)
  /\ verified' = IF Verify THEN verified \cup {BucketFor(n)} ELSE verified
  /\ answers' = answers \cup {[length |-> n, bucket |-> BucketFor(n)]}
  /\ UNCHANGED depends

(* PaddingDependence, and the ValueError of a length no bucket holds.      *)
Refuse(n) ==
  /\ Holding(n) # {} => Unverified(BucketFor(n)) /\ ~ Agrees(n)
  /\ UNCHANGED vars

Next == \E n \in 1 .. MaxLength : Answer(n) \/ Refuse(n)

Spec == Init /\ [][Next]_vars

(* No answer depends on its padding ("That is checked, not assumed, on the *)
(* first call of each bucket").                                            *)
PaddingChecked ==
  Verify => \A a \in answers : a.length = a.bucket \/ depends = "nothing"
=============================================================================
