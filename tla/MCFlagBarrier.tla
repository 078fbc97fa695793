---------------------------- MODULE MCFlagBarrier ----------------------------
(* Three CTAs, a plan of four phases whose first and third close an        *)
(* interval.  MaxInt = 9 lets three launches run before the epochs start   *)
(* again at 0, so the five launches wrap once and run on.                  *)
EXTENDS FlagBarrier

TwoBarriers == {0, 2}
=============================================================================
