-------------------------- MODULE MCCountingBarrier --------------------------
(* Three CTAs and two barriers a call.  MaxInt = 13 holds the arrivals of  *)
(* two calls (12) but not of three, so the words are reset twice in the    *)
(* six calls, each time with a counter that has come close to the limit.   *)
EXTENDS CountingBarrier
=============================================================================
