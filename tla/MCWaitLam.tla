----------------------------- MODULE MCWaitLam -----------------------------
(* Instances of WaitLam for TLC: one tick is half of CAM_LWAIT's unit, so  *)
(* that a wait of one tick is truncated to a poll and a wait of three to   *)
(* two ticks.                                                              *)
EXTENDS WaitLam

MCTimeouts == {0, 1, 3, Inf}
=============================================================================
