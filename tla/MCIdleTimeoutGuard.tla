------------------------- MODULE MCIdleTimeoutGuard -------------------------
(***************************************************************************)
(* An instance of IdleTimeoutGuard for TLC: two tabs of one session.       *)
(***************************************************************************)
EXTENDS IdleTimeoutGuard, TLC
=============================================================================
