-------------------------- MODULE MCReviewWorkflow --------------------------
(***************************************************************************)
(* The instance of ReviewPages for TLC.  Requests are never reused, so the *)
(* number of requests bounds the rounds of review and the snapshots, and   *)
(* no other bound is needed.                                               *)
(***************************************************************************)
EXTENDS ReviewPages
=============================================================================
