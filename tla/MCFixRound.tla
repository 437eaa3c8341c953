----------------------------- MODULE MCFixRound -----------------------------
(***************************************************************************)
(* Instances of FixRound for TLC.                                          *)
(***************************************************************************)
EXTENDS FixRound, TLC

Symmetry == Permutations(Attachment) \cup Permutations(Requirement)
=============================================================================
