---------------------------- MODULE MCActiveDegree ----------------------------
(***************************************************************************)
(* An instance of ActiveDegree for TLC: two requests, two applications.    *)
(***************************************************************************)
EXTENDS ActiveDegree

=============================================================================
