----------------------- MODULE MCMeetingRegistrations -----------------------
(***************************************************************************)
(* Instances of MeetingRegistrations and MeetingScreens for TLC.           *)
(* Registrations are never reused, so their number bounds the bookings of  *)
(* a run.                                                                  *)
(***************************************************************************)
EXTENDS MeetingScreens, TLC

Symmetry ==
  Permutations(Candidate) \cup Permutations(Slot) \cup
  Permutations(Registration) \cup Permutations(Worker)
=============================================================================
