---------------------------- MODULE BookingSheet ----------------------------
(***************************************************************************)
(* What the registrations of ONE meeting promise: a sheet of paper.  Each  *)
(* candidate is on it once at most, each slot is given to one candidate at *)
(* most, and a name is put down, moved or struck out in one stroke.        *)
(*                                                                         *)
(* MeetingRegistrations.tla implements this with concurrent database       *)
(* transactions; MeetingAssumption there says what the constants are.      *)
(***************************************************************************)
CONSTANTS
  Candidate,  \* the candidates who may book
  Slot,       \* the slots of the meeting, none for a meeting of DAY_ONLY mode
  NoSlot,     \* the place of a candidate booked on a DAY_ONLY meeting
  Absent      \* the place of a candidate who is not on the sheet

VARIABLE place  \* where each candidate is on the sheet

Place == IF Slot = {} THEN {NoSlot} ELSE Slot
Free(s) == s \in Slot => \A c \in Candidate : place[c] # s
-----------------------------------------------------------------------------
Init == place = [c \in Candidate |-> Absent]

Book(c, s) ==
  /\ place[c] = Absent
  /\ Free(s)
  /\ place' = [place EXCEPT ![c] = s]

Move(c, s) ==
  /\ place[c] # Absent
  /\ Free(s)
  /\ place' = [place EXCEPT ![c] = s]

StrikeOut(c) ==
  /\ place[c] # Absent
  /\ place' = [place EXCEPT ![c] = Absent]

Next ==
  \E c \in Candidate : (\E s \in Place : Book(c, s) \/ Move(c, s)) \/ StrikeOut(c)

Spec == Init /\ [][Next]_place
=============================================================================
