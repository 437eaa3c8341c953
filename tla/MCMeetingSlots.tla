--------------------------- MODULE MCMeetingSlots ---------------------------
(***************************************************************************)
(* An instance of MeetingSlots for TLC: intervals of a day of four         *)
(* instants that touch, nest and overlap, and one that ends on the next    *)
(* day.                                                                    *)
(***************************************************************************)
EXTENDS MeetingSlots, TLC

Between(a, b) == [start |-> a, end |-> b]
Day == 0..3
Intervals ==
  {Between(0, 3), Between(0, 1), Between(1, 2), Between(1, 3), Between(3, 4)}
Workers == Permutations(Worker)
=============================================================================
