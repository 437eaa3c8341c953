---------------------------- MODULE MeetingSlots ----------------------------
(***************************************************************************)
(* The slots managers add to ONE meeting of SLOTS mode (createSlots).      *)
(*                                                                         *)
(* As in MeetingRegistrations.tla a request is a Serializable transaction  *)
(* that reads its snapshot after waiting for the row of the meeting.  No   *)
(* index forbids overlapping slots; two requests that each read the slots  *)
(* without those of the other form a cycle, which PostgreSQL breaks by     *)
(* aborting the one that commits last.  Nothing retries it.                *)
(***************************************************************************)
EXTENDS Integers, FiniteSets, Functions

CONSTANTS
  Worker,      \* the requests that can run at the same time
  Interval,    \* the intervals a request may ask for
  MeetingDay,  \* the instants of the day of the meeting
  MaxBatch     \* how many intervals a request asks for: a bound of the model

ASSUME SlotsAssumption ==
  /\ Interval \subseteq [start: Int, end: Int]
  /\ MeetingDay \subseteq Int
  /\ MaxBatch \in Nat

VARIABLES
  slots,  \* the committed slots
  lock,   \* who holds the row of the meeting, or "free"
  tx      \* the requests

vars == <<slots, lock, tx>>
-----------------------------------------------------------------------------
Batch == UNION {[1..n -> Interval] : n \in 1..MaxBatch}
Slot == [start: Int, end: Int, sortOrder: Nat]
Request == [phase: {"idle", "begun", "written"}, incoming: Batch \cup {<<>>}, view: SUBSET Slot]
Idle == [phase |-> "idle", incoming |-> <<>>, view |-> {}]

(* ensureSlotIntervalsValid and ensureSlotIntervalsMatchMeetingDate.       *)
Valid(incoming) ==
  \A i \in DOMAIN incoming :
    /\ incoming[i].start < incoming[i].end
    /\ {incoming[i].start, incoming[i].end} \subseteq MeetingDay

IntersectsRange(a, b) == a.start < b.end /\ a.end > b.start

(* The orders of a batch in time, and the batch in one of them: which one  *)
(* makes no difference, because intervals that start together overlap.     *)
Orders(incoming) ==
  {p \in Bijection(DOMAIN incoming, DOMAIN incoming) :
     \A i, j \in DOMAIN incoming : i < j => incoming[p[i]].start <= incoming[p[j]].start}

Sorted(incoming) ==
  LET p == CHOOSE p \in Orders(incoming) : TRUE
  IN  [i \in DOMAIN incoming |-> incoming[p[i]]]

(* ensureSlotsDoNotOverlap compares neighbours, then every pair with what  *)
(* the meeting has.                                                        *)
DoNotOverlap(incoming, existing) ==
  LET sorted == Sorted(incoming)
  IN  /\ \A i \in DOMAIN incoming \ {1} : ~IntersectsRange(sorted[i - 1], sorted[i])
      /\ \A i \in DOMAIN incoming : \A s \in existing : ~IntersectsRange(incoming[i], s)

(* Mutant: every batch is numbered from 0.                                 *)
NewSlotsFromZero(incoming, existing) ==
  LET sorted == Sorted(incoming)
  IN  {[start |-> sorted[i].start, end |-> sorted[i].end,
        sortOrder |-> i - 1] : i \in DOMAIN sorted}

(* The rows of a batch, numbered in order of time after what there is.     *)
NewSlots(incoming, existing) ==
  LET sorted == Sorted(incoming)
  IN  {[start |-> sorted[i].start, end |-> sorted[i].end,
        sortOrder |-> Cardinality(existing) + i - 1] : i \in DOMAIN sorted}
-----------------------------------------------------------------------------
Init ==
  /\ slots = {}
  /\ lock = "free"
  /\ tx = [w \in Worker |-> Idle]

(* The first statement reads the meeting and takes the snapshot.           *)
Begin(w, incoming) ==
  /\ tx[w].phase = "idle"
  /\ tx' = [tx EXCEPT ![w] = [phase |-> "begun", incoming |-> incoming, view |-> slots]]
  /\ UNCHANGED <<slots, lock>>

(* lockMeetingRow, the checks and the insert.                              *)
CreateSlots(w) ==
  /\ tx[w].phase = "begun"
  /\ lock = "free"
  /\ \/ /\ Valid(tx[w].incoming) /\ DoNotOverlap(tx[w].incoming, tx[w].view)
        /\ lock' = w
        /\ tx' = [tx EXCEPT ![w].phase = "written"]
     \/ /\ ~(Valid(tx[w].incoming) /\ DoNotOverlap(tx[w].incoming, tx[w].view))
        /\ tx' = [tx EXCEPT ![w] = Idle]
        /\ UNCHANGED lock
  /\ UNCHANGED slots

(* Mutant: REPEATABLE READ, which lets both requests of the cycle commit.  *)
CommitRegardless(w) ==
  /\ tx[w].phase = "written"
  /\ slots' = slots \cup NewSlots(tx[w].incoming, tx[w].view)
  /\ tx' = [tx EXCEPT ![w] = Idle]
  /\ lock' = "free"

Commit(w) ==
  /\ tx[w].phase = "written"
  /\ tx[w].view = slots
  /\ slots' = slots \cup NewSlots(tx[w].incoming, tx[w].view)
  /\ tx' = [tx EXCEPT ![w] = Idle]
  /\ lock' = "free"

(* The conflict with a request that committed slots since the snapshot; it *)
(* may show before the commit.                                             *)
Abort(w) ==
  /\ tx[w].phase # "idle"
  /\ tx[w].view # slots
  /\ tx' = [tx EXCEPT ![w] = Idle]
  /\ lock' = IF lock = w THEN "free" ELSE lock
  /\ UNCHANGED slots

Next ==
  \E w \in Worker :
    \/ \E incoming \in Batch : Begin(w, incoming)
    \/ CreateSlots(w)
    \/ Commit(w)
    \/ Abort(w)

Spec == Init /\ [][Next]_vars
-----------------------------------------------------------------------------
(* Properties.                                                             *)

(* Every slot and every request holds values of its type.                  *)
TypeOK ==
  /\ slots \subseteq Slot
  /\ lock \in Worker \cup {"free"}
  /\ tx \in [Worker -> Request]

(* No instant of the meeting belongs to two slots, although a batch is     *)
(* only compared neighbour by neighbour and two managers may add slots at  *)
(* the same time.                                                          *)
Covers(s) == {t \in MeetingDay : s.start <= t /\ t < s.end}
SlotsDisjoint == \A s, q \in slots : s # q => Covers(s) \cap Covers(q) = {}

(* The slots are numbered 0, 1, 2, ... without a gap or a repetition, so   *)
(* the order in which they are listed is total.                            *)
SortOrderTotal ==
  /\ {s.sortOrder : s \in slots} = 0 .. Cardinality(slots) - 1
  /\ \A s, q \in slots : s.sortOrder = q.sortOrder => s = q
=============================================================================
