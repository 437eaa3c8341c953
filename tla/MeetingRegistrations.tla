------------------------ MODULE MeetingRegistrations ------------------------
(***************************************************************************)
(* The registrations of ONE meeting, booked, cancelled and reassigned by   *)
(* concurrent requests.                                                    *)
(*                                                                         *)
(* Each request is a Serializable transaction of PostgreSQL.  Its snapshot *)
(* is taken by its first statement, BEFORE it waits for the lock on the    *)
(* row of the meeting, and the checks made after the lock still read that  *)
(* snapshot: the row was only locked, never updated, so waiting for it     *)
(* raises no conflict.  What stands between two requests is then the pair  *)
(* of partial unique indexes and the rule that a row updated since the     *)
(* snapshot cannot be updated again.  The database may abort a transaction *)
(* for any conflict with a concurrent one; the aborts it is obliged to     *)
(* make beyond the two rules above are not relied on.                      *)
(*                                                                         *)
(* The meeting is OPEN_FOR_REGISTRATION: nothing in the code closes it.    *)
(* Who is a manager is not modelled.                                       *)
(***************************************************************************)
EXTENDS Naturals, FiniteSets

CONSTANTS
  Candidate,     \* the candidates of the commission
  Slot,          \* the slots in SLOTS mode, {} stands for DAY_ONLY mode
  Registration,  \* identities of registrations
  Worker,        \* the requests that can run at the same time
  Attempts,      \* SERIALIZABLE_RETRY_ATTEMPTS
  NoSlot,        \* a null slotUuid
  NoCandidate,   \* the candidate of a registration that does not exist
  NoRow,         \* no registration
  Absent         \* for BookingSheet

ASSUME MeetingAssumption ==
  /\ NoSlot \notin Slot
  /\ NoCandidate \notin Candidate
  /\ NoRow \notin Registration
  /\ "free" \notin Worker
  /\ Absent \notin Slot \cup {NoSlot}
  /\ Attempts \in Nat \ {0}

VARIABLES
  registration,  \* the committed rows
  approved,      \* the candidates with an APPROVED application of the right type
  clock,         \* the time, relative to the date of the meeting
  lock,          \* who holds the row of the meeting, or "free"
  tx             \* the requests

vars == <<registration, approved, clock, lock, tx>>
-----------------------------------------------------------------------------
Row == [status: {"NONE", "REGISTERED", "CANCELLED"},
        candidate: Candidate \cup {NoCandidate}, slot: Slot \cup {NoSlot}]
Table == [Registration -> Row]
NoTable ==
  [r \in Registration |-> [status |-> "NONE", candidate |-> NoCandidate, slot |-> NoSlot]]

Place == IF Slot = {} THEN {NoSlot} ELSE Slot
Clock == {"before", "dayBefore", "meetingDay", "after"}

Operation == {"createRegistration", "cancelMyRegistration",
              "cancelRegistration", "reassignRegistration"}
Locking   == {"createRegistration", "reassignRegistration"}
Retried   == Operation \ {"cancelRegistration"}

(* A request is "queued" before each attempt and "rethrown" when it ended  *)
(* with the error of the database instead of an answer.                    *)
Phase == {"idle", "queued", "begun", "locked", "written", "rethrown"}
Running == {"begun", "locked", "written"}
Transaction ==
  [phase: Phase, op: Operation \cup {"none"},
   candidate: Candidate \cup {NoCandidate}, row: Registration \cup {NoRow},
   slot: Slot \cup {NoSlot}, attempt: 0..Attempts,
   view: Table, missed: SUBSET Registration]  \* the snapshot, what was committed since
Idle ==
  [phase |-> "idle", op |-> "none", candidate |-> NoCandidate, row |-> NoRow,
   slot |-> NoSlot, attempt |-> 0, view |-> NoTable, missed |-> {}]

RegisteredIn(table) == {r \in Registration : table[r].status = "REGISTERED"}
OfCandidate(table, c) == {r \in RegisteredIn(table) : table[r].candidate = c}
OnSlot(table, s) == {r \in RegisteredIn(table) : s # NoSlot /\ table[r].slot = s}

(* The rows another transaction wrote and has not committed yet.           *)
WrittenByOthers(w) == {tx[v].row : v \in {u \in Worker \ {w} : tx[u].phase = "written"}}
-----------------------------------------------------------------------------
Init ==
  /\ registration = NoTable
  /\ approved = {}
  /\ clock = "before"
  /\ lock = "free"
  /\ tx = [w \in Worker |-> Idle]
-----------------------------------------------------------------------------
(* A transaction ends, with an answer or with a conflict to retry.         *)

(* Mutant: a refused or aborted transaction is left open.                  *)
ReleaseAtCommit(w) == lock' = IF lock = w /\ tx[w].phase = "written" THEN "free" ELSE lock

Release(w) == lock' = IF lock = w THEN "free" ELSE lock

Refuse(w) ==
  /\ tx' = [tx EXCEPT ![w] = Idle]
  /\ Release(w)
  /\ UNCHANGED <<registration, approved, clock>>

(* The same request, about to run again as it was asked for.               *)
Requeued(t, attempt) ==
  [t EXCEPT !.phase = "queued", !.attempt = attempt, !.view = NoTable, !.missed = {},
            !.row = IF t.op \in {"createRegistration", "cancelMyRegistration"} THEN NoRow ELSE @]
Rethrown(t) == [Idle EXCEPT !.phase = "rethrown", !.op = t.op]

(* Mutant: attempts are not counted.                                       *)
AfterConflictForever(t) ==
  IF t.op \in Retried THEN Requeued(t, t.attempt) ELSE Rethrown(t)

(* withSerializableRetries: the last attempt rethrows what it caught.      *)
AfterConflict(t) ==
  IF t.op \in Retried /\ t.attempt < Attempts THEN Requeued(t, t.attempt + 1) ELSE Rethrown(t)

Conflict(w) ==
  /\ tx' = [tx EXCEPT ![w] = AfterConflict(@)]
  /\ Release(w)
  /\ UNCHANGED <<registration, approved, clock>>

(* Any statement may fail once a concurrent transaction has committed.     *)
Abort(w) ==
  /\ tx[w].phase \in Running
  /\ tx[w].missed # {}
  /\ Conflict(w)
-----------------------------------------------------------------------------
(* The four requests.                                                      *)

Request(w, op, c, r, s) ==
  /\ tx[w].phase \in {"idle", "rethrown"}
  /\ tx' = [tx EXCEPT ![w] = [Idle EXCEPT !.phase = "queued", !.op = op,
                !.candidate = c, !.row = r, !.slot = s, !.attempt = 1]]
  /\ UNCHANGED <<registration, approved, clock, lock>>

(* There is an identity for each booking under way: the bound on the       *)
(* bookings of a run.                                                      *)
IdentityLeft ==
  Cardinality({v \in Worker : tx[v].op = "createRegistration" /\ tx[v].phase # "rethrown"}) <
  Cardinality({r \in Registration : registration[r].status = "NONE"})

CreateRegistration(w, c, s) ==
  /\ IdentityLeft
  /\ Request(w, "createRegistration", c, NoRow, s)
CancelMyRegistration(w, c)    == Request(w, "cancelMyRegistration", c, NoRow, NoSlot)
CancelRegistration(w, r)      == Request(w, "cancelRegistration", NoCandidate, r, NoSlot)
ReassignRegistration(w, r, s) == Request(w, "reassignRegistration", NoCandidate, r, s)

(* Mutant: the date of the meeting is not checked for a booking.           *)
AdmittedOnTheDay(w) ==
  CASE tx[w].op = "createRegistration" ->
         {r \in {NoRow} : tx[w].candidate \in approved}
    [] tx[w].op = "cancelMyRegistration" ->
         {r \in OfCandidate(registration, tx[w].candidate) : clock = "before"}
    [] OTHER -> {r \in RegisteredIn(registration) : r = tx[w].row}

(* The rows the request may go on with after its first checks, which it    *)
(* makes before any lock: NoRow for a booking that may go on.              *)
Admitted(w) ==
  CASE tx[w].op = "createRegistration" ->
         {r \in {NoRow} : clock \in {"before", "dayBefore"} /\ tx[w].candidate \in approved}
    [] tx[w].op = "cancelMyRegistration" ->
         {r \in OfCandidate(registration, tx[w].candidate) : clock = "before"}
    [] OTHER -> {r \in RegisteredIn(registration) : r = tx[w].row}

Begin(w) ==
  /\ tx[w].phase = "queued"
  /\ \/ /\ \E r \in Admitted(w) :
             tx' = [tx EXCEPT ![w].phase = "begun", ![w].view = registration, ![w].row = r]
        /\ UNCHANGED <<registration, approved, clock, lock>>
     \/ Admitted(w) = {} /\ Refuse(w)

(* lockMeetingRow.                                                         *)
Lock(w) ==
  /\ tx[w].phase = "begun"
  /\ tx[w].op \in Locking
  /\ lock = "free"
  /\ lock' = w
  /\ tx' = [tx EXCEPT ![w].phase = "locked"]
  /\ UNCHANGED <<registration, approved, clock>>

(* ensureNoActiveRegistrationForMeeting and ensureMeetingSlotIsAvailable,  *)
(* on the rows of table.                                                   *)
Taken(table, w) ==
  (OnSlot(table, tx[w].slot) \cup
   IF tx[w].op = "createRegistration" THEN OfCandidate(table, tx[w].candidate) ELSE {})
  \ {tx[w].row}

(* Mutant: a database without the two partial unique indexes.              *)
UniqueIndexDropped(w) == {}

(* The rows the unique indexes would find in the way of the write of w.    *)
UniqueIndex(w) == Taken(registration, w)

(* Mutant: READ COMMITTED, where an update takes the row as it finds it.   *)
UpdatedSinceIgnored(w) == FALSE

(* Serializable: a row updated since the snapshot is not updated again.    *)
UpdatedSince(w) == tx[w].row \in tx[w].missed

(* The checks read the snapshot, the unique indexes the rows as they are,  *)
(* and an index waits for whoever is writing a row in its way.             *)
ChecksFail(w) == Taken(tx[w].view, w) # {}
IndexReady(w) == UniqueIndex(w) \cap WrittenByOthers(w) = {}

Insert(w) ==
  /\ tx[w].phase = "locked"
  /\ tx[w].op = "createRegistration"
  /\ \/ ChecksFail(w) /\ Refuse(w)
     \/ ~ChecksFail(w) /\ IndexReady(w) /\ UniqueIndex(w) # {} /\ Refuse(w)
     \/ /\ ~ChecksFail(w) /\ UniqueIndex(w) = {}
        /\ \E r \in {q \in Registration : registration[q].status = "NONE"} :
             tx' = [tx EXCEPT ![w].phase = "written", ![w].row = r]
        /\ UNCHANGED <<registration, approved, clock, lock>>

Update(w) ==
  /\ \/ tx[w].phase = "begun" /\ tx[w].op \notin Locking
     \/ tx[w].phase = "locked" /\ tx[w].op = "reassignRegistration"
  /\ \/ ChecksFail(w) /\ Refuse(w)
     \/ /\ ~ChecksFail(w)
        /\ tx[w].row \notin WrittenByOthers(w)
        /\ \/ UpdatedSince(w) /\ Conflict(w)
           \/ ~UpdatedSince(w) /\ IndexReady(w) /\ UniqueIndex(w) # {} /\ Refuse(w)
           \/ /\ ~UpdatedSince(w) /\ UniqueIndex(w) = {}
              /\ tx' = [tx EXCEPT ![w].phase = "written"]
              /\ UNCHANGED <<registration, approved, clock, lock>>

NewRow(w) ==
  CASE tx[w].op = "createRegistration" ->
         [status |-> "REGISTERED", candidate |-> tx[w].candidate, slot |-> tx[w].slot]
    [] tx[w].op = "reassignRegistration" -> [registration[tx[w].row] EXCEPT !.slot = tx[w].slot]
    [] OTHER -> [registration[tx[w].row] EXCEPT !.status = "CANCELLED"]

Commit(w) ==
  /\ tx[w].phase = "written"
  /\ registration' = [registration EXCEPT ![tx[w].row] = NewRow(w)]
  /\ tx' = [v \in Worker |->
       IF v = w THEN Idle
       ELSE IF tx[v].phase \in Running
            THEN [tx[v] EXCEPT !.missed = @ \cup {tx[w].row}]
       ELSE tx[v]]
  /\ Release(w)
  /\ UNCHANGED <<approved, clock>>
-----------------------------------------------------------------------------
(* The commission accepts and takes back applications; time passes.        *)
Review ==
  /\ approved' \in SUBSET Candidate
  /\ UNCHANGED <<registration, clock, lock, tx>>

TimePasses ==
  /\ clock # "after"
  /\ clock' = [before |-> "dayBefore", dayBefore |-> "meetingDay", meetingDay |-> "after"][clock]
  /\ UNCHANGED <<registration, approved, lock, tx>>
-----------------------------------------------------------------------------
NewRequest(w) ==
  \/ \E c \in Candidate, s \in Place : CreateRegistration(w, c, s)
  \/ \E c \in Candidate : CancelMyRegistration(w, c)
  \/ \E r \in Registration : CancelRegistration(w, r)
  \/ \E r \in Registration, s \in Place : ReassignRegistration(w, r, s)

Step(w) == Begin(w) \/ Lock(w) \/ Insert(w) \/ Update(w) \/ Commit(w)

Next ==
  \/ \E w \in Worker : NewRequest(w) \/ Step(w) \/ Abort(w)
  \/ Review
  \/ TimePasses

Spec == Init /\ [][Next]_vars

(* Node runs every request to its end, PostgreSQL queues for its locks in  *)
(* order, and time passes.                                                 *)
Fairness ==
  /\ \A w \in Worker : SF_vars(Step(w))
  /\ WF_vars(TimePasses)

FairSpec == Spec /\ Fairness
-----------------------------------------------------------------------------
(* Properties.                                                             *)

(* Every row and every request holds values of its type.                   *)
TypeOK ==
  /\ registration \in Table
  /\ approved \subseteq Candidate
  /\ clock \in Clock
  /\ lock \in Worker \cup {"free"}
  /\ tx \in [Worker -> Transaction]

(* A slot has one active registration at most and a candidate is actively  *)
(* registered once at most, however many requests checked an old snapshot. *)
ActiveUnique ==
  \A r, q \in RegisteredIn(registration) :
    \/ r = q
    \/ /\ registration[r].candidate # registration[q].candidate
       /\ registration[r].slot = registration[q].slot => registration[r].slot = NoSlot

(* Whom a request waits for: the holder of the meeting's row, or whoever   *)
(* is writing its own row or one in the way of its unique indexes.         *)
Writers(w, rows) == {v \in Worker \ {w} : tx[v].phase = "written" /\ tx[v].row \in rows}
WaitsFor(w) ==
  IF tx[w].phase = "begun" /\ tx[w].op \in Locking THEN {lock} \ {"free"}
  ELSE IF tx[w].phase \in {"begun", "locked"} /\ ~ChecksFail(w)
       THEN Writers(w, {tx[w].row} \cup (IF UpdatedSince(w) THEN {} ELSE UniqueIndex(w)))
  ELSE {}

(* The requests take the row of the meeting before that of a registration, *)
(* and some take only the latter.  Still none waits for one that is over,  *)
(* none for itself, and none in a circle, however many there are: among    *)
(* any of them is one that waits for no other of these.                    *)
NoCircularWait ==
  /\ \A w \in Worker : \A v \in WaitsFor(w) : tx[v].phase \in Running
  /\ \A group \in (SUBSET Worker) \ {{}} : \E w \in group : WaitsFor(w) \cap group = {}

(* A registration once cancelled stays as it is: a reassignment or another *)
(* cancellation that saw it active does not bring it back or change it.    *)
CancelledStays ==
  [][\A r \in Registration :
       registration[r].status = "CANCELLED" => registration'[r] = registration[r]]_vars

(* The table of registrations, seen as a sheet.                            *)
SheetPlace ==
  [c \in Candidate |->
    IF OfCandidate(registration, c) = {} THEN Absent
    ELSE registration[CHOOSE r \in OfCandidate(registration, c) : TRUE].slot]

Sheet == INSTANCE BookingSheet WITH place <- SheetPlace

(* The concurrent transactions do what strokes on the sheet would do.      *)
ImplementsSheet == Sheet!Spec

(* Every request comes to an end: nobody waits for ever for the meeting's row, *)
(* for a row another request is writing or for the next attempt.           *)
RequestsEnd ==
  \A w \in Worker : tx[w].phase \in Running \cup {"queued"} ~> tx[w].phase \in {"idle", "rethrown"}

(* From the day of the meeting on, the bookings still running come to an   *)
(* end and no new one gets past the checks, retries included.              *)
Booking(w) == tx[w].op = "createRegistration" /\ tx[w].phase \in Running
BookingCloses == clock = "meetingDay" ~> [](\A w \in Worker : ~Booking(w))

-----------------------------------------------------------------------------
(* What the repository says and the code does not do: TLC finds it         *)
(* violated.  README.md, "Divergences".                                    *)

(* A request that lost every attempt to concurrent updates is answered     *)
(* CONCURRENCY_CONFLICT, "Retry the operation".                            *)
ExhaustedRetriesAnswered ==
  \A w \in Worker : tx[w].phase = "rethrown" => tx[w].op \notin Retried

(* Only the commission cancels or moves a booking, not the candidate.      *)
OnlyCommissionCancels ==
  [][\A r \in RegisteredIn(registration) :
       registration'[r].status = "CANCELLED" =>
         \E w \in Worker : tx[w].op = "cancelRegistration" /\ tx[w].row = r]_vars
=============================================================================
