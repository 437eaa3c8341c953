------------------------ MODULE MeetingScreens_proofs ------------------------
(***************************************************************************)
(* Proofs about MeetingRegistrations and about MeetingScreens, which       *)
(* extends it.  Whatever the number of candidates, slots, rows, requests   *)
(* and retries: the bookings stay unique, what is cancelled stays so, the  *)
(* concurrent transactions implement the sheet of paper of BookingSheet,   *)
(* and a fresh screen offers a candidate what the API would grant.         *)
(*                                                                         *)
(* The argument: a request that has written holds whatever it relies on    *)
(* until it commits.  A booking or a move holds the row of the meeting, so *)
(* no other can fill the place it found free; a row is written by one      *)
(* request at a time, and by none that has not seen its last update.       *)
(***************************************************************************)
EXTENDS MeetingScreens, FiniteSetTheorems, FunctionTheorems, TLAPS

(* The row of a request is one of the table, a booking's once it wrote it. *)
RowKnown(w) ==
  tx[w].phase \in Running =>
    IF tx[w].phase # "written" /\ tx[w].op = "createRegistration"
    THEN tx[w].row = NoRow
    ELSE tx[w].row \in Registration

(* A booking or a move holds the row of the meeting up to its commit.      *)
LockHeld(w) ==
  tx[w].phase = "locked" \/ (tx[w].phase = "written" /\ tx[w].op \in Locking) => lock = w

(* Nothing came in the way of what it has written.                         *)
WrittenClean(w) ==
  tx[w].phase = "written" /\ tx[w].op \in Locking => UniqueIndex(w) = {}

(* A booking writes an unused row, the others a registered one.            *)
WrittenFits(w) ==
  tx[w].phase = "written" =>
    registration[tx[w].row].status =
      IF tx[w].op = "createRegistration" THEN "NONE" ELSE "REGISTERED"

(* A request that read its row as registered knows if that has changed.    *)
StaleKnown(w) ==
  tx[w].phase \in {"begun", "locked"} /\ tx[w].op # "createRegistration" =>
    \/ registration[tx[w].row].status = "REGISTERED"
    \/ tx[w].row \in tx[w].missed

(* A place asked for is one of the meeting.                                *)
PlaceKnown(w) ==
  tx[w].phase \in Running \cup {"queued"} /\ tx[w].op \in Locking => tx[w].slot \in Place

Sound(w) ==
  /\ RowKnown(w)
  /\ LockHeld(w)
  /\ WrittenClean(w)
  /\ WrittenFits(w)
  /\ StaleKnown(w)
  /\ PlaceKnown(w)

(* Two requests do not write the same row.                                 *)
WrittenApart ==
  \A w, v \in Worker :
    tx[w].phase = "written" /\ tx[v].phase = "written" /\ w # v => tx[w].row # tx[v].row

Inv == TypeOK /\ (\A w \in Worker : Sound(w)) /\ WrittenApart /\ ActiveUnique
-----------------------------------------------------------------------------
LEMMA InitInv == Init => Inv
<1> SUFFICES ASSUME Init PROVE Inv OBVIOUS
<1>1. NoTable \in Table BY DEF NoTable, Table, Row
<1>2. Idle \in Transaction BY <1>1, MeetingAssumption DEF Idle, Transaction, Phase
<1>3. TypeOK BY <1>1, <1>2 DEF Init, TypeOK, Clock
<1>4. ASSUME NEW w \in Worker PROVE Sound(w)
  BY <1>4 DEF Init, Idle, Sound, RowKnown, LockHeld, WrittenClean, WrittenFits, StaleKnown,
     PlaceKnown, Running
<1>5. WrittenApart BY DEF Init, Idle, WrittenApart
<1>6. ActiveUnique BY DEF Init, NoTable, ActiveUnique, RegisteredIn
<1> QED BY <1>3, <1>4, <1>5, <1>6 DEF Inv

(* A step of one request that commits nothing: the others stay sound.      *)
LEMMA OneRequest ==
  ASSUME Inv, NEW w \in Worker, NEW t \in Transaction,
         tx' = [tx EXCEPT ![w] = t],
         UNCHANGED <<registration, approved, clock>>,
         lock' \in Worker \cup {"free"},
         \A v \in Worker \ {w} : lock = v => lock' = v,
         Sound(w)',
         t.phase = "written" => t.row \notin WrittenByOthers(w)
  PROVE  Inv'
<1>1. TypeOK' BY DEF Inv, TypeOK
<1>2. tx'[w] = t /\ \A v \in Worker \ {w} : tx'[v] = tx[v] BY DEF Inv, TypeOK
<1>3. ASSUME NEW v \in Worker PROVE Sound(v)'
  <2>1. CASE v = w BY <2>1
  <2>2. CASE v # w
    <3>1. Sound(v) /\ tx'[v] = tx[v] /\ (lock = v => lock' = v) BY <1>2, <2>2 DEF Inv
    <3>2. RowKnown(v)' /\ LockHeld(v)' /\ PlaceKnown(v)'
      BY <3>1 DEF Sound, RowKnown, LockHeld, PlaceKnown
    <3>3. WrittenClean(v)'
      BY <3>1 DEF Sound, WrittenClean, UniqueIndex, Taken, OnSlot, OfCandidate, RegisteredIn
    <3>4. WrittenFits(v)' /\ StaleKnown(v)' BY <3>1 DEF Sound, WrittenFits, StaleKnown
    <3> QED BY <3>2, <3>3, <3>4 DEF Sound
  <2> QED BY <2>1, <2>2
<1>4. WrittenApart'
  <2> SUFFICES ASSUME NEW u \in Worker, NEW v \in Worker, u # v,
                      tx'[u].phase = "written", tx'[v].phase = "written"
               PROVE  tx'[u].row # tx'[v].row
    BY DEF WrittenApart
  <2>1. CASE u # w /\ v # w BY <1>2, <2>1 DEF Inv, WrittenApart
  <2>2. CASE u = w BY <1>2, <2>2 DEF WrittenByOthers
  <2>3. CASE v = w BY <1>2, <2>3 DEF WrittenByOthers
  <2> QED BY <2>1, <2>2, <2>3
<1>5. ActiveUnique' BY DEF Inv, ActiveUnique, RegisteredIn
<1> QED BY <1>1, <1>3, <1>4, <1>5 DEF Inv

(* A request that ends or waits for its next attempt is sound.             *)
LEMMA Resting ==
  ASSUME Inv, NEW w \in Worker, NEW t \in Transaction,
         tx' = [tx EXCEPT ![w] = t], Release(w),
         UNCHANGED <<registration, approved, clock>>,
         t.phase \notin Running,
         t.phase = "queued" /\ t.op \in Locking => t.slot \in Place
  PROVE  Inv'
<1>1. tx'[w] = t BY DEF Inv, TypeOK
<1>2. Sound(w)'
  BY <1>1 DEF Sound, RowKnown, LockHeld, WrittenClean, WrittenFits, StaleKnown, PlaceKnown, Running
<1>3. lock' \in Worker \cup {"free"} /\ \A v \in Worker \ {w} : lock = v => lock' = v
  BY DEF Release, Inv, TypeOK
<1>4. t.phase # "written" BY DEF Running
<1> QED BY <1>2, <1>3, <1>4, OneRequest

LEMMA RefuseInv == ASSUME Inv, NEW w \in Worker, Refuse(w) PROVE Inv'
<1>1. Idle \in Transaction
  <2>1. NoTable \in Table BY DEF NoTable, Table, Row
  <2> QED BY <2>1, MeetingAssumption DEF Idle, Transaction, Phase
<1>2. Idle.phase \notin Running /\ Idle.phase # "queued" BY DEF Idle, Running
<1>3. tx' = [tx EXCEPT ![w] = Idle] /\ Release(w) /\ UNCHANGED <<registration, approved, clock>>
  BY DEF Refuse
<1> QED BY <1>1, <1>2, <1>3, Resting

LEMMA ConflictInv ==
  ASSUME Inv, NEW w \in Worker, Conflict(w), tx[w].phase \in Running
  PROVE  Inv'
<1> DEFINE t == AfterConflict(tx[w])
<1>1. tx[w] \in Transaction /\ Sound(w) BY DEF Inv, TypeOK
<1>2. NoTable \in Table BY DEF NoTable, Table, Row
<1>3. ASSUME tx[w].attempt < Attempts
      PROVE  Requeued(tx[w], tx[w].attempt + 1) \in Transaction
  <2>1. tx[w].attempt + 1 \in 0..Attempts BY <1>1, <1>3, MeetingAssumption DEF Transaction
  <2> QED BY <1>1, <1>2, <2>1 DEF Requeued, Transaction, Phase
<1>4. Rethrown(tx[w]) \in Transaction
  <2>1. Idle \in Transaction BY <1>2, MeetingAssumption DEF Idle, Transaction, Phase
  <2>2. tx[w].op \in Operation \cup {"none"} BY <1>1 DEF Transaction
  <2> QED BY <2>1, <2>2 DEF Rethrown, Transaction, Phase
<1>5. t \in Transaction BY <1>3, <1>4 DEF AfterConflict
<1>6. t.phase \notin Running BY <1>1 DEF AfterConflict, Requeued, Rethrown, Idle, Running, Transaction
<1>7. t.phase = "queued" /\ t.op \in Locking => t.slot \in Place
  BY <1>1 DEF AfterConflict, Requeued, Rethrown, Idle, Transaction, Sound, PlaceKnown
<1>8. tx' = [tx EXCEPT ![w] = t] /\ Release(w) /\ UNCHANGED <<registration, approved, clock>>
  BY <1>1 DEF Conflict, Inv, TypeOK
<1> HIDE DEF t
<1> QED BY <1>5, <1>6, <1>7, <1>8, Resting

LEMMA RequestInv ==
  ASSUME Inv, NEW w \in Worker, NewRequest(w)
  PROVE  Inv'
<1>1. PICK op \in Operation, c \in Candidate \cup {NoCandidate}, r \in Registration \cup {NoRow},
           s \in Slot \cup {NoSlot} :
        Request(w, op, c, r, s) /\ (op \in Locking => s \in Place)
  BY DEF NewRequest, CreateRegistration, CancelMyRegistration, CancelRegistration,
         ReassignRegistration, Operation, Locking, Place
<1> DEFINE t == [Idle EXCEPT !.phase = "queued", !.op = op, !.candidate = c, !.row = r,
                             !.slot = s, !.attempt = 1]
<1>2. NoTable \in Table BY DEF NoTable, Table, Row
<1>3. 1 \in 0..Attempts BY MeetingAssumption
<1>4. t \in Transaction BY <1>2, <1>3 DEF Idle, Transaction, Phase
<1>5. t.phase = "queued" /\ t.op = op /\ t.slot = s BY DEF Idle
<1>6. tx' = [tx EXCEPT ![w] = t] /\ UNCHANGED <<registration, approved, clock, lock>>
      /\ tx[w].phase \in {"idle", "rethrown"}
  BY <1>1 DEF Request
<1> HIDE DEF t
<1>7. tx'[w] = t BY <1>6 DEF Inv, TypeOK
<1>8. Sound(w)'
  BY <1>1, <1>5, <1>7 DEF Sound, RowKnown, LockHeld, WrittenClean, WrittenFits, StaleKnown,
     PlaceKnown, Running
<1>9. lock' \in Worker \cup {"free"} BY <1>6 DEF Inv, TypeOK
<1> QED BY <1>4, <1>5, <1>6, <1>8, <1>9, OneRequest

LEMMA BeginInv == ASSUME Inv, NEW w \in Worker, Begin(w) PROVE Inv'
<1>1. CASE Refuse(w) BY <1>1, RefuseInv
<1>2. CASE ~Refuse(w)
  <2>1. PICK r \in Admitted(w) :
          tx' = [tx EXCEPT ![w].phase = "begun", ![w].view = registration, ![w].row = r]
    BY <1>2 DEF Begin
  <2>2. UNCHANGED <<registration, approved, clock, lock>> /\ tx[w].phase = "queued"
    BY <1>2 DEF Begin
  <2> DEFINE t == [tx[w] EXCEPT !.phase = "begun", !.view = registration, !.row = r]
  <2>3. tx[w] \in Transaction /\ registration \in Table /\ Sound(w) BY DEF Inv, TypeOK
  <2>4. /\ r \in Registration \cup {NoRow}
        /\ IF tx[w].op = "createRegistration" THEN r = NoRow ELSE r \in RegisteredIn(registration)
    BY <2>3 DEF Admitted, RegisteredIn, OfCandidate
  <2>5. t \in Transaction BY <2>3, <2>4 DEF Transaction, Phase
  <2>6. /\ t.phase = "begun" /\ t.row = r
        /\ t.op = tx[w].op /\ t.slot = tx[w].slot
    BY <2>3 DEF Transaction
  <2>7. tx' = [tx EXCEPT ![w] = t] BY <2>1, <2>3 DEF Inv, TypeOK
  <2> HIDE DEF t
  <2>8. tx'[w] = t BY <2>7 DEF Inv, TypeOK
  <2>9. Sound(w)'
    BY <2>2, <2>3, <2>4, <2>6, <2>8 DEF Sound, RowKnown, LockHeld, WrittenClean, WrittenFits,
       StaleKnown, PlaceKnown, Running, RegisteredIn
  <2>10. lock' \in Worker \cup {"free"} /\ t.phase # "written" BY <2>2, <2>6 DEF Inv, TypeOK
  <2> QED BY <2>2, <2>5, <2>7, <2>9, <2>10, OneRequest
<1> QED BY <1>1, <1>2

LEMMA LockInv == ASSUME Inv, NEW w \in Worker, Lock(w) PROVE Inv'
<1> DEFINE t == [tx[w] EXCEPT !.phase = "locked"]
<1>1. tx[w] \in Transaction /\ Sound(w) BY DEF Inv, TypeOK
<1>2. t \in Transaction BY <1>1 DEF Transaction, Phase
<1>3. t.phase = "locked" /\ t.op = tx[w].op /\ t.slot = tx[w].slot /\ t.row = tx[w].row
      /\ t.missed = tx[w].missed
  BY <1>1 DEF Transaction
<1>4. tx' = [tx EXCEPT ![w] = t] BY <1>1 DEF Lock, Inv, TypeOK
<1> HIDE DEF t
<1>5. tx'[w] = t BY <1>4 DEF Inv, TypeOK
<1>6. Sound(w)'
  BY <1>1, <1>3, <1>5 DEF Sound, RowKnown, LockHeld, WrittenClean, WrittenFits, StaleKnown,
     PlaceKnown, Running, Lock
<1>7. /\ lock' \in Worker \cup {"free"}
      /\ \A v \in Worker \ {w} : lock = v => lock' = v
  BY MeetingAssumption DEF Lock
<1> QED BY <1>2, <1>3, <1>4, <1>6, <1>7, OneRequest DEF Lock

(* A write: the request holds its place and its row alone.                 *)
LEMMA WriteInv ==
  ASSUME Inv, NEW w \in Worker, NEW r \in Registration,
         tx' = [tx EXCEPT ![w].phase = "written", ![w].row = r],
         UNCHANGED <<registration, approved, clock, lock>>,
         tx[w].phase \in {"begun", "locked"},
         tx[w].op \in Locking => tx[w].phase = "locked" /\ UniqueIndex(w)' = {},
         registration[r].status =
           IF tx[w].op = "createRegistration" THEN "NONE" ELSE "REGISTERED",
         r \notin WrittenByOthers(w)
  PROVE  Inv'
<1> DEFINE t == [tx[w] EXCEPT !.phase = "written", !.row = r]
<1>1. tx[w] \in Transaction /\ Sound(w) BY DEF Inv, TypeOK
<1>2. t \in Transaction BY <1>1 DEF Transaction, Phase
<1>3. t.phase = "written" /\ t.op = tx[w].op /\ t.slot = tx[w].slot /\ t.row = r
  BY <1>1 DEF Transaction
<1>4. tx' = [tx EXCEPT ![w] = t] BY <1>1 DEF Inv, TypeOK
<1> HIDE DEF t
<1>5. tx'[w] = t BY <1>4 DEF Inv, TypeOK
<1>6. RowKnown(w)' /\ PlaceKnown(w)' /\ LockHeld(w)' /\ StaleKnown(w)'
  BY <1>1, <1>3, <1>5 DEF Sound, RowKnown, LockHeld, PlaceKnown, StaleKnown, Running
<1>7. WrittenClean(w)' /\ WrittenFits(w)' BY <1>3, <1>5 DEF WrittenClean, WrittenFits
<1>8. Sound(w)' BY <1>6, <1>7 DEF Sound
<1>9. lock' \in Worker \cup {"free"} BY DEF Inv, TypeOK
<1> QED BY <1>2, <1>3, <1>4, <1>8, <1>9, OneRequest

LEMMA InsertInv == ASSUME Inv, NEW w \in Worker, Insert(w) PROVE Inv'
<1>1. CASE Refuse(w) BY <1>1, RefuseInv
<1>2. CASE ~Refuse(w)
  <2>1. PICK r \in Registration :
          /\ registration[r].status = "NONE"
          /\ tx' = [tx EXCEPT ![w].phase = "written", ![w].row = r]
    BY <1>2 DEF Insert
  <2>2. /\ UNCHANGED <<registration, approved, clock, lock>>
        /\ UniqueIndex(w) = {}
        /\ tx[w].phase = "locked" /\ tx[w].op = "createRegistration"
    BY <1>2 DEF Insert
  <2>3. tx[w] \in Transaction /\ tx \in [Worker -> Transaction] /\ Sound(w) BY DEF Inv, TypeOK
  <2>4. /\ tx'[w].op = tx[w].op /\ tx'[w].slot = tx[w].slot
        /\ tx'[w].candidate = tx[w].candidate /\ tx'[w].row = r
    BY <2>1, <2>3 DEF Transaction
  <2>5. tx[w].row \notin Registration
    BY <2>2, <2>3, MeetingAssumption DEF Sound, RowKnown, Running
  <2>6. ASSUME NEW q \in UniqueIndex(w)' PROVE FALSE
    <3>1. q \in RegisteredIn(registration) /\ (q \in OnSlot(registration, tx[w].slot)
          \/ q \in OfCandidate(registration, tx[w].candidate))
      BY <2>2, <2>4, <2>6 DEF UniqueIndex, Taken, OnSlot, OfCandidate, RegisteredIn
    <3>2. q = tx[w].row BY <2>2, <3>1 DEF UniqueIndex, Taken
    <3> QED BY <2>5, <3>1, <3>2 DEF RegisteredIn
  <2>7. r \notin WrittenByOthers(w)
    BY <2>1, <2>2, <2>3 DEF WrittenByOthers, Inv, Sound, WrittenFits, LockHeld, Locking
  <2> QED BY <2>1, <2>2, <2>6, <2>7, WriteInv
<1> QED BY <1>1, <1>2

LEMMA UpdateInv == ASSUME Inv, NEW w \in Worker, Update(w) PROVE Inv'
<1>1. tx[w] \in Transaction /\ tx \in [Worker -> Transaction] /\ Sound(w) BY DEF Inv, TypeOK
<1>2. CASE Refuse(w) BY <1>2, RefuseInv
<1>3. CASE Conflict(w) BY <1>3, ConflictInv DEF Update, Running
<1>4. CASE ~Refuse(w) /\ ~Conflict(w)
  <2>1. /\ tx' = [tx EXCEPT ![w].phase = "written"]
        /\ UNCHANGED <<registration, approved, clock, lock>>
        /\ UniqueIndex(w) = {}
        /\ tx[w].row \notin tx[w].missed
        /\ tx[w].row \notin WrittenByOthers(w)
        /\ tx[w].phase \in {"begun", "locked"}
        /\ tx[w].op \in Locking => tx[w].phase = "locked"
    BY <1>4 DEF Update, UpdatedSince, Locking
  <2>2. tx[w].op # "createRegistration" BY DEF Update, Locking
  <2>3. tx[w].row \in Registration /\ registration[tx[w].row].status = "REGISTERED"
    BY <1>1, <2>1, <2>2 DEF Sound, RowKnown, StaleKnown, Running
  <2>4. tx' = [tx EXCEPT ![w].phase = "written", ![w].row = tx[w].row]
    BY <1>1, <2>1 DEF Transaction
  <2>5. /\ tx'[w].op = tx[w].op /\ tx'[w].slot = tx[w].slot
        /\ tx'[w].candidate = tx[w].candidate /\ tx'[w].row = tx[w].row
    BY <1>1, <2>1 DEF Transaction
  <2>6. UniqueIndex(w)' = {}
    BY <2>1, <2>5 DEF UniqueIndex, Taken, OnSlot, OfCandidate, RegisteredIn
  <2> QED BY <2>1, <2>2, <2>3, <2>4, <2>6, WriteInv
<1> QED BY <1>2, <1>3, <1>4
-----------------------------------------------------------------------------
(* What a commit changes: the row of the request, to a cancelled one or to *)
(* a registered one that has its candidate and its slot for itself.        *)
Written(w) == tx[w].row

LEMMA CommittedRow ==
  ASSUME Inv, NEW w \in Worker, Commit(w)
  PROVE  /\ Written(w) \in Registration
         /\ registration' \in Table
         /\ registration'[Written(w)] = NewRow(w)
         /\ \A q \in Registration \ {Written(w)} : registration'[q] = registration[q]
         /\ registration[Written(w)].status # "CANCELLED"
         /\ IF tx[w].op \in Locking
            THEN /\ NewRow(w).status = "REGISTERED"
                 /\ NewRow(w).slot = tx[w].slot
                 /\ lock = w
                 /\ \A q \in RegisteredIn(registration) \ {Written(w)} :
                      /\ registration[q].candidate # NewRow(w).candidate
                      /\ NewRow(w).slot # NoSlot => registration[q].slot # NewRow(w).slot
            ELSE NewRow(w).status = "CANCELLED"
<1>1. /\ tx[w].phase = "written" /\ tx[w] \in Transaction /\ Sound(w)
      /\ registration \in Table
  BY DEF Commit, Inv, TypeOK
<1>2. Written(w) \in Registration BY <1>1 DEF Sound, RowKnown, Running, Written
<1>3. registration[Written(w)] \in Row BY <1>1, <1>2 DEF Table
<1>4. NewRow(w) \in Row BY <1>1, <1>3 DEF NewRow, Row, Transaction, Written
<1>5. registration' = [registration EXCEPT ![Written(w)] = NewRow(w)] BY DEF Commit, Written
<1>6. registration[Written(w)].status # "CANCELLED" BY <1>1 DEF Sound, WrittenFits, Written
<1>7. CASE tx[w].op = "createRegistration"
  <2>1. /\ NewRow(w).status = "REGISTERED" /\ NewRow(w).slot = tx[w].slot
        /\ NewRow(w).candidate = tx[w].candidate
    BY <1>7 DEF NewRow
  <2>2. lock = w /\ UniqueIndex(w) = {}
    BY <1>1, <1>7 DEF Sound, LockHeld, WrittenClean, Locking
  <2>3. ASSUME NEW q \in RegisteredIn(registration) \ {Written(w)}
        PROVE  /\ registration[q].candidate # NewRow(w).candidate
               /\ NewRow(w).slot # NoSlot => registration[q].slot # NewRow(w).slot
    BY <1>7, <2>1, <2>2 DEF UniqueIndex, Taken, OnSlot, OfCandidate, Written
  <2> QED BY <1>1, <1>2, <1>4, <1>5, <1>6, <1>7, <2>1, <2>2, <2>3 DEF Table, Locking
<1>8. CASE tx[w].op = "reassignRegistration"
  <2>1. /\ NewRow(w).status = registration[Written(w)].status
        /\ NewRow(w).slot = tx[w].slot
        /\ NewRow(w).candidate = registration[Written(w)].candidate
    BY <1>3, <1>8 DEF NewRow, Row, Written
  <2>2. /\ lock = w /\ UniqueIndex(w) = {}
        /\ registration[Written(w)].status = "REGISTERED"
    BY <1>1, <1>8 DEF Sound, LockHeld, WrittenClean, WrittenFits, Locking, Written
  <2>3. ASSUME NEW q \in RegisteredIn(registration) \ {Written(w)}
        PROVE  /\ registration[q].candidate # NewRow(w).candidate
               /\ NewRow(w).slot # NoSlot => registration[q].slot # NewRow(w).slot
    <3>1. registration[q].candidate # registration[Written(w)].candidate
      BY <1>2, <2>2 DEF Inv, ActiveUnique, RegisteredIn
    <3>2. NewRow(w).slot # NoSlot => registration[q].slot # NewRow(w).slot
      BY <2>1, <2>2 DEF UniqueIndex, Taken, OnSlot, Written
    <3> QED BY <2>1, <3>1, <3>2
  <2> QED BY <1>1, <1>2, <1>4, <1>5, <1>6, <1>8, <2>1, <2>2, <2>3 DEF Table, Locking
<1>9. CASE tx[w].op \notin Locking
  <2>1. NewRow(w).status = "CANCELLED" BY <1>3, <1>9 DEF NewRow, Row, Locking, Written
  <2> QED BY <1>1, <1>2, <1>4, <1>5, <1>6, <1>9, <2>1 DEF Table
<1> QED BY <1>7, <1>8, <1>9 DEF Locking

LEMMA CommitTypes == ASSUME Inv, NEW w \in Worker, Commit(w) PROVE TypeOK'
<1>1. registration' \in Table /\ Written(w) \in Registration BY CommittedRow
<1>2. Idle \in Transaction
  <2>1. NoTable \in Table BY DEF NoTable, Table, Row
  <2> QED BY <2>1, MeetingAssumption DEF Idle, Transaction, Phase
<1>3. ASSUME NEW v \in Worker
      PROVE  [tx[v] EXCEPT !.missed = @ \cup {tx[w].row}] \in Transaction
  <2>1. tx[v] \in Transaction BY DEF Inv, TypeOK
  <2>2. tx[v].missed \cup {tx[w].row} \in SUBSET Registration
    BY <1>1, <2>1 DEF Transaction, Written
  <2> QED BY <2>1, <2>2 DEF Transaction
<1>4. tx' \in [Worker -> Transaction] BY <1>2, <1>3 DEF Commit, Inv, TypeOK
<1>5. lock' \in Worker \cup {"free"} BY DEF Commit, Release, Inv, TypeOK
<1> QED BY <1>1, <1>4, <1>5 DEF Commit, Inv, TypeOK

LEMMA CommitUnique == ASSUME Inv, NEW w \in Worker, Commit(w) PROVE ActiveUnique'
<1> SUFFICES ASSUME NEW r \in RegisteredIn(registration'), NEW q \in RegisteredIn(registration'),
                    r # q
             PROVE  /\ registration'[r].candidate # registration'[q].candidate
                    /\ registration'[r].slot = registration'[q].slot
                       => registration'[r].slot = NoSlot
  BY DEF ActiveUnique
<1>1. r \in Registration /\ q \in Registration BY DEF RegisteredIn
<1>2. ASSUME NEW p \in RegisteredIn(registration'), p # Written(w)
      PROVE  p \in RegisteredIn(registration) /\ registration'[p] = registration[p]
  BY <1>2, CommittedRow DEF RegisteredIn
<1>3. Written(w) \in RegisteredIn(registration') => tx[w].op \in Locking
  BY CommittedRow DEF RegisteredIn
<1>4. CASE r # Written(w) /\ q # Written(w) BY <1>2, <1>4 DEF Inv, ActiveUnique
<1>5. CASE r = Written(w) BY <1>2, <1>3, <1>5, CommittedRow
<1>6. CASE q = Written(w) BY <1>2, <1>3, <1>6, CommittedRow
<1> QED BY <1>4, <1>5, <1>6

LEMMA CommitInv == ASSUME Inv, NEW w \in Worker, Commit(w) PROVE Inv'
<1>1. tx'[w] = Idle BY DEF Commit
<1>2. ASSUME NEW v \in Worker, v # w
      PROVE  /\ tx'[v].phase = tx[v].phase /\ tx'[v].op = tx[v].op /\ tx'[v].row = tx[v].row
             /\ tx'[v].slot = tx[v].slot /\ tx'[v].candidate = tx[v].candidate
             /\ tx'[v].missed = IF tx[v].phase \in Running THEN tx[v].missed \cup {Written(w)}
                                ELSE tx[v].missed
  <2>1. tx[v] \in Transaction BY DEF Inv, TypeOK
  <2> QED BY <1>2, <2>1 DEF Commit, Transaction, Written
<1>3. ASSUME NEW v \in Worker PROVE Sound(v)'
  <2>1. CASE v = w
    BY <1>1, <2>1 DEF Idle, Sound, RowKnown, LockHeld, WrittenClean, WrittenFits, StaleKnown,
       PlaceKnown, Running
  <2>2. CASE v # w
    <3>1. Sound(v) BY DEF Inv
    <3>2. RowKnown(v)' /\ PlaceKnown(v)' BY <1>2, <2>2, <3>1 DEF Sound, RowKnown, PlaceKnown
    <3>3. LockHeld(v)' BY <1>2, <2>2, <3>1 DEF Sound, LockHeld, Commit, Release
    <3>4. ASSUME tx[v].phase = "written" PROVE tx[v].row # Written(w)
      BY <2>2, <3>4 DEF Inv, WrittenApart, Commit, Written
    <3>5. WrittenFits(v)'
      BY <1>2, <2>2, <3>1, <3>4, CommittedRow DEF Sound, WrittenFits, RowKnown, Running
    <3>6. StaleKnown(v)'
      BY <1>2, <2>2, <3>1, CommittedRow DEF Sound, StaleKnown, RowKnown, Running
    <3>7. WrittenClean(v)'
      <4> SUFFICES ASSUME tx[v].phase = "written", tx[v].op \in Locking
                   PROVE  UniqueIndex(v)' = {}
        BY <1>2, <2>2 DEF WrittenClean
      <4>1. lock = v /\ UniqueIndex(v) = {} BY <3>1 DEF Sound, LockHeld, WrittenClean
      <4>2. NewRow(w).status = "CANCELLED" BY <2>2, <4>1, CommittedRow
      <4>3. ASSUME NEW p \in RegisteredIn(registration')
            PROVE  p \in RegisteredIn(registration) /\ registration'[p] = registration[p]
        BY <4>2, CommittedRow DEF RegisteredIn
      <4>4. ASSUME NEW p, p \in UniqueIndex(v)' PROVE p \in UniqueIndex(v)
        <5>1. /\ tx'[v].op = tx[v].op /\ tx'[v].row = tx[v].row
              /\ tx'[v].slot = tx[v].slot /\ tx'[v].candidate = tx[v].candidate
          BY <1>2, <2>2
        <5>2. p \in RegisteredIn(registration')
          BY <4>4 DEF UniqueIndex, Taken, OnSlot, OfCandidate
        <5>3. p # tx[v].row BY <4>4, <5>1 DEF UniqueIndex, Taken
        <5>4. \/ tx[v].slot # NoSlot /\ registration'[p].slot = tx[v].slot
              \/ tx[v].op = "createRegistration" /\ registration'[p].candidate = tx[v].candidate
          BY <4>4, <5>1 DEF UniqueIndex, Taken, OnSlot, OfCandidate
        <5> QED BY <4>3, <5>2, <5>3, <5>4 DEF UniqueIndex, Taken, OnSlot, OfCandidate
      <4> QED BY <4>1, <4>4
    <3> QED BY <3>2, <3>3, <3>5, <3>6, <3>7 DEF Sound
  <2> QED BY <2>1, <2>2
<1>4. WrittenApart'
  <2> SUFFICES ASSUME NEW u \in Worker, NEW v \in Worker, u # v,
                      tx'[u].phase = "written", tx'[v].phase = "written"
               PROVE  tx'[u].row # tx'[v].row
    BY DEF WrittenApart
  <2>1. u # w /\ v # w BY <1>1 DEF Idle
  <2>2. tx'[u].row = tx[u].row /\ tx[u].phase = "written" BY <1>2, <2>1
  <2>3. tx'[v].row = tx[v].row /\ tx[v].phase = "written" BY <1>2, <2>1
  <2> QED BY <2>2, <2>3 DEF Inv, WrittenApart
<1> QED BY <1>3, <1>4, CommitTypes, CommitUnique DEF Inv
-----------------------------------------------------------------------------
LEMMA StutterInv == ASSUME Inv, UNCHANGED vars PROVE Inv'
BY DEF vars, Inv, TypeOK, Sound, RowKnown, LockHeld, WrittenClean, WrittenFits, StaleKnown,
   PlaceKnown, WrittenApart, ActiveUnique, UniqueIndex, Taken, OnSlot, OfCandidate, RegisteredIn

(* Reviews and time leave the registrations and the requests alone.        *)
LEMMA AroundInv ==
  ASSUME Inv, UNCHANGED <<registration, lock, tx>>, approved' \subseteq Candidate, clock' \in Clock
  PROVE  Inv'
<1>1. TypeOK' BY DEF Inv, TypeOK
<1>2. ASSUME NEW v \in Worker PROVE Sound(v)'
  BY DEF Inv, Sound, RowKnown, LockHeld, WrittenClean, WrittenFits, StaleKnown, PlaceKnown,
     UniqueIndex, Taken, OnSlot, OfCandidate, RegisteredIn
<1>3. WrittenApart' /\ ActiveUnique' BY DEF Inv, WrittenApart, ActiveUnique, RegisteredIn
<1> QED BY <1>1, <1>2, <1>3 DEF Inv

LEMMA NextInv == Inv /\ [Next]_vars => Inv'
<1> SUFFICES ASSUME Inv, [Next]_vars PROVE Inv' OBVIOUS
<1>1. ASSUME NEW w \in Worker, NewRequest(w) PROVE Inv' BY <1>1, RequestInv
<1>2. ASSUME NEW w \in Worker, Step(w) PROVE Inv'
  BY <1>2, BeginInv, LockInv, InsertInv, UpdateInv, CommitInv DEF Step
<1>3. ASSUME NEW w \in Worker, Abort(w) PROVE Inv' BY <1>3, ConflictInv DEF Abort
<1>4. ASSUME Review PROVE Inv' BY <1>4, AroundInv DEF Review, Inv, TypeOK
<1>5. ASSUME TimePasses PROVE Inv'
  <2>1. clock' \in Clock /\ approved' \subseteq Candidate BY <1>5 DEF TimePasses, Clock, Inv, TypeOK
  <2> QED BY <1>5, <2>1, AroundInv DEF TimePasses
<1>6. ASSUME UNCHANGED vars PROVE Inv' BY <1>6, StutterInv
<1> QED BY <1>1, <1>2, <1>3, <1>4, <1>5, <1>6 DEF Next

LEMMA Always == Spec => []Inv
BY InitInv, NextInv, PTL DEF Spec

(* Type correctness: every row, every request and the lock of the meeting  *)
(* keep the values of their columns (TypeOK).                              *)
THEOREM TypeCorrect == Spec => []TypeOK
<1>1. Inv => TypeOK BY DEF Inv
<1> QED BY <1>1, Always, PTL

(* No slot is booked twice and no candidate is registered twice, however   *)
(* many requests passed checks that read an old snapshot (ActiveUnique).   *)
THEOREM BookingsUnique == Spec => []ActiveUnique
<1>1. Inv => ActiveUnique BY DEF Inv
<1> QED BY <1>1, Always, PTL

(* Only a commit changes rows.                                             *)
LEMMA CommitsOnly ==
  ASSUME [Next]_vars
  PROVE  registration' = registration \/ \E w \in Worker : Commit(w)
<1>1. ASSUME NEW w \in Worker, NewRequest(w) PROVE registration' = registration
  BY <1>1 DEF NewRequest, CreateRegistration, CancelMyRegistration, CancelRegistration,
              ReassignRegistration, Request
<1>2. ASSUME NEW w \in Worker, Step(w), ~Commit(w) PROVE registration' = registration
  BY <1>2 DEF Step, Begin, Lock, Insert, Update, Refuse, Conflict
<1>3. ASSUME NEW w \in Worker, Abort(w) PROVE registration' = registration
  BY <1>3 DEF Abort, Conflict
<1>4. ASSUME Review \/ TimePasses \/ UNCHANGED vars PROVE registration' = registration
  BY <1>4 DEF Review, TimePasses, vars
<1> QED BY <1>1, <1>2, <1>3, <1>4 DEF Next

(* A cancelled registration is never moved, revived or cancelled again by  *)
(* a request that saw it active (CancelledStays).                          *)
THEOREM CancelledForGood == Spec => CancelledStays
<1> DEFINE A == \A r \in Registration :
                  registration[r].status = "CANCELLED" => registration'[r] = registration[r]
<1>1. ASSUME Inv, [Next]_vars PROVE [A]_vars
  <2>1. ASSUME NEW w \in Worker, Commit(w) PROVE A BY <1>1, <2>1, CommittedRow
  <2>2. ASSUME registration' = registration PROVE A BY <2>2
  <2> QED BY <1>1, <2>1, <2>2, CommitsOnly
<1> QED BY <1>1, Always, PTL DEF Spec, CancelledStays
-----------------------------------------------------------------------------
(* Who holds the row of the meeting is at work: whatever ends a request    *)
(* gives it back.                                                          *)
HolderWorks == \A w \in Worker : lock = w => tx[w].phase \in {"locked", "written"}

(* A step of one request keeps that if the request gives the row back or   *)
(* goes on working.                                                        *)
LEMMA OneHolder ==
  ASSUME Inv, HolderWorks, NEW w \in Worker,
         \A v \in Worker \ {w} : tx'[v].phase = tx[v].phase,
         \A v \in Worker \ {w} : lock' = v => lock = v,
         lock' = w => tx'[w].phase \in {"locked", "written"}
  PROVE  HolderWorks'
BY DEF HolderWorks

LEMMA HolderStep == ASSUME Inv, HolderWorks, [Next]_vars PROVE HolderWorks'
<1>1. tx \in [Worker -> Transaction] /\ "free" \notin Worker
  BY MeetingAssumption DEF Inv, TypeOK
<1>2. ASSUME NEW w \in Worker, Release(w), \A v \in Worker \ {w} : tx'[v].phase = tx[v].phase
      PROVE  HolderWorks'
  BY <1>1, <1>2, OneHolder DEF Release
<1>3. ASSUME NEW w \in Worker, Refuse(w) \/ Conflict(w) PROVE HolderWorks'
  BY <1>1, <1>2, <1>3 DEF Refuse, Conflict
<1>4. ASSUME NEW w \in Worker, NewRequest(w) PROVE HolderWorks'
  <2>1. /\ tx[w].phase \in {"idle", "rethrown"}
        /\ lock' = lock
        /\ \A v \in Worker \ {w} : tx'[v].phase = tx[v].phase
    BY <1>1, <1>4 DEF NewRequest, CreateRegistration, CancelMyRegistration, CancelRegistration,
                      ReassignRegistration, Request
  <2> QED BY <2>1, OneHolder DEF HolderWorks
<1>5. ASSUME NEW w \in Worker, Begin(w), ~Refuse(w) PROVE HolderWorks'
  <2>1. /\ tx[w].phase = "queued" /\ lock' = lock
        /\ \A v \in Worker \ {w} : tx'[v].phase = tx[v].phase
    BY <1>1, <1>5 DEF Begin
  <2> QED BY <2>1, OneHolder DEF HolderWorks
<1>6. ASSUME NEW w \in Worker, Lock(w) PROVE HolderWorks'
  BY <1>1, <1>6, OneHolder DEF Lock, Transaction
<1>7. ASSUME NEW w \in Worker, Insert(w) \/ Update(w), ~Refuse(w), ~Conflict(w) PROVE HolderWorks'
  <2>1. /\ tx'[w].phase = "written" /\ lock' = lock
        /\ \A v \in Worker \ {w} : tx'[v].phase = tx[v].phase
    BY <1>1, <1>7 DEF Insert, Update, Transaction
  <2> QED BY <2>1, OneHolder
<1>8. ASSUME NEW w \in Worker, Commit(w) PROVE HolderWorks'
  <2>1. \A v \in Worker \ {w} : tx'[v].phase = tx[v].phase
    BY <1>1, <1>8 DEF Commit, Transaction
  <2> QED BY <1>2, <1>8, <2>1 DEF Commit
<1>9. CASE Review \/ TimePasses \/ UNCHANGED vars
  BY <1>9 DEF Review, TimePasses, vars, HolderWorks
<1> QED BY <1>3, <1>4, <1>5, <1>6, <1>7, <1>8, <1>9 DEF Next, Step, Abort

(* The order of the locks: whoever is waited for is further on than who    *)
(* waits, and who has written waits for nobody.                            *)
LEMMA WaitsForward ==
  ASSUME Inv, HolderWorks, NEW w \in Worker, NEW v \in WaitsFor(w)
  PROVE  /\ v \in Worker
         /\ tx[w].phase \in {"begun", "locked"}
         /\ tx[v].phase \in {"locked", "written"}
         /\ tx[w].phase = "locked" => tx[v].phase = "written"
BY DEF WaitsFor, Writers, HolderWorks, Inv, TypeOK

(* No circle of waiting requests, whatever they are and however many: the  *)
(* meeting's row is always taken before a registration's is written.       *)
THEOREM NobodyWaitsInCircles == Spec => []NoCircularWait
<1>1. Init => HolderWorks BY MeetingAssumption DEF Init, HolderWorks
<1>2. Inv /\ HolderWorks /\ [Next]_vars => HolderWorks' BY HolderStep
<1>3. ASSUME Inv, HolderWorks PROVE NoCircularWait
  <2>1. \A w \in Worker : \A v \in WaitsFor(w) : tx[v].phase \in Running
    BY <1>3, WaitsForward DEF Running
  <2>2. ASSUME NEW group \in (SUBSET Worker) \ {{}}
        PROVE  \E w \in group : WaitsFor(w) \cap group = {}
    <3>1. CASE \E w \in group : tx[w].phase = "written"
      BY <1>3, <3>1, WaitsForward
    <3>2. CASE /\ ~\E w \in group : tx[w].phase = "written"
               /\ \E w \in group : tx[w].phase = "locked"
      <4>1. PICK w \in group : tx[w].phase = "locked" BY <3>2
      <4>2. \A v \in WaitsFor(w) : tx[v].phase = "written" BY <1>3, <4>1, WaitsForward
      <4> QED BY <3>2, <4>1, <4>2
    <3>3. CASE ~\E w \in group : tx[w].phase \in {"locked", "written"}
      <4>1. PICK w \in group : w \in Worker BY <2>2
      <4>2. \A v \in WaitsFor(w) : tx[v].phase \in {"locked", "written"} BY <1>3, <4>1, WaitsForward
      <4> QED BY <3>3, <4>1, <4>2
    <3> QED BY <3>1, <3>2, <3>3
  <2> QED BY <2>1, <2>2 DEF NoCircularWait
<1> QED BY <1>1, <1>2, <1>3, Always, PTL DEF Spec
-----------------------------------------------------------------------------
(* The place of a candidate on the sheet is the slot of any registration   *)
(* that is his: there is one at most.                                      *)
LEMMA PlaceOf ==
  ASSUME ActiveUnique, NEW c \in Candidate, NEW r \in OfCandidate(registration, c)
  PROVE  SheetPlace[c] = registration[r].slot
<1> DEFINE q == CHOOSE p \in OfCandidate(registration, c) : TRUE
<1>1. q \in OfCandidate(registration, c) OBVIOUS
<1>2. q = r BY <1>1 DEF OfCandidate, ActiveUnique
<1>3. SheetPlace[c] = registration[q].slot BY DEF SheetPlace
<1> QED BY <1>2, <1>3

(* The same after a step.                                                  *)
LEMMA PlaceAfter ==
  ASSUME ActiveUnique', NEW c \in Candidate, NEW r \in OfCandidate(registration', c)
  PROVE  SheetPlace'[c] = registration'[r].slot
<1> DEFINE q == CHOOSE p \in OfCandidate(registration', c) : TRUE
<1>1. q \in OfCandidate(registration', c) OBVIOUS
<1>2. q = r BY <1>1 DEF OfCandidate, ActiveUnique
<1>3. SheetPlace'[c] = registration'[q].slot BY DEF SheetPlace
<1> QED BY <1>2, <1>3

LEMMA NoPlace ==
  /\ \A c \in Candidate : OfCandidate(registration, c) = {} => SheetPlace[c] = Absent
  /\ \A c \in Candidate : OfCandidate(registration', c) = {} => SheetPlace'[c] = Absent
BY DEF SheetPlace

(* A commit changes the place of the candidate of its row only.            *)
LEMMA OthersKeepPlace ==
  ASSUME Inv, NEW w \in Worker, Commit(w), NEW c \in Candidate,
         Written(w) \notin OfCandidate(registration, c),
         Written(w) \notin OfCandidate(registration', c)
  PROVE  SheetPlace'[c] = SheetPlace[c]
<1>1. OfCandidate(registration', c) = OfCandidate(registration, c)
  BY CommittedRow DEF OfCandidate, RegisteredIn
<1>2. CASE OfCandidate(registration, c) = {} BY <1>1, <1>2, NoPlace
<1>3. CASE OfCandidate(registration, c) # {}
  <2>1. PICK r \in OfCandidate(registration, c) : TRUE BY <1>3
  <2>2. SheetPlace[c] = registration[r].slot BY <2>1, PlaceOf DEF Inv
  <2>3. SheetPlace'[c] = registration'[r].slot BY <1>1, <2>1, CommitUnique, PlaceAfter
  <2>4. r # Written(w) /\ r \in Registration BY <2>1 DEF OfCandidate, RegisteredIn
  <2> QED BY <2>2, <2>3, <2>4, CommittedRow
<1> QED BY <1>2, <1>3

(* The slot a request writes is not the place of anybody else.             *)
LEMMA FreeForOthers ==
  ASSUME Inv, NEW w \in Worker, Commit(w), tx[w].op \in Locking, NewRow(w).slot \in Slot,
         NEW c \in Candidate, Written(w) \notin OfCandidate(registration, c)
  PROVE  SheetPlace[c] # NewRow(w).slot
<1>1. CASE OfCandidate(registration, c) = {} BY <1>1, NoPlace, MeetingAssumption
<1>2. CASE OfCandidate(registration, c) # {}
  <2>1. PICK r \in OfCandidate(registration, c) : TRUE BY <1>2
  <2>2. SheetPlace[c] = registration[r].slot BY <2>1, PlaceOf DEF Inv
  <2>3. r \in RegisteredIn(registration) \ {Written(w)} BY <2>1 DEF OfCandidate
  <2> QED BY <2>2, <2>3, CommittedRow, MeetingAssumption
<1> QED BY <1>1, <1>2

(* A commit that touches the place of c alone.                             *)
LEMMA OneStroke ==
  ASSUME Inv, NEW w \in Worker, Commit(w), NEW c \in Candidate,
         \A d \in Candidate \ {c} : /\ Written(w) \notin OfCandidate(registration, d)
                                   /\ Written(w) \notin OfCandidate(registration', d)
  PROVE  SheetPlace' = [SheetPlace EXCEPT ![c] = SheetPlace'[c]]
<1>1. \A d \in Candidate \ {c} : SheetPlace'[d] = SheetPlace[d] BY OthersKeepPlace
<1>2. SheetPlace = [d \in Candidate |-> SheetPlace[d]] BY DEF SheetPlace
<1>3. SheetPlace' = [d \in Candidate |-> SheetPlace'[d]] BY DEF SheetPlace
<1> QED BY <1>1, <1>2, <1>3

(* A commit for a candidate the sheet does not know leaves it alone.       *)
LEMMA NoStroke ==
  ASSUME Inv, NEW w \in Worker, Commit(w),
         \A d \in Candidate : /\ Written(w) \notin OfCandidate(registration, d)
                             /\ Written(w) \notin OfCandidate(registration', d)
  PROVE  SheetPlace' = SheetPlace
<1>1. \A d \in Candidate : SheetPlace'[d] = SheetPlace[d] BY OthersKeepPlace
<1>2. SheetPlace = [d \in Candidate |-> SheetPlace[d]] BY DEF SheetPlace
<1>3. SheetPlace' = [d \in Candidate |-> SheetPlace'[d]] BY DEF SheetPlace
<1> QED BY <1>1, <1>2, <1>3

LEMMA BookingRefines ==
  ASSUME Inv, NEW w \in Worker, Commit(w), tx[w].op = "createRegistration"
  PROVE  Sheet!Next \/ SheetPlace' = SheetPlace
<1> DEFINE c == NewRow(w).candidate
           s == NewRow(w).slot
<1>1. /\ registration[Written(w)].status = "NONE" /\ tx[w].op \in Locking
      /\ NewRow(w).status = "REGISTERED" /\ s = tx[w].slot /\ s \in Place
  BY DEF NewRow, Commit, Inv, Sound, WrittenFits, PlaceKnown, Written, Locking, Running
<1>2. \A d \in Candidate : Written(w) \notin OfCandidate(registration, d)
  BY <1>1 DEF OfCandidate, RegisteredIn
<1>3. \A d \in Candidate : Written(w) \in OfCandidate(registration', d) <=> d = c
  BY <1>1, CommittedRow DEF OfCandidate, RegisteredIn
<1>4. CASE c \notin Candidate BY <1>2, <1>3, <1>4, NoStroke
<1>5. CASE c \in Candidate
  <2>1. OfCandidate(registration, c) = {}
    BY <1>1, <1>2, <1>5, CommittedRow DEF OfCandidate
  <2>2. SheetPlace[c] = Absent BY <1>5, <2>1, NoPlace
  <2>3. SheetPlace'[c] = s BY <1>3, <1>5, CommitUnique, PlaceAfter, CommittedRow
  <2>4. Sheet!Free(s) BY <1>1, <1>2, FreeForOthers DEF Sheet!Free
  <2>5. SheetPlace' = [SheetPlace EXCEPT ![c] = s] BY <1>2, <1>3, <1>5, <2>3, OneStroke
  <2>6. s \in Sheet!Place BY <1>1 DEF Place, Sheet!Place
  <2> HIDE DEF c, s
  <2>7. Sheet!Book(c, s) BY <2>2, <2>4, <2>5 DEF Sheet!Book
  <2> QED BY <1>5, <2>6, <2>7 DEF Sheet!Next
<1> QED BY <1>4, <1>5

LEMMA MoveRefines ==
  ASSUME Inv, NEW w \in Worker, Commit(w), tx[w].op = "reassignRegistration"
  PROVE  Sheet!Next \/ SheetPlace' = SheetPlace
<1> DEFINE old == registration[Written(w)]
           c == NewRow(w).candidate
           s == NewRow(w).slot
<1>1. /\ Written(w) \in Registration /\ registration \in Table /\ tx[w].op \in Locking
  BY CommittedRow DEF Inv, TypeOK, Locking
<1>2. old \in Row BY <1>1 DEF Table
<1>3. /\ old.status = "REGISTERED" /\ old.candidate = c /\ s = tx[w].slot /\ s \in Place
      /\ NewRow(w).status = "REGISTERED"
  BY <1>2 DEF NewRow, Row, Commit, Inv, Sound, WrittenFits, PlaceKnown, Written, Locking, Running
<1>4. \A d \in Candidate : Written(w) \in OfCandidate(registration, d) <=> d = c
  BY <1>1, <1>3 DEF OfCandidate, RegisteredIn
<1>5. \A d \in Candidate : Written(w) \in OfCandidate(registration', d) <=> d = c
  BY <1>1, <1>3, CommittedRow DEF OfCandidate, RegisteredIn
<1>6. CASE c \notin Candidate BY <1>4, <1>5, <1>6, NoStroke
<1>7. CASE c \in Candidate
  <2>1. SheetPlace[c] = old.slot BY <1>4, <1>7, PlaceOf DEF Inv
  <2>2. SheetPlace'[c] = s BY <1>5, <1>7, CommitUnique, PlaceAfter, CommittedRow
  <2>3. SheetPlace' = [SheetPlace EXCEPT ![c] = s] BY <1>4, <1>5, <1>7, <2>2, OneStroke
  <2>4. old.slot # Absent BY <1>2, MeetingAssumption DEF Row
  <2>5. CASE old.slot = s
    <3>1. SheetPlace = [d \in Candidate |-> SheetPlace[d]] BY DEF SheetPlace
    <3> QED BY <1>7, <2>1, <2>3, <2>5, <3>1
  <2>6. CASE old.slot # s
    <3>1. ASSUME s \in Slot, NEW d \in Candidate PROVE SheetPlace[d] # s
      <4>1. CASE d = c BY <2>1, <2>6, <4>1
      <4>2. CASE d # c BY <1>1, <1>4, <3>1, <4>2, FreeForOthers
      <4> QED BY <4>1, <4>2
    <3>2. Sheet!Free(s) BY <3>1 DEF Sheet!Free
    <3>3. s \in Sheet!Place BY <1>3 DEF Place, Sheet!Place
    <3> HIDE DEF c, s, old
    <3>4. Sheet!Move(c, s) BY <2>1, <2>3, <2>4, <3>2 DEF Sheet!Move
    <3> QED BY <1>7, <3>3, <3>4 DEF Sheet!Next
  <2> QED BY <2>5, <2>6
<1> QED BY <1>6, <1>7

LEMMA CancellationRefines ==
  ASSUME Inv, NEW w \in Worker, Commit(w), tx[w].op \notin Locking
  PROVE  Sheet!Next \/ SheetPlace' = SheetPlace
<1> DEFINE old == registration[Written(w)]
           c == old.candidate
<1>1. Written(w) \in Registration /\ registration \in Table /\ NewRow(w).status = "CANCELLED"
  BY CommittedRow DEF Inv, TypeOK
<1>2. old \in Row BY <1>1 DEF Table
<1>3. old.status = "REGISTERED" BY DEF Commit, Inv, Sound, WrittenFits, Written, Locking
<1>4. \A d \in Candidate : Written(w) \in OfCandidate(registration, d) <=> d = c
  BY <1>1, <1>3 DEF OfCandidate, RegisteredIn
<1>5. \A d \in Candidate : Written(w) \notin OfCandidate(registration', d)
  BY <1>1, CommittedRow DEF OfCandidate, RegisteredIn
<1>6. CASE c \notin Candidate BY <1>4, <1>5, <1>6, NoStroke
<1>7. CASE c \in Candidate
  <2>1. SheetPlace[c] = old.slot BY <1>4, <1>7, PlaceOf DEF Inv
  <2>2. ASSUME NEW p \in OfCandidate(registration', c) PROVE FALSE
    <3>1. p # Written(w) /\ p \in OfCandidate(registration, c)
      BY <1>5, <1>7, CommittedRow DEF OfCandidate, RegisteredIn
    <3> QED BY <1>4, <1>7, <3>1 DEF Inv, ActiveUnique, OfCandidate
  <2>3. SheetPlace'[c] = Absent BY <1>7, <2>2, NoPlace
  <2>4. SheetPlace' = [SheetPlace EXCEPT ![c] = Absent] BY <1>4, <1>5, <1>7, <2>3, OneStroke
  <2>5. old.slot # Absent BY <1>2, MeetingAssumption DEF Row
  <2> HIDE DEF c, old
  <2>6. Sheet!StrikeOut(c) BY <2>1, <2>4, <2>5 DEF Sheet!StrikeOut
  <2> QED BY <1>7, <2>6 DEF Sheet!Next
<1> QED BY <1>6, <1>7

(* The concurrent transactions implement the sheet of paper: every commit  *)
(* is one stroke on it, everything else is invisible (ImplementsSheet).    *)
THEOREM SheetImplemented == Spec => ImplementsSheet
<1>1. Init => Sheet!Init
  <2> SUFFICES ASSUME Init PROVE Sheet!Init OBVIOUS
  <2>1. \A c \in Candidate : OfCandidate(registration, c) = {}
    BY DEF Init, NoTable, OfCandidate, RegisteredIn
  <2> QED BY <2>1 DEF Sheet!Init, SheetPlace
<1>2. Inv /\ [Next]_vars => [Sheet!Next]_SheetPlace
  <2> SUFFICES ASSUME Inv, [Next]_vars PROVE Sheet!Next \/ SheetPlace' = SheetPlace OBVIOUS
  <2>1. ASSUME NEW w \in Worker, Commit(w) PROVE Sheet!Next \/ SheetPlace' = SheetPlace
    BY <2>1, BookingRefines, MoveRefines, CancellationRefines DEF Locking
  <2>2. ASSUME registration' = registration PROVE SheetPlace' = SheetPlace
    BY <2>2 DEF SheetPlace, OfCandidate, RegisteredIn
  <2> QED BY <2>1, <2>2, CommitsOnly
<1> QED BY <1>1, <1>2, Always, PTL DEF Spec, ImplementsSheet, Sheet!Spec
-------------------------------------------------------------------------------
(***************************************************************************)
(* MeetingScreens: the screens look for free and booked slots, the         *)
(* requests for rows in their way.  The two agree because every active     *)
(* registration is at a place of the meeting, which the screens do not     *)
(* check, and because a booking that waits for its next attempt has        *)
(* forgotten the row it wrote.                                             *)
(***************************************************************************)

Placed == \A r \in RegisteredIn(registration) : registration[r].slot \in Place

Fresh(w) == tx[w].phase = "queued" /\ tx[w].op = "createRegistration" => tx[w].row = NoRow

ScreenInv == Inv /\ Placed /\ \A w \in Worker : Fresh(w)

LEMMA PlacedStep == ASSUME Inv, Placed, [Next]_vars PROVE Placed'
<1>1. CASE registration' = registration BY <1>1 DEF Placed, RegisteredIn
<1>2. ASSUME NEW w \in Worker, Commit(w) PROVE Placed'
  <2> SUFFICES ASSUME NEW r \in RegisteredIn(registration') PROVE registration'[r].slot \in Place
    BY DEF Placed, Place
  <2>1. CASE r # Written(w)
    <3>1. registration'[r] = registration[r] BY <1>2, <2>1, CommittedRow DEF RegisteredIn
    <3> QED BY <3>1 DEF Placed, RegisteredIn
  <2>2. CASE r = Written(w)
    <3>1. tx[w].op \in Locking /\ registration'[r].slot = tx[w].slot
      BY <1>2, <2>2, CommittedRow DEF RegisteredIn
    <3>2. Sound(w) /\ tx[w].phase = "written" BY <1>2 DEF Inv, Commit
    <3> QED BY <3>1, <3>2 DEF Sound, PlaceKnown, Running
  <2> QED BY <2>1, <2>2
<1> QED BY <1>1, <1>2, CommitsOnly

(* A step of w leaves the other requests where they were.                  *)
LEMMA FreshStep == ASSUME Inv, \A v \in Worker : Fresh(v), [Next]_vars, NEW v \in Worker
                   PROVE  Fresh(v)'
<1> USE DEF Fresh
<1>1. tx \in [Worker -> Transaction] BY DEF Inv, TypeOK
<1>2. ASSUME NEW w \in Worker, NewRequest(w) PROVE Fresh(v)'
  <2>1. ASSUME NEW op, NEW c, NEW r, NEW s, Request(w, op, c, r, s),
               op = "createRegistration" => r = NoRow
        PROVE  Fresh(v)'
    <3>1. CASE v # w BY <1>1, <2>1, <3>1 DEF Request
    <3>2. CASE v = w
      <4>1. tx'[v] = [Idle EXCEPT !.phase = "queued", !.op = op, !.candidate = c,
                                  !.row = r, !.slot = s, !.attempt = 1]
        BY <1>1, <2>1, <3>2 DEF Request
      <4>2. tx'[v].op = op /\ tx'[v].row = r BY <4>1 DEF Idle
      <4> QED BY <2>1, <4>2
    <3> QED BY <3>1, <3>2
  <2> QED
    BY <1>2, <2>1 DEF NewRequest, CreateRegistration, CancelMyRegistration, CancelRegistration,
                      ReassignRegistration
<1>3. ASSUME NEW w \in Worker, Refuse(w) PROVE Fresh(v)'
  BY <1>1, <1>3 DEF Refuse, Idle
<1>4. ASSUME NEW w \in Worker, Conflict(w) PROVE Fresh(v)'
  <2>1. CASE v # w BY <1>1, <1>4, <2>1 DEF Conflict
  <2>2. CASE v = w
    <3>1. tx'[v] = AfterConflict(tx[w]) BY <1>1, <1>4, <2>2 DEF Conflict
    <3>2. \A n : LET t == Requeued(tx[w], n) IN t.op = "createRegistration" => t.row = NoRow
      BY <1>1 DEF Requeued, Transaction
    <3>3. Rethrown(tx[w]).phase # "queued" BY DEF Rethrown, Idle
    <3> QED BY <3>1, <3>2, <3>3 DEF AfterConflict
  <2> QED BY <2>1, <2>2
<1>5. ASSUME NEW w \in Worker, Begin(w) PROVE Fresh(v)'
  BY <1>1, <1>3, <1>5 DEF Begin, Transaction
<1>6. ASSUME NEW w \in Worker, Lock(w) PROVE Fresh(v)'
  BY <1>1, <1>6 DEF Lock, Transaction
<1>7. ASSUME NEW w \in Worker, Insert(w) PROVE Fresh(v)'
  BY <1>1, <1>3, <1>7 DEF Insert, Transaction
<1>8. ASSUME NEW w \in Worker, Update(w) PROVE Fresh(v)'
  BY <1>1, <1>3, <1>4, <1>8 DEF Update, Transaction
<1>9. ASSUME NEW w \in Worker, Commit(w) PROVE Fresh(v)'
  BY <1>1, <1>9 DEF Commit, Idle, Transaction
<1>10. CASE UNCHANGED tx BY <1>10
<1> QED
  BY <1>2, <1>4, <1>5, <1>6, <1>7, <1>8, <1>9, <1>10
  DEF Next, Step, Abort, Review, TimePasses, vars

LEMMA ScreenInvHolds == Spec => []ScreenInv
<1>1. Init => ScreenInv
  BY InitInv DEF Init, ScreenInv, Placed, RegisteredIn, NoTable, Fresh, Idle
<1>2. ScreenInv /\ [Next]_vars => ScreenInv'
  BY NextInv, PlacedStep, FreshStep DEF ScreenInv
<1> QED BY <1>1, <1>2, PTL DEF Spec

(* A place of the meeting is free, or every slot is taken.                 *)
LEMMA FreePlace == HasAnyFreeSlot <=> \E s \in Place : ~IsBooked(s)
<1>1. ~IsBooked(NoSlot) BY DEF IsBooked, OnSlot
<1> QED BY <1>1 DEF HasAnyFreeSlot, Place

(* The summary and the checks of the requests follow rules of their own    *)
(* (meetings.service, MeetingCalendarView, MyMeetingRegistrationsView), and *)
(* a fresh screen offers what a request would be granted.                  *)
THEOREM ScreensTruthful == Spec => []OfferedIsGranted
<1>1. ScreenInv => OfferedIsGranted
  <2> SUFFICES ASSUME ScreenInv PROVE OfferedIsGranted OBVIOUS
  <2>1. ASSUME NEW w \in Worker, tx[w].phase = "queued", tx[w].op = "createRegistration"
        PROVE  tx[w].slot \in BookingButtons(tx[w].candidate) <=> Granted(w)
    <3> DEFINE c == tx[w].candidate
               s == tx[w].slot
    <3>1. s \in Place BY <2>1 DEF ScreenInv, Inv, Sound, PlaceKnown, Locking
    <3>2. tx[w].row = NoRow BY <2>1 DEF ScreenInv, Fresh
    <3>3. Admitted(w) # {} <=> IsBookableByDate /\ c \in approved
      BY <2>1 DEF Admitted, IsBookableByDate
    <3>4. Taken(registration, w) = (OnSlot(registration, s) \cup OfCandidate(registration, c))
      <4>1. NoRow \notin OnSlot(registration, s) \cup OfCandidate(registration, c)
        BY MeetingAssumption DEF OnSlot, OfCandidate, RegisteredIn
      <4> QED BY <2>1, <3>2, <4>1 DEF Taken
    <3>5. Granted(w) <=> /\ IsBookableByDate /\ c \in approved
                         /\ ~IsBooked(s) /\ MyRegistration(c) = {}
      BY <3>3, <3>4 DEF Granted, IsBooked, MyRegistration
    <3>6. ~IsBooked(s) => HasAnyFreeSlot BY <3>1, FreePlace
    <3> QED BY <3>1, <3>5, <3>6 DEF BookingButtons, CanBook
  <2>2. ASSUME NEW w \in Worker, tx[w].phase = "queued", tx[w].op = "cancelMyRegistration"
        PROVE  /\ CancellationButtonOnCard(tx[w].candidate) <=> Admitted(w) # {}
               /\ CancellationButtonInMyList(tx[w].candidate) <=> Admitted(w) # {}
    <3> DEFINE c == tx[w].candidate
    <3>1. Admitted(w) # {} <=> MyRegistration(c) # {} /\ IsSelfCancellationAllowed
      BY <2>2 DEF Admitted, MyRegistration, IsSelfCancellationAllowed
    <3>2. MyRegistration(c) # {} /\ Slot # {} => \E s \in Slot : BookedByMe(c, s)
      BY DEF ScreenInv, Placed, Place, MyRegistration, OfCandidate, BookedByMe
    <3> QED BY <3>1, <3>2 DEF CancellationButtonOnCard, CancellationButtonInMyList,
                              CanCancelMyRegistration
  <2>3. ASSUME NEW c \in Candidate
        PROVE  BookingBlockedReason(c) = "none" <=> BookingButtons(c) # {}
    <3>1. BookingBlockedReason(c) = "none" <=> CanBook(c)
      BY DEF BookingBlockedReason, CanBook
    <3>2. CanBook(c) => \E s \in Place : ~IsBooked(s) BY FreePlace DEF CanBook
    <3> QED BY <3>1, <3>2 DEF BookingButtons
  <2> QED BY <2>1, <2>2, <2>3 DEF OfferedIsGranted
<1> QED BY <1>1, ScreenInvHolds, PTL

(* Every active registration has a slot of its own: the booked slots are   *)
(* as many as the registrations.                                           *)
LEMMA CountsAgree ==
  ASSUME ActiveUnique, Placed, Slot # {}, IsFiniteSet(Slot)
  PROVE  AvailableSlots + RegistrationsCount = TotalSlots
<1> DEFINE booked == {s \in Slot : IsBooked(s)}
           active == RegisteredIn(registration)
           f == [r \in active |-> registration[r].slot]
<1>1. \A r \in active : registration[r].slot \in Slot /\ registration[r].slot # NoSlot
  BY MeetingAssumption DEF Placed, Place
<1>2. f \in [active -> booked] BY <1>1 DEF IsBooked, OnSlot
<1>3. \A r, q \in active : f[r] = f[q] => r = q BY <1>1 DEF ActiveUnique
<1>4. \A s \in booked : \E r \in active : f[r] = s BY DEF IsBooked, OnSlot
<1>5. f \in Bijection(active, booked)
  BY <1>2, <1>3, <1>4 DEF Bijection, Injection, Surjection, IsInjective
<1>6. IsFiniteSet(booked) BY FS_Subset
<1>7. Cardinality(active) = Cardinality(booked)
  <2>1. ExistsBijection(booked, active) BY <1>5, Fun_ExistsBijSymmetric DEF ExistsBijection
  <2> QED BY <1>6, <2>1, FS_Bijection
<1>8. {s \in Slot : ~IsBooked(s)} = Slot \ booked /\ Slot \cap booked = booked OBVIOUS
<1>9. Cardinality(Slot \ booked) = Cardinality(Slot) - Cardinality(booked)
  BY <1>8, FS_Difference
<1>10. Cardinality(Slot) \in Nat /\ Cardinality(booked) \in Nat BY <1>6, FS_CardinalityType
<1> QED BY <1>7, <1>8, <1>9, <1>10 DEF AvailableSlots, RegistrationsCount, TotalSlots

(* On one row of the card, that of the registration, it says that the      *)
(* place is mine.                                                          *)
LEMMA OwnRow ==
  ASSUME Placed, NEW c \in Candidate, NEW s \in Place
  PROVE  RowShown(c, s) \in MineShown <=>
           \E r \in MyRegistration(c) : registration[r].slot = s
<1> USE DEF RowShown, MineShown, CancellationShown, OfferShown
<1>1. CASE Slot = {}
  <2>1. s = NoSlot /\ \A r \in MyRegistration(c) : registration[r].slot = NoSlot
    BY <1>1 DEF Placed, Place, MyRegistration, OfCandidate
  <2>2. s \notin Slot BY <1>1
  <2> QED BY <2>1, <2>2
<1>2. CASE Slot # {} BY <1>2 DEF Place, BookedByMe
<1> QED BY <1>1, <1>2

(* On the page of its month the meeting is shown unless it is filtered out. *)
LEMMA PageOfMonth ==
  ASSUME NEW c, NEW view \in View \ {"mine"}, NEW g
  PROVE  PageShows(c, view, g, 0) = "meetings" <=> Kept(c, FiltersOfView(view, g))
<1>1. PageData(c, view, 0).meetings # {} BY DEF PageData, ListedIn
<1> QED BY <1>1 DEF PageShows, MeetingsShown

(* The screens make up their answers separately (meetings.service,         *)
(* meetings/page, the cards), and whatever the number of candidates, slots *)
(* and requests they tell one story.                                       *)
THEOREM ScreensConsistent == ASSUME IsFiniteSet(Slot) PROVE Spec => []ScreensAgree
<1>1. ScreenInv => ScreensAgree
  <2> SUFFICES ASSUME ScreenInv PROVE ScreensAgree OBVIOUS
  <2> USE DEF ScreenInv
  <2>1. ActiveUnique /\ Placed BY DEF Inv
  <2>2. Slot # {} => AvailableSlots + RegistrationsCount = TotalSlots BY <2>1, CountsAgree
  <2>3. ASSUME NEW c \in Candidate, NEW s \in Place PROVE RowShown(c, s) # "notAvailableNow"
    <3>1. CanBook(c) <=> BookingBlockedReason(c) = "none" BY DEF CanBook, BookingBlockedReason
    <3> QED BY <3>1 DEF RowShown, OfferShown, CancellationShown
  <2>4. ASSUME NEW c \in Candidate, MarkedMine(c)
        PROVE  /\ \E own \in Place :
                    /\ {s \in Place : RowShown(c, s) \in MineShown} = {own}
                    /\ {card.slot : card \in UpcomingCard(c)} =
                         IF clock = "after" THEN {} ELSE {own}
               /\ \A view \in View \ {"mine"}, g \in Filter :
                    g.commission # "other" => PageShows(c, view, g, 0) = "meetings"
               /\ \A card \in MyCards(c) : RowShown(c, card.slot) = card.shown
               /\ \A s \in Place :
                    RowShown(c, s) = "cancel" => \E card \in MyCards(c) : card.slot = s
    <3>1. PICK r \in MyRegistration(c) : TRUE BY <2>4 DEF MarkedMine
    <3>2. MyRegistration(c) = {r}
      BY <2>1, <3>1 DEF ActiveUnique, MyRegistration, OfCandidate
    <3>3. registration[r].slot \in Place
      BY <2>1, <3>1 DEF Placed, MyRegistration, OfCandidate
    <3> DEFINE mine == [row |-> r, slot |-> registration[r].slot]
    <3>4. MyRegistrationsList(c) = IF clock = "after" THEN {} ELSE {mine}
      BY <3>2 DEF MyRegistrationsList
    <3>5. {card.slot : card \in UpcomingCard(c)} =
            IF clock = "after" THEN {} ELSE {registration[r].slot}
      <4>1. CASE clock = "after" BY <4>1, <3>4 DEF UpcomingCard
      <4>2. CASE clock # "after"
        <5>1. (CHOOSE card \in {mine} : TRUE) = mine OBVIOUS
        <5>2. UpcomingCard(c) = {mine} BY <3>4, <4>2, <5>1 DEF UpcomingCard
        <5> QED BY <4>2, <5>2
      <4> QED BY <4>1, <4>2
    <3>6. {s \in Place : RowShown(c, s) \in MineShown} = {registration[r].slot}
      BY <2>1, <3>2, <3>3, OwnRow
    <3>7. ASSUME NEW view \in View \ {"mine"}, NEW g \in Filter, g.commission # "other"
          PROVE  PageShows(c, view, g, 0) = "meetings"
      <4>1. IsMeetingAvailableForUser(c) BY <2>4 DEF MarkedMine, IsMeetingAvailableForUser
      <4>2. FiltersOfView(view, g).commission = g.commission
        BY <3>7 DEF View, FiltersOfView, NoFilter, Filter
      <4> QED BY <3>7, <4>1, <4>2, PageOfMonth DEF Kept
    <3>8. ASSUME NEW card \in MyCards(c) PROVE RowShown(c, card.slot) = card.shown
      <4>1. card.slot = registration[r].slot
        BY <3>2 DEF MyCards, MyRegistrationsList
      <4>2. card.shown = CancellationShown(c)
        BY <3>1 DEF MyCards, CancellationButtonInMyList, CancellationShown, CanCancelMyRegistration
      <4>3. RowShown(c, card.slot) \in MineShown BY <3>6, <4>1
      <4> QED BY <4>2, <4>3 DEF RowShown, MineShown, CancellationShown, OfferShown
    <3>9. ASSUME NEW s \in Place, RowShown(c, s) = "cancel"
          PROVE  \E card \in MyCards(c) : card.slot = s
      <4>1. s = registration[r].slot BY <3>6, <3>9 DEF MineShown
      <4>2. IsSelfCancellationAllowed
        BY <3>9 DEF RowShown, CancellationShown, OfferShown, CanCancelMyRegistration
      <4>3. mine \in MyRegistrationsList(c) BY <3>4, <4>2 DEF IsSelfCancellationAllowed
      <4> DEFINE own == [slot |-> mine.slot,
                         shown |-> IF CancellationButtonInMyList(c) THEN "cancel" ELSE "deadlinePassed"]
      <4>4. own \in MyCards(c) /\ own.slot = s BY <4>1, <4>3 DEF MyCards
      <4> QED BY <4>4
    <3> QED BY <3>3, <3>5, <3>6, <3>7, <3>8, <3>9
  <2>5. ASSUME NEW c \in Candidate
        PROVE  PageShows(c, "list", [NoFilter EXCEPT !.available = TRUE], 0) = "meetings" <=>
                 \E s \in Place : RowShown(c, s) \in MineShown \cup {"book"}
    <3>1. PageShows(c, "list", [NoFilter EXCEPT !.available = TRUE], 0) = "meetings" <=>
            IsMeetingAvailableForUser(c)
      BY PageOfMonth DEF View, FiltersOfView, Kept, NoFilter
    <3>2. ASSUME MyRegistration(c) # {} PROVE \E s \in Place : RowShown(c, s) \in MineShown
      BY <2>1, <3>2, OwnRow DEF Placed, MyRegistration, OfCandidate
    <3>3. ASSUME CanBook(c) PROVE \E s \in Place : RowShown(c, s) = "book"
      <4>1. PICK s \in Place : ~IsBooked(s) BY <3>3, FreePlace DEF CanBook
      <4>2. MyRegistration(c) = {} BY <3>3 DEF CanBook
      <4> QED BY <3>3, <4>1, <4>2 DEF RowShown, OfferShown, BookedByMe
    <3>4. \A s \in Place : RowShown(c, s) = "book" => CanBook(c)
      BY DEF RowShown, OfferShown, CancellationShown
    <3>5. \A s \in Place : RowShown(c, s) \in MineShown => MyRegistration(c) # {}
      BY <2>1, OwnRow
    <3> QED BY <3>1, <3>2, <3>3, <3>4, <3>5 DEF IsMeetingAvailableForUser
  <2>6. ASSUME NEW w \in Worker, tx[w].phase = "queued", tx[w].op = "cancelRegistration"
        PROVE  (\E entry \in MeetingRegistrationsList : entry.row = tx[w].row) <=> Admitted(w) # {}
    <3>1. Admitted(w) = {r \in RegisteredIn(registration) : r = tx[w].row}
      BY <2>6 DEF Admitted
    <3>2. ASSUME NEW entry \in MeetingRegistrationsList PROVE entry.row \in RegisteredIn(registration)
      BY DEF MeetingRegistrationsList
    <3>3. ASSUME NEW r \in RegisteredIn(registration)
          PROVE  \E entry \in MeetingRegistrationsList : entry.row = r
      <4> DEFINE entry == [row |-> r, candidate |-> registration[r].candidate,
                           slot |-> registration[r].slot]
      <4>1. entry \in MeetingRegistrationsList BY DEF MeetingRegistrationsList
      <4>2. entry.row = r OBVIOUS
      <4> QED BY <4>1, <4>2
    <3> QED BY <3>1, <3>2, <3>3
  <2>7. ASSUME NEW e \in MeetingRegistrationsList, NEW o \in MeetingRegistrationsList, e # o
        PROVE  e.candidate # o.candidate /\ (Slot # {} => e.slot # o.slot)
    <3>1. PICK r \in RegisteredIn(registration) :
            e = [row |-> r, candidate |-> registration[r].candidate, slot |-> registration[r].slot]
      BY DEF MeetingRegistrationsList
    <3>2. PICK q \in RegisteredIn(registration) :
            o = [row |-> q, candidate |-> registration[q].candidate, slot |-> registration[q].slot]
      BY DEF MeetingRegistrationsList
    <3>3. r # q BY <2>7, <3>1, <3>2
    <3>4. Slot # {} => registration[r].slot # NoSlot
      BY <2>1, MeetingAssumption DEF Placed, Place
    <3> QED BY <2>1, <3>1, <3>2, <3>3, <3>4 DEF ActiveUnique
  <2>8. ASSUME NEW c \in Candidate, NEW g \in Filter, NEW month \in {0, 1}
        PROVE  PageShows(c, "mine", g, month) = "registrations" <=>
                 MarkedMine(c) /\ clock # "after"
    <3>1. MyRegistrationsList(c) = {} <=> MyRegistration(c) = {} \/ clock = "after"
      BY DEF MyRegistrationsList
    <3> QED BY <3>1 DEF PageShows, PageData, MarkedMine
  <2> QED BY <2>2, <2>3, <2>4, <2>5, <2>6, <2>7, <2>8 DEF ScreensAgree
<1> QED BY <1>1, ScreenInvHolds, PTL
===============================================================================
