---------------------------- MODULE ActiveDegree ----------------------------
(***************************************************************************)
(* The applications of one candidate for one degree, and the requests that *)
(* create, submit, judge, archive and delete them at the same time.        *)
(*                                                                         *)
(* "One active application" is kept by a check in create and by a trigger  *)
(* of the database.  Both are reads of a READ COMMITTED transaction: they  *)
(* see what others have committed, never what others are about to.  Each   *)
(* statement and each commit is a step of its own.                         *)
(***************************************************************************)
CONSTANTS
  Application, \* the rows that can exist
  Worker,      \* the requests that can run at the same time
  NoRow        \* a request that holds no row

VARIABLES
  status, \* the committed rows
  tx      \* the transaction of each request

vars == <<status, tx>>
-----------------------------------------------------------------------------
(* The statuses the check and the trigger tell apart: a draft, a REJECTED  *)
(* or ARCHIVED application, and one in any other status.                   *)
Status == {"none", "draft", "review", "closed"}
Active == {"draft", "review"}

(* A transaction holds the lock of its row from its first access to its    *)
(* end, and writes the row at most once.                                   *)
Idle == [phase |-> "idle", row |-> NoRow, to |-> "none"]
Transaction ==
  [phase: {"idle", "checked", "locked", "written"}, row: Application \cup {NoRow}, to: Status]

Init ==
  /\ status = [a \in Application |-> "none"]
  /\ tx = [w \in Worker |-> Idle]

Become(w, t) == tx' = [tx EXCEPT ![w] = t] /\ UNCHANGED status
ActiveRows == {a \in Application : status[a] \in Active}
Held(a) == \E w \in Worker : tx[w].row = a
-----------------------------------------------------------------------------
(* The trigger before an insert or update: an active row passes when no    *)
(* other active one is committed.                                          *)
enforce_active_degree_unique(a, to) == to \in Active => ActiveRows \subseteq {a}

(* create: findFirst answers 409, or the row is inserted behind it.  The   *)
(* answer of the trigger is a 409 too.                                     *)
Check(w) ==
  /\ tx[w].phase = "idle"
  /\ ActiveRows = {}
  /\ Become(w, [Idle EXCEPT !.phase = "checked"])

Insert(w) ==
  /\ tx[w].phase = "checked"
  /\ \E a \in Application :
       /\ status[a] = "none" /\ ~Held(a)
       /\ Become(w, IF enforce_active_degree_unique(a, "draft")
                    THEN [phase |-> "written", row |-> a, to |-> "draft"] ELSE Idle)

(* The other handlers lock the row first and then read it.                 *)
Lock(w) ==
  /\ tx[w].phase = "idle"
  /\ \E a \in Application :
       /\ status[a] # "none" /\ ~Held(a)
       /\ Become(w, [phase |-> "locked", row |-> a, to |-> "none"])

Write(w, moves) ==
  LET a == tx[w].row IN
  /\ tx[w].phase = "locked"
  /\ \E to \in Status :
       /\ <<status[a], to>> \in moves
       /\ Become(w, IF enforce_active_degree_unique(a, to)
                    THEN [tx[w] EXCEPT !.phase = "written", !.to = to] ELSE Idle)

(* submit takes a draft, or one returned for fixes; changeStatus and the   *)
(* revision requests any row but a draft, from the archive too; deleteDraft*)
(* a draft; and the purge whatever the archived row it selected without a  *)
(* lock has become.                                                        *)
SubmitMoves  == Active \X {"review"}
ChangeMoves  == {"review", "closed"} \X {"review", "closed"}
ArchiveMoves == {<<"draft", "closed">>}
DeleteMoves  == {<<"draft", "none">>}
PurgeMoves   == {"review", "closed"} \X {"none"}

Submit(w)       == Write(w, SubmitMoves)
ChangeStatus(w) == Write(w, ChangeMoves)
ArchiveDraft(w) == Write(w, ArchiveMoves)
Delete(w)       == Write(w, DeleteMoves)
Purge(w)        == Write(w, PurgeMoves)

Commit(w) ==
  /\ tx[w].phase = "written"
  /\ status' = [status EXCEPT ![tx[w].row] = tx[w].to]
  /\ tx' = [tx EXCEPT ![w] = Idle]

(* A check of the handler that fails, an error, or a lost connection.      *)
Rollback(w) == tx[w].phase # "idle" /\ Become(w, Idle)

Next ==
  \E w \in Worker :
    \/ Check(w) \/ Insert(w) \/ Lock(w)
    \/ Submit(w) \/ ChangeStatus(w) \/ ArchiveDraft(w) \/ Delete(w) \/ Purge(w)
    \/ Commit(w) \/ Rollback(w)

Spec == Init /\ [][Next]_vars
-----------------------------------------------------------------------------
TypeOK ==
  /\ status \in [Application -> Status]
  /\ tx \in [Worker -> Transaction]

(* "Duplicate check + create in a single transaction to prevent race       *)
(* conditions": a candidate has at most one active application for a       *)
(* degree.                                                                 *)
ActiveDegreeUnique == \A a, b \in ActiveRows : a = b
=============================================================================
