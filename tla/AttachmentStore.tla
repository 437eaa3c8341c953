--------------------------- MODULE AttachmentStore ---------------------------
(***************************************************************************)
(* The files of ONE application: objects in the bucket beside rows in the  *)
(* database, with no transaction that spans both.                          *)
(*                                                                         *)
(* A candidate uploads to a presigned URL and then confirms, which makes   *)
(* the row.  A row that goes owes the bucket a deletion, which is made     *)
(* after the commit and may fail.  Two cleanups remove what has no row: one *)
(* in each presign, over the application, and one every night, over the    *)
(* bucket.  Each reads the bucket, then the rows, then deletes.            *)
(*                                                                         *)
(* What the candidate may change is CandidateScope.tla: here a confirm may *)
(* fail in its transaction and replace any attachment.  How long a request *)
(* takes is not bounded.                                                   *)
(***************************************************************************)
EXTENDS Naturals

CONSTANTS
  Key,     \* object keys
  Worker,  \* the requests that can run at the same time
  NoKey    \* of a request that is about no key

ASSUME StoreAssumption == NoKey \notin Key

VARIABLES
  app,      \* may the application be edited, or is it deleted?
  url,      \* the presigned URLs
  object,   \* the objects, by age
  row,      \* the rows of the attachments
  job,      \* the requests
  night,    \* the nightly cleanup
  late,     \* history: keys confirmed when their object was no longer fresh
  tries     \* history: how many confirms each key had, 2 for more than one

vars == <<app, url, object, row, job, night, late, tries>>
-----------------------------------------------------------------------------
(* Up to ORPHAN_UPLOAD_TTL_MS, half an hour, an object is fresh; from an   *)
(* hour on it is old.                                                      *)
Age == {"absent", "fresh", "stale", "old"}

Phase == {"idle", "confirming", "listed", "deleting"}
Job == [phase: Phase, key: Key \cup {NoKey}, listed: SUBSET Key,
        owed: SUBSET Key,    \* objects the request still has to delete
        presign: BOOLEAN]    \* and whether it then issues a URL
Idle == [phase |-> "idle", key |-> NoKey, listed |-> {}, owed |-> {}, presign |-> FALSE]
Deleting(keys) == [Idle EXCEPT !.phase = "deleting", !.owed = keys]

Night == [phase: {"idle", "running"}, listed: SUBSET Key, owed: SUBSET Key]
NightIdle == [phase |-> "idle", listed |-> {}, owed |-> {}]

Present == {x \in Key : object[x] # "absent"}
Active  == {x \in Key : row[x] = "ACTIVE"}

Init ==
  /\ app = "editable"
  /\ url = [x \in Key |-> "none"]
  /\ object = [x \in Key |-> "absent"]
  /\ row = [x \in Key |-> "NONE"]
  /\ job = [w \in Worker |-> Idle]
  /\ night = NightIdle
  /\ late = {}
  /\ tries = [x \in Key |-> 0]
-----------------------------------------------------------------------------
(* presignAttachment: the cleanup of the application, then a URL.          *)

(* cleanupOrphanedUploads lists the objects, of any age.                   *)
ListUploads(w) ==
  /\ app = "editable"
  /\ job[w].phase = "idle"
  /\ job' = [job EXCEPT ![w] = [Idle EXCEPT !.phase = "listed", !.listed = Present]]
  /\ UNCHANGED <<app, url, object, row, night, late, tries>>

(* Mutant: the age is not looked at.                                       *)
ReadRowsAnyAge(w) ==
  /\ job[w].phase = "listed"
  /\ job' = [job EXCEPT ![w] = [Deleting(job[w].listed \ Active) EXCEPT !.presign = TRUE]]
  /\ UNCHANGED <<app, url, object, row, night, late, tries>>

(* Then it reads the active rows and forgets about what is fresh.          *)
ReadRows(w) ==
  /\ job[w].phase = "listed"
  /\ job' = [job EXCEPT ![w] =
       [Deleting({x \in job[w].listed \ Active : object[x] \in {"stale", "old"}})
          EXCEPT !.presign = TRUE]]
  /\ UNCHANGED <<app, url, object, row, night, late, tries>>

(* With nothing left to delete a request ends; presign issues its URL      *)
(* unless the limit is reached.                                            *)
Finish(w) ==
  /\ job[w].phase = "deleting"
  /\ job[w].owed = {}
  /\ job' = [job EXCEPT ![w] = Idle]
  /\ \/ job[w].presign /\ \E x \in Key : url[x] = "none" /\ url' = [url EXCEPT ![x] = "valid"]
     \/ UNCHANGED url
  /\ UNCHANGED <<app, object, row, night, late, tries>>

(* The browser puts the file, as often as it likes while the URL is valid. *)
Upload(x) ==
  /\ url[x] = "valid"
  /\ object' = [object EXCEPT ![x] = "fresh"]
  /\ UNCHANGED <<app, url, row, job, night, late, tries>>
-----------------------------------------------------------------------------
(* confirmAttachment.                                                      *)

HeadObject(w, x) ==
  /\ app = "editable"
  /\ job[w].phase = "idle"
  /\ x \in Present
  /\ job' = [job EXCEPT ![w] = [Idle EXCEPT !.phase = "confirming", !.key = x]]
  /\ tries' = [tries EXCEPT ![x] = IF @ = 0 THEN 1 ELSE 2]
  /\ UNCHANGED <<app, url, object, row, night, late>>

(* The file is not what was declared, or its transaction fails for any     *)
(* reason, the unique key among them: in each case its object goes.        *)
RejectConfirm(w) ==
  /\ job[w].phase = "confirming"
  /\ job' = [job EXCEPT ![w] = Deleting({job[w].key})]
  /\ UNCHANGED <<app, url, object, row, night, late, tries>>

(* The transaction: a row, and perhaps another one replaced, whose object  *)
(* is deleted after the commit.                                            *)
CommitConfirm(w) ==
  LET x == job[w].key
  IN  /\ job[w].phase = "confirming"
      /\ app = "editable"
      /\ row[x] = "NONE"
      /\ \E replaced \in {{}} \cup {{y} : y \in Active} :
           /\ row' = [y \in Key |-> IF y = x THEN "ACTIVE"
                                    ELSE IF y \in replaced THEN "INACTIVE" ELSE row[y]]
           /\ job' = [job EXCEPT ![w] = Deleting(replaced)]
      /\ late' = IF object[x] = "fresh" THEN late ELSE late \cup {x}
      /\ UNCHANGED <<app, url, object, night, tries>>
-----------------------------------------------------------------------------
(* The other ways a row goes.                                              *)

DeleteAttachment(w, x) ==
  /\ app = "editable"
  /\ job[w].phase = "idle"
  /\ x \in Active
  /\ row' = [row EXCEPT ![x] = "INACTIVE"]
  /\ job' = [job EXCEPT ![w] = Deleting({x})]
  /\ UNCHANGED <<app, url, object, night, late, tries>>

(* deleteDraft deletes the rows it reads under the lock.  The purge of     *)
(* stale drafts deletes the rows there are, and the objects of those it    *)
(* read when it selected the draft.                                        *)
DeleteApplication(w, keys) ==
  /\ job[w].phase = "idle"
  /\ keys \subseteq {x \in Key : row[x] # "NONE"}
  /\ \/ app = "editable" /\ keys = {x \in Key : row[x] # "NONE"}
     \/ app = "locked"
  /\ app' = "deleted"
  /\ row' = [x \in Key |-> "NONE"]
  /\ job' = [job EXCEPT ![w] = Deleting(keys)]
  /\ UNCHANGED <<url, object, night, late, tries>>

(* Submitting and the handlers of the commission.                          *)
Review ==
  /\ app # "deleted"
  /\ app' = IF app = "editable" THEN "locked" ELSE "editable"
  /\ UNCHANGED <<url, object, row, job, night, late, tries>>
-----------------------------------------------------------------------------
(* A request deletes what it owes, one object after the other.  A failure  *)
(* is logged and leaves the object.                                        *)
DeleteObject(w, x) ==
  /\ x \in job[w].owed
  /\ \/ object' = [object EXCEPT ![x] = "absent"]
     \/ UNCHANGED object
  /\ job' = [job EXCEPT ![w].owed = @ \ {x}]
  /\ UNCHANGED <<app, url, row, night, late, tries>>

(* The process stops in the middle of a request.                           *)
Crash(w) ==
  /\ job[w].phase # "idle"
  /\ job' = [job EXCEPT ![w] = Idle]
  /\ UNCHANGED <<app, url, object, row, night, late, tries>>
-----------------------------------------------------------------------------
(* cleanupOrphanedObjects.                                                 *)

(* Mutant: the comparison of the ages is the wrong way round.              *)
StartNightYoung ==
  /\ night = NightIdle
  /\ night' = [phase |-> "running", listed |-> {x \in Key : object[x] = "fresh"}, owed |-> {}]
  /\ UNCHANGED <<app, url, object, row, job, late, tries>>

StartNight ==
  /\ night = NightIdle
  /\ night' = [phase |-> "running", listed |-> {x \in Key : object[x] = "old"}, owed |-> {}]
  /\ UNCHANGED <<app, url, object, row, job, late, tries>>

(* A row of any status protects an object.                                 *)
LookUp(x) ==
  /\ x \in night.listed
  /\ night.owed = {}
  /\ night' = [night EXCEPT !.listed = @ \ {x}, !.owed = IF row[x] = "NONE" THEN {x} ELSE {}]
  /\ UNCHANGED <<app, url, object, row, job, late, tries>>

DeleteOrphan(x) ==
  /\ x \in night.owed
  /\ object' = [object EXCEPT ![x] = "absent"]
  /\ night' = [night EXCEPT !.owed = {}]
  /\ UNCHANGED <<app, url, row, job, late, tries>>

EndNight ==
  /\ night.phase = "running"
  /\ night.listed \cup night.owed = {}
  /\ night' = NightIdle
  /\ UNCHANGED <<app, url, object, row, job, late, tries>>

(* A deletion that fails is not caught: the run ends, as it does when the  *)
(* process stops.                                                          *)
AbortNight ==
  /\ night.phase = "running"
  /\ night' = NightIdle
  /\ UNCHANGED <<app, url, object, row, job, late, tries>>
-----------------------------------------------------------------------------
(* Time.  A URL is valid for ten minutes, so what can still be overwritten *)
(* is fresh.                                                               *)
Expire(x) ==
  /\ url[x] = "valid"
  /\ url' = [url EXCEPT ![x] = "expired"]
  /\ UNCHANGED <<app, object, row, job, night, late, tries>>

GrowOld(x) ==
  /\ url[x] = "expired"
  /\ object[x] \in {"fresh", "stale"}
  /\ object' = [object EXCEPT ![x] = IF @ = "fresh" THEN "stale" ELSE "old"]
  /\ UNCHANGED <<app, url, row, job, night, late, tries>>
-----------------------------------------------------------------------------
Handler(w) ==
  \/ ListUploads(w)
  \/ ReadRows(w)
  \/ Finish(w)
  \/ RejectConfirm(w)
  \/ CommitConfirm(w)
  \/ \E x \in Key : HeadObject(w, x) \/ DeleteAttachment(w, x) \/ DeleteObject(w, x)
  \/ \E keys \in SUBSET Key : DeleteApplication(w, keys)

Next ==
  \/ \E w \in Worker : Handler(w) \/ Crash(w)
  \/ \E x \in Key : Upload(x) \/ Expire(x) \/ GrowOld(x) \/ LookUp(x) \/ DeleteOrphan(x)
  \/ Review
  \/ StartNight \/ EndNight \/ AbortNight

Spec == Init /\ [][Next]_vars

(* The cron job starts every night, and not all its runs are cut short     *)
(* before they come to a given object.  Time passes.                       *)
Fairness ==
  /\ WF_vars(StartNight)
  /\ WF_vars(EndNight)
  /\ \A x \in Key :
       /\ WF_vars(Expire(x))
       /\ WF_vars(GrowOld(x))
       /\ SF_vars(LookUp(x))
       /\ SF_vars(DeleteOrphan(x))

FairSpec == Spec /\ Fairness
-----------------------------------------------------------------------------
(* Properties.                                                             *)

(* Every variable holds a value of its type.                               *)
TypeOK ==
  /\ app \in {"editable", "locked", "deleted"}
  /\ url \in [Key -> {"none", "valid", "expired"}]
  /\ object \in [Key -> Age]
  /\ row \in [Key -> {"NONE", "ACTIVE", "INACTIVE"}]
  /\ job \in [Worker -> Job]
  /\ night \in Night
  /\ late \subseteq Key
  /\ tries \in [Key -> 0..2]

(* A confirmed attachment can be downloaded: neither cleanup, which may    *)
(* have listed its object before it was confirmed, nor the failure or the  *)
(* replacement of another one takes its object away.  Two cases are        *)
(* outside the promise, and the code does lose the object in both: an      *)
(* upload confirmed half an hour late, and a confirm that is repeated.     *)
ActiveKeepsObject == \A x \in Active \ late : tries[x] = 1 => x \in Present

(* "If storage deletion fails, nightly orphan cleanup will retry": an      *)
(* object without a row goes in the end, or is confirmed.                  *)
Orphan(x) == x \in Present /\ row[x] = "NONE"
OrphansGo == \A x \in Key : Orphan(x) ~> ~Orphan(x)
=============================================================================
