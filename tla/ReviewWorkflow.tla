--------------------------- MODULE ReviewWorkflow ---------------------------
(***************************************************************************)
(* The review of ONE instructor application: its status, the revision      *)
(* requests the commission opens on it, the annotations grouped in each    *)
(* request, the snapshots its candidate submits and the nightly cleanup of *)
(* abandoned drafts.                                                       *)
(*                                                                         *)
(* Every handler of the code runs in one transaction whose first statement *)
(* locks the row of the application (SELECT ... FOR UPDATE), reads after   *)
(* the lock and commits at the end, so a handler is one action here.  The  *)
(* only handler that acts on what it read BEFORE taking that lock is the   *)
(* purge of stale drafts; it is two actions.                               *)
(*                                                                         *)
(* Application data is abstracted to whether it was written since the      *)
(* latest snapshot.  CandidateScope.tla models the attachments.            *)
(***************************************************************************)
EXTENDS Naturals

CONSTANTS
  Member,      \* the users with an active membership in the commission
  Manager,     \* those among them that are SECRETARY or CHAIRMAN
  Request,     \* identities of revision requests
  Annotation,  \* identities of candidate annotations
  NoMember,    \* the author of an annotation that does not exist
  NoRequest    \* the request of an annotation that does not exist

ASSUME RosterAssumption ==
  /\ Manager \subseteq Member
  /\ NoMember \notin Member
  /\ NoRequest \notin Request

VARIABLES
  status,      \* status of the application, "DELETED" once its row is gone
  approvedAt,  \* null or set
  archivedAt,  \* null or set
  revision,    \* revision of the latest snapshot, 0 before the first submit
  data,        \* as in the latest snapshot, or edited since
  request,     \* the rows of the revision requests
  annotation,  \* the rows of the candidate annotations
  purge        \* has the running cleanup selected the application to delete it?

vars == <<status, approvedAt, archivedAt, revision, data, request, annotation, purge>>
-----------------------------------------------------------------------------
(* The statuses and the sets of statuses the code tests.                   *)

CommissionVisible ==
  {"SUBMITTED", "TO_FIX", "UNDER_REVIEW", "APPROVED", "IN_PROGRESS",
   "REPORT_SUBMITTED", "COMPLETED_POSITIVE", "REJECTED", "ARCHIVED"}
WorkflowTarget == CommissionVisible \ {"DRAFT"}
(* Mutant: draft requests are also allowed before the review starts.       *)
DraftAllowedEarly == {"SUBMITTED", "UNDER_REVIEW"}

DraftAllowed == {"UNDER_REVIEW"}
ApprovalActive ==
  {"APPROVED", "IN_PROGRESS", "REPORT_SUBMITTED", "COMPLETED_POSITIVE", "ARCHIVED"}
Editable == {"DRAFT", "TO_FIX"}

ApplicationStatus == CommissionVisible \cup {"DRAFT", "DELETED"}

AnchorType == {"APPLICATION", "SECTION", "FIELD", "REQUIREMENT", "ATTACHMENT"}
IsAnchorAllowed(anchor) == anchor # "SECTION"
IsActionable(anchor)    == anchor \in {"FIELD", "REQUIREMENT", "ATTACHMENT"}

RowStatus == {"NONE", "DRAFT", "PUBLISHED", "RESOLVED", "CANCELLED"}
Open      == {"DRAFT", "PUBLISHED"}
Closed    == {"RESOLVED", "CANCELLED"}

DateColumn == {"null", "set"}  \* of a nullable date, only whether it is set

RequestRow ==
  [status: RowStatus, baseline: Nat, response: Nat, viewed: DateColumn, edited: DateColumn]
AnnotationRow ==
  [status: RowStatus, request: Request \cup {NoRequest},
   anchor: AnchorType, author: Member \cup {NoMember}]

NoRequestRow ==
  [status |-> "NONE", baseline |-> 0, response |-> 0, viewed |-> "null", edited |-> "null"]
NoAnnotationRow ==
  [status |-> "NONE", request |-> NoRequest, anchor |-> "APPLICATION", author |-> NoMember]
-----------------------------------------------------------------------------
(* What the handlers look up.  findFirst returns any row that matches: the *)
(* order it asks for matters only if there are two.                        *)

InStatus(st)  == {r \in Request : request[r].status = st}
OpenRequests  == {r \in Request : request[r].status \in Open}
Published(r)  == {a \in Annotation : annotation[a].request = r /\ annotation[a].status = "PUBLISHED"}

(* Mutant: withdrawn annotations are counted too.                          *)
OpenAnnotationsAll(r) == {a \in Annotation : annotation[a].request = r}

OpenAnnotations(r) ==
  {a \in Annotation : annotation[a].request = r /\ annotation[a].status \in Open}

(* Mutant: leaving the archive keeps its date.                             *)
SetStatusKeepingDate(to) ==
  /\ status' = to
  /\ approvedAt' = IF to = "APPROVED" /\ status \notin ApprovalActive THEN "set"
                   ELSE IF status \in ApprovalActive /\ to \notin ApprovalActive THEN "null"
                   ELSE approvedAt
  /\ archivedAt' = IF to = "ARCHIVED" THEN "set" ELSE archivedAt

(* buildStatusUpdateData: a status change sets and clears the two dates.   *)
SetStatus(to) ==
  /\ status' = to
  /\ approvedAt' = IF to = "APPROVED" /\ status \notin ApprovalActive THEN "set"
                   ELSE IF status \in ApprovalActive /\ to \notin ApprovalActive THEN "null"
                   ELSE approvedAt
  /\ archivedAt' = IF to = "ARCHIVED" THEN "set"
                   ELSE IF status = "ARCHIVED" THEN "null"
                   ELSE archivedAt

(* ensureStatusOverrideAllowed: any other status the commission can see.   *)
OverrideAllowed(to) == to \in WorkflowTarget /\ status # to

(* Mutant: annotations are moved whatever their status.                    *)
MoveAllAnnotations(r, sts, to) ==
  annotation' = [a \in Annotation |->
    IF annotation[a].request = r THEN [annotation[a] EXCEPT !.status = to]
    ELSE annotation[a]]

(* Move the annotations of request r that are in one of sts to status to.  *)
MoveAnnotations(r, sts, to) ==
  annotation' = [a \in Annotation |->
    IF annotation[a].request = r /\ annotation[a].status \in sts
    THEN [annotation[a] EXCEPT !.status = to]
    ELSE annotation[a]]

(* Mutant: only published annotations are cancelled.                       *)
CancelRequestKeepingDrafts(r) ==
  /\ MoveAnnotations(r, {"PUBLISHED"}, "CANCELLED")
  /\ request' = [request EXCEPT ![r].status = "CANCELLED"]

(* cancelOpenRevisionRequest: the request and what is open in it.          *)
CancelRequest(r) ==
  /\ MoveAnnotations(r, Open, "CANCELLED")
  /\ request' = [request EXCEPT ![r].status = "CANCELLED"]
-----------------------------------------------------------------------------
Init ==
  /\ status = "DRAFT"
  /\ approvedAt = "null"
  /\ archivedAt = "null"
  /\ revision = 0
  /\ data = "edited"
  /\ request = [r \in Request |-> NoRequestRow]
  /\ annotation = [a \in Annotation |-> NoAnnotationRow]
  /\ purge = "idle"
-----------------------------------------------------------------------------
(* Commission handlers.                                                    *)

(* Mutant: an open request is not looked for.                              *)
SaveAnotherRevisionRequestDraft(m) ==
  /\ m \in Manager
  /\ status \in DraftAllowed
  /\ \E r \in InStatus("NONE") : request' = [request EXCEPT ![r].status = "DRAFT"]
  /\ UNCHANGED <<status, approvedAt, archivedAt, revision, data, annotation, purge>>

(* A manager saves a request with no annotation yet.  Saving again only    *)
(* rewrites its summary, which is not modelled.                            *)
SaveRevisionRequestDraft(m) ==
  /\ m \in Manager
  /\ status \in DraftAllowed
  /\ OpenRequests = {}
  /\ \E r \in InStatus("NONE") : request' = [request EXCEPT ![r].status = "DRAFT"]
  /\ UNCHANGED <<status, approvedAt, archivedAt, revision, data, annotation, purge>>

(* Mutant: annotations are also accepted while the candidate makes fixes.  *)
MayAnnotateMeanwhile(anchor) ==
  /\ IsAnchorAllowed(anchor)
  /\ status \in DraftAllowed \cup {"TO_FIX"}

(* A guard that the screens must agree with has a name of its own; apart   *)
(* from it a handler needs an unused identity at most.                     *)
MayAnnotate(anchor) ==
  /\ IsAnchorAllowed(anchor)
  /\ status \in DraftAllowed
  /\ InStatus("PUBLISHED") = {}

(* Any member annotates; the annotation joins the draft request, which is  *)
(* created when there is none (getOrCreateDraftRevisionRequest).           *)
CreateCandidateAnnotation(m, a, anchor) ==
  /\ MayAnnotate(anchor)
  /\ annotation[a].status = "NONE"
  /\ \E r \in IF OpenRequests # {} THEN OpenRequests ELSE InStatus("NONE") :
       /\ request' = [request EXCEPT ![r].status = "DRAFT"]
       /\ annotation' = [annotation EXCEPT ![a] =
            [status |-> "DRAFT", request |-> r, anchor |-> anchor, author |-> m]]
  /\ UNCHANGED <<status, approvedAt, archivedAt, revision, data, purge>>

MayWithdraw(m, a) ==
  /\ status \in DraftAllowed
  /\ annotation[a].request \in InStatus("DRAFT")
  /\ annotation[a].status = "DRAFT"
  /\ m \in Manager \/ annotation[a].author = m

(* Its author or a moderator withdraws a draft annotation; the other use   *)
(* of updateCandidateAnnotation rewrites the body, which is not modelled.  *)
CancelCandidateAnnotation(m, a) ==
  /\ MayWithdraw(m, a)
  /\ annotation' = [annotation EXCEPT ![a].status = "CANCELLED"]
  /\ UNCHANGED <<status, approvedAt, archivedAt, revision, data, request, purge>>

MayPublish(m, r) ==
  /\ m \in Manager
  /\ status \in CommissionVisible
  /\ OverrideAllowed("TO_FIX")
  /\ revision > 0
  /\ request[r].status # "PUBLISHED"
  /\ \E a \in OpenAnnotations(r) : IsActionable(annotation[a].anchor)

(* publishRevisionRequest, also reached from changeStatus to TO_FIX.       *)
PublishRevisionRequest(m) ==
  /\ \E r \in OpenRequests :
       /\ MayPublish(m, r)
       /\ MoveAnnotations(r, {"DRAFT"}, "PUBLISHED")
       /\ request' = [request EXCEPT ![r].status = "PUBLISHED",
                                     ![r].baseline = revision,
                                     ![r].response = 0]
  /\ SetStatus("TO_FIX")
  /\ UNCHANGED <<revision, data, purge>>

MayCancel(m, r) ==
  /\ m \in Manager
  /\ status \in CommissionVisible
  /\ request[r].status = "PUBLISHED" => status = "TO_FIX"

(* cancelRevisionRequest: a published request returns the application to   *)
(* review, a draft one leaves its status alone.  Both are for managers.    *)
CancelRevisionRequest(m) ==
  /\ \E r \in OpenRequests :
       /\ MayCancel(m, r)
       /\ CancelRequest(r)
       /\ \/ /\ request[r].status = "PUBLISHED"
             /\ SetStatus("UNDER_REVIEW")
          \/ /\ request[r].status = "DRAFT"
             /\ UNCHANGED <<status, approvedAt, archivedAt>>
  /\ UNCHANGED <<revision, data, purge>>

MayChangeStatus(m, to) ==
  /\ m \in Manager
  /\ to # "TO_FIX"
  /\ status \in CommissionVisible
  /\ OverrideAllowed(to)

(* changeStatus to anything but TO_FIX: an override that first cancels the *)
(* published request, or the draft one when the target does not allow it.  *)
ChangeStatus(m, to) ==
  /\ MayChangeStatus(m, to)
  /\ \/ \E r \in OpenRequests :
          /\ request[r].status = "PUBLISHED" \/ to \notin DraftAllowed
          /\ CancelRequest(r)
     \/ /\ \E r \in OpenRequests : request[r].status = "DRAFT" /\ to \in DraftAllowed
        /\ UNCHANGED <<request, annotation>>
     \/ /\ OpenRequests = {}
        /\ UNCHANGED <<request, annotation>>
  /\ SetStatus(to)
  /\ UNCHANGED <<revision, data, purge>>
-----------------------------------------------------------------------------
(* Candidate handlers.                                                     *)

(* Mutant: an edit only counts as a view.                                  *)
MarkOnlyViewed ==
  \/ \E r \in InStatus("PUBLISHED") : request' = [request EXCEPT ![r].viewed = "set"]
  \/ InStatus("PUBLISHED") = {} /\ UNCHANGED request

(* markCandidateRevisionRequestEdited.                                     *)
MarkEdited ==
  \/ \E r \in InStatus("PUBLISHED") :
       request' = [request EXCEPT ![r].viewed = "set", ![r].edited = "set"]
  \/ InStatus("PUBLISHED") = {} /\ UNCHANGED request

(* In TO_FIX the candidate may write what a published annotation unlocks.  *)
Unlocked(anchors) ==
  status = "TO_FIX" =>
    \E r \in InStatus("PUBLISHED") : \E a \in Published(r) : annotation[a].anchor \in anchors

MayWrite(anchors) == status \in Editable /\ Unlocked(anchors)

CandidateWrite(anchors) ==
  /\ MayWrite(anchors)
  /\ data' = "edited"
  /\ MarkEdited
  /\ UNCHANGED <<status, approvedAt, archivedAt, revision, annotation, purge>>

Update            == CandidateWrite({"FIELD"})
UpdateRequirement == CandidateWrite({"REQUIREMENT"})
(* confirmAttachment and deleteAttachment.                                 *)
ChangeAttachments == CandidateWrite({"FIELD", "ATTACHMENT"})

(* update with an empty body passes the scope check, writes nothing and    *)
(* still counts as the candidate's edit.                                   *)
EmptyUpdate ==
  /\ status \in Editable
  /\ MarkEdited
  /\ UNCHANGED <<status, approvedAt, archivedAt, revision, data, annotation, purge>>

MarkActiveRevisionRequestViewed ==
  /\ \E r \in InStatus("PUBLISHED") : request' = [request EXCEPT ![r].viewed = "set"]
  /\ UNCHANGED <<status, approvedAt, archivedAt, revision, data, annotation, purge>>

(* Mutant: the response is the snapshot before the new one.                *)
SubmitStaleResponse ==
  /\ status \in Editable
  /\ revision' = revision + 1
  /\ data' = "submitted"
  /\ \/ \E r \in InStatus("PUBLISHED") :
          /\ request' = [request EXCEPT ![r].status = "RESOLVED", ![r].response = revision]
          /\ MoveAnnotations(r, {"PUBLISHED"}, "RESOLVED")
     \/ /\ InStatus("PUBLISHED") = {}
        /\ UNCHANGED <<request, annotation>>
  /\ status' = "SUBMITTED"
  /\ UNCHANGED <<approvedAt, archivedAt, purge>>

(* submit: a new snapshot, which is the response to the published request. *)
(* Whether the form is complete is left open.                              *)
Submit ==
  /\ status \in Editable
  /\ revision' = revision + 1
  /\ data' = "submitted"
  /\ \/ \E r \in InStatus("PUBLISHED") :
          /\ request' = [request EXCEPT ![r].status = "RESOLVED",
                                        ![r].response = revision + 1]
          /\ MoveAnnotations(r, {"PUBLISHED"}, "RESOLVED")
     \/ /\ InStatus("PUBLISHED") = {}
        /\ UNCHANGED <<request, annotation>>
  /\ status' = "SUBMITTED"
  /\ UNCHANGED <<approvedAt, archivedAt, purge>>

(* Deleting the row cascades to requests, annotations and snapshots.       *)
DeleteRow ==
  /\ status' = "DELETED"
  /\ approvedAt' = "null"
  /\ archivedAt' = "null"
  /\ revision' = 0
  /\ data' = "edited"
  /\ request' = [r \in Request |-> NoRequestRow]
  /\ annotation' = [a \in Annotation |-> NoAnnotationRow]

MayDelete == status = "DRAFT"

DeleteDraft ==
  /\ MayDelete
  /\ DeleteRow
  /\ UNCHANGED purge
-----------------------------------------------------------------------------
(* cleanupStaleInstructorDrafts, once a night.  Time is not modelled: any  *)
(* draft may be old enough.                                                *)

(* Mutant: the archiving is not dated.                                     *)
ArchiveStaleDraftUndated ==
  /\ status = "DRAFT"
  /\ status' = "ARCHIVED"
  /\ UNCHANGED <<approvedAt, archivedAt, revision, data, request, annotation, purge>>

ArchiveStaleDraft ==
  /\ status = "DRAFT"
  /\ status' = "ARCHIVED"
  /\ archivedAt' = "set"
  /\ UNCHANGED <<approvedAt, revision, data, request, annotation, purge>>

(* Mutant: lastSubmittedAt is not looked at.                               *)
SelectAnyArchived ==
  /\ status = "ARCHIVED"
  /\ archivedAt = "set"
  /\ approvedAt = "null"
  /\ purge' = "selected"
  /\ UNCHANGED <<status, approvedAt, archivedAt, revision, data, request, annotation>>

(* The select of the drafts to delete takes no lock.                       *)
SelectStaleDraft ==
  /\ status = "ARCHIVED"
  /\ archivedAt = "set"
  /\ revision = 0
  /\ approvedAt = "null"
  /\ purge' = "selected"
  /\ UNCHANGED <<status, approvedAt, archivedAt, revision, data, request, annotation>>

(* Then each selected row is locked and deleted without being read again.  *)
PurgeStaleDraft ==
  /\ purge = "selected"
  /\ status # "DELETED"
  /\ DeleteRow
  /\ purge' = "idle"

(* The run ends without the row: batch limit, crash, or row already gone.  *)
AbandonPurge ==
  /\ purge = "selected"
  /\ purge' = "idle"
  /\ UNCHANGED <<status, approvedAt, archivedAt, revision, data, request, annotation>>
-----------------------------------------------------------------------------
CommissionNext ==
  \E m \in Member :
    \/ SaveRevisionRequestDraft(m)
    \/ \E a \in Annotation : \E anchor \in AnchorType : CreateCandidateAnnotation(m, a, anchor)
    \/ \E a \in Annotation : CancelCandidateAnnotation(m, a)
    \/ PublishRevisionRequest(m)
    \/ CancelRevisionRequest(m)
    \/ \E to \in ApplicationStatus : ChangeStatus(m, to)

CandidateNext ==
  \/ Update
  \/ UpdateRequirement
  \/ ChangeAttachments
  \/ EmptyUpdate
  \/ MarkActiveRevisionRequestViewed
  \/ Submit
  \/ DeleteDraft

CleanupNext ==
  \/ ArchiveStaleDraft
  \/ SelectStaleDraft
  \/ PurgeStaleDraft
  \/ AbandonPurge

Next == CommissionNext \/ CandidateNext \/ CleanupNext

Spec == Init /\ [][Next]_vars
-----------------------------------------------------------------------------
(* Properties.                                                             *)

(* Every row and column holds a value of its type.                         *)
TypeOK ==
  /\ status \in ApplicationStatus
  /\ approvedAt \in DateColumn
  /\ archivedAt \in DateColumn
  /\ revision \in Nat
  /\ data \in {"submitted", "edited"}
  /\ request \in [Request -> RequestRow]
  /\ annotation \in [Annotation -> AnnotationRow]
  /\ purge \in {"idle", "selected"}

(* An application has one open revision request at most.  The handlers     *)
(* look it up with findFirst and never meet the partial unique index       *)
(* InstructorReviewRevisionRequest_single_open_idx.                        *)
SingleOpenRequest == \A r, s \in OpenRequests : r = s

(* The two machines agree: an application waits for fixes exactly while a  *)
(* request is published, and a draft request exists only under review,     *)
(* whichever of publish, cancel, override, submit and cleanup came last.   *)
RequestFitsStatus ==
  /\ status = "TO_FIX" <=> InStatus("PUBLISHED") # {}
  /\ InStatus("DRAFT") # {} => status = "UNDER_REVIEW"

(* An annotation that was not withdrawn is in the state of its request, so *)
(* cancelling, publishing and resolving a request leave no annotation      *)
(* behind for the candidate or for the next request to trip over.          *)
AnnotationsFollowRequest ==
  \A a \in Annotation : annotation[a].status # "NONE" =>
    /\ annotation[a].request \in Request
    /\ annotation[a].status # "CANCELLED" =>
         annotation[a].status = request[annotation[a].request].status
    /\ annotation[a].status = "CANCELLED" =>
         request[annotation[a].request].status # "NONE"

(* A candidate who is asked for fixes is asked for something they can do:  *)
(* a published request keeps a published annotation that unlocks an edit.  *)
PublishedHasWork ==
  \A r \in InStatus("PUBLISHED") : \E a \in Published(r) : IsActionable(annotation[a].anchor)

(* The before and after the commission compares: a published request is    *)
(* based on the latest snapshot, a resolved one is answered by the very    *)
(* next snapshot, and one snapshot answers one request.                    *)
SnapshotLinks ==
  \A r \in Request :
    /\ request[r].status = "PUBLISHED" => request[r].baseline = revision /\ revision > 0
    /\ request[r].status = "RESOLVED" =>
         /\ request[r].response = request[r].baseline + 1
         /\ request[r].response <= revision
         /\ \A s \in InStatus("RESOLVED") : request[s].response = request[r].response => s = r

(* Cancelling a published request keeps what its candidate already wrote.  *)
(* Data that no snapshot shows is always traceable to a request based on   *)
(* the latest snapshot and marked as edited.                               *)
UnsubmittedEditsTraceable ==
  revision > 0 /\ data = "edited" =>
    \E r \in Request : request[r].baseline = revision /\ request[r].edited = "set"

(* approvedAt survives only while the approval does, and archivedAt is the *)
(* date of the present archiving, by the commission or by the cleanup.     *)
DatesFitStatus ==
  /\ approvedAt = "set" => status \in ApprovalActive
  /\ archivedAt = "set" <=> status = "ARCHIVED"

(* The purge deletes what it selected however long it waited for the lock: *)
(* meanwhile the application cannot have been submitted, because it is not *)
(* editable and a revived draft has no snapshot to base a request on.      *)
SelectedNeverSubmitted ==
  /\ status \in {"DRAFT", "DELETED"} => revision = 0
  /\ purge = "selected" => revision = 0 /\ status # "DRAFT"

(* The inductive invariant: the parts above lean on each other.            *)
IInv ==
  /\ TypeOK
  /\ SingleOpenRequest
  /\ RequestFitsStatus
  /\ AnnotationsFollowRequest
  /\ PublishedHasWork
  /\ SnapshotLinks
  /\ UnsubmittedEditsTraceable
  /\ DatesFitStatus
  /\ SelectedNeverSubmitted

(* A closed request and its annotations are history: no handler changes    *)
(* them while the application exists.                                      *)
ClosedRequestsFrozen ==
  [][status' # "DELETED" =>
       /\ \A r \in Request : request[r].status \in Closed => request'[r] = request[r]
       /\ \A a \in Annotation :
            annotation[a].status \in Closed => annotation'[a] = annotation[a]]_vars

(* Neither deleteDraft nor the purge, which deletes what it selected       *)
(* before taking the lock, ever deletes a submitted application.           *)
DeletionSparesSubmitted == [][status' = "DELETED" => revision = 0]_vars

(* ReviewDialogue in the rows: whose turn the status makes it, the request *)
(* that is published and those that were resolved, each with the           *)
(* annotations in it that were not withdrawn.                              *)
Turn ==
  IF status \in Editable THEN "candidate"
  ELSE IF status = "DELETED" THEN "gone" ELSE "commission"
Resolved(r) == {a \in Annotation : annotation[a].request = r /\ annotation[a].status = "RESOLVED"}
OpenQuestion ==
  {[about |-> request[r].baseline, points |-> Published(r)] : r \in InStatus("PUBLISHED")}
AnsweredRounds ==
  {[about |-> request[r].baseline, answer |-> request[r].response, points |-> Resolved(r)] :
     r \in InStatus("RESOLVED")}

Dialogue == INSTANCE ReviewDialogue
  WITH Point <- Annotation, turn <- Turn, submissions <- revision, work <- data,
       question <- OpenQuestion, rounds <- AnsweredRounds

(* Each handler is a turn of the dialogue or none: the candidate works     *)
(* only on a draft and on one open question about the latest snapshot,     *)
(* whose points stay what was published until the snapshot that answers    *)
(* it, and afterwards, and no override, cleanup or drafting of the next    *)
(* request disturbs the rounds before.                                     *)
ImplementsDialogue == Dialogue!Spec

(* The nightly cleanup comes back: a row it can select is deleted in the   *)
(* end unless the commission takes it out of the archive.                  *)
Stale == status = "ARCHIVED" /\ revision = 0 /\ approvedAt = "null"
StaleArchivedGoes == Stale ~> ~Stale

(* The cleanup is a cron job: it selects every night, and not every run is *)
(* cut short by its batch limit, which serves the oldest rows first.       *)
CleanupFairness == WF_vars(SelectStaleDraft) /\ SF_vars(PurgeStaleDraft)
FairSpec == Spec /\ CleanupFairness

-----------------------------------------------------------------------------
(* What the repository says and the code does not do: TLC finds it         *)
(* violated.  README.md, "Divergences".                                    *)

(* The state machine of the acceptance criteria lets the commission accept *)
(* only what was submitted.                                                *)
ApprovedWasSubmitted == status = "APPROVED" => revision > 0
=============================================================================
