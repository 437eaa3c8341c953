------------------------ MODULE ReviewWorkflow_proofs ------------------------
(***************************************************************************)
(* Proofs about ReviewWorkflow, for any commission, any number of requests *)
(* and any number of annotations, that the notes of InternalNotes do not   *)
(* disturb it, and that the pages of both sides tell the same of it; then  *)
(* about ActiveDegree, the applications of one candidate side by side.     *)
(***************************************************************************)
EXTENDS ReviewPages, FiniteSetTheorems, TLAPS

(***************************************************************************)
(* The row updates the actions share keep the type of the rows.            *)
(***************************************************************************)

LEMMA EmptyRowsTyped ==
  /\ NoRequestRow \in RequestRow
  /\ NoAnnotationRow \in AnnotationRow
BY DEF NoRequestRow, RequestRow, NoAnnotationRow, AnnotationRow, RowStatus, AnchorType, DateColumn

LEMMA StatusTyped ==
  ASSUME TypeOK, NEW to \in ApplicationStatus, SetStatus(to)
  PROVE  /\ status' \in ApplicationStatus
         /\ approvedAt' \in DateColumn
         /\ archivedAt' \in DateColumn
BY DEF TypeOK, SetStatus, DateColumn

LEMMA MoveTyped ==
  ASSUME TypeOK, NEW r \in Request, NEW sts, NEW to \in RowStatus, MoveAnnotations(r, sts, to)
  PROVE  annotation' \in [Annotation -> AnnotationRow]
<1>1. ASSUME NEW row \in AnnotationRow PROVE [row EXCEPT !.status = to] \in AnnotationRow
  BY DEF AnnotationRow
<1> QED
  BY <1>1 DEF TypeOK, MoveAnnotations

LEMMA CancelTyped ==
  ASSUME TypeOK, NEW r \in OpenRequests, CancelRequest(r)
  PROVE  /\ request' \in [Request -> RequestRow]
         /\ annotation' \in [Annotation -> AnnotationRow]
<1>1. r \in Request
  BY DEF OpenRequests
<1>2. request' \in [Request -> RequestRow]
  BY <1>1 DEF CancelRequest, TypeOK, RequestRow, RowStatus
<1>3. annotation' \in [Annotation -> AnnotationRow]
  BY <1>1, MoveTyped DEF CancelRequest, RowStatus
<1> QED
  BY <1>2, <1>3

LEMMA MarkEditedTyped ==
  ASSUME TypeOK, MarkEdited
  PROVE  request' \in [Request -> RequestRow]
<1>1. ASSUME NEW row \in RequestRow
      PROVE  [row EXCEPT !.viewed = "set", !.edited = "set"] \in RequestRow
  BY DEF RequestRow, DateColumn
<1>2. CASE UNCHANGED request
  BY <1>2 DEF TypeOK
<1>3. CASE \E r \in Request :
             request' = [request EXCEPT ![r] = [@ EXCEPT !.viewed = "set", !.edited = "set"]]
  BY <1>1, <1>3 DEF TypeOK
<1> QED
  BY <1>2, <1>3 DEF MarkEdited, InStatus, TypeOK, RequestRow

LEMMA TypeInit == Init => TypeOK
BY EmptyRowsTyped DEF Init, TypeOK, ApplicationStatus, DateColumn

LEMMA TypeStep ==
  ASSUME TypeOK, [Next]_vars
  PROVE  TypeOK'
<1>1. ASSUME NEW m \in Member, SaveRevisionRequestDraft(m) PROVE TypeOK'
  <2>1. request' \in [Request -> RequestRow]
    BY <1>1 DEF SaveRevisionRequestDraft, InStatus, TypeOK, RequestRow, RowStatus
  <2> QED
    BY <1>1, <2>1 DEF SaveRevisionRequestDraft, TypeOK
<1>2. ASSUME NEW m \in Member, NEW a \in Annotation, NEW anchor \in AnchorType,
             CreateCandidateAnnotation(m, a, anchor)
      PROVE TypeOK'
  <2>1. PICK r \in Request :
           /\ request' = [request EXCEPT ![r].status = "DRAFT"]
           /\ annotation' = [annotation EXCEPT ![a] =
                [status |-> "DRAFT", request |-> r, anchor |-> anchor, author |-> m]]
    BY <1>2 DEF CreateCandidateAnnotation, MayAnnotate, InStatus, OpenRequests
  <2>2. request' \in [Request -> RequestRow]
    BY <2>1 DEF TypeOK, RequestRow, RowStatus
  <2>3. annotation' \in [Annotation -> AnnotationRow]
    BY <2>1 DEF TypeOK, AnnotationRow, RowStatus
  <2> QED
    BY <1>2, <2>2, <2>3 DEF CreateCandidateAnnotation, MayAnnotate, TypeOK
<1>3. ASSUME NEW m \in Member, NEW a \in Annotation, CancelCandidateAnnotation(m, a)
      PROVE TypeOK'
  <2>1. annotation' \in [Annotation -> AnnotationRow]
    BY <1>3 DEF CancelCandidateAnnotation, MayWithdraw, TypeOK, AnnotationRow, RowStatus
  <2> QED
    BY <1>3, <2>1 DEF CancelCandidateAnnotation, MayWithdraw, TypeOK
<1>4. ASSUME NEW m \in Member, PublishRevisionRequest(m) PROVE TypeOK'
  <2>1. PICK r \in Request :
           /\ MoveAnnotations(r, {"DRAFT"}, "PUBLISHED")
           /\ request' = [request EXCEPT ![r].status = "PUBLISHED",
                                         ![r].baseline = revision,
                                         ![r].response = 0]
    BY <1>4 DEF PublishRevisionRequest, MayPublish, OpenRequests
  <2>2. request' \in [Request -> RequestRow]
    BY <2>1 DEF TypeOK, RequestRow, RowStatus
  <2>3. annotation' \in [Annotation -> AnnotationRow]
    BY <2>1, MoveTyped DEF RowStatus
  <2>4. SetStatus("TO_FIX") /\ "TO_FIX" \in ApplicationStatus
    BY <1>4 DEF PublishRevisionRequest, MayPublish, ApplicationStatus, CommissionVisible
  <2> QED
    BY <1>4, <2>2, <2>3, <2>4, StatusTyped DEF PublishRevisionRequest, MayPublish, TypeOK
<1>5. ASSUME NEW m \in Member, CancelRevisionRequest(m) PROVE TypeOK'
  <2>1. PICK r \in OpenRequests :
           /\ CancelRequest(r)
           /\ SetStatus("UNDER_REVIEW") \/ UNCHANGED <<status, approvedAt, archivedAt>>
    BY <1>5 DEF CancelRevisionRequest, MayCancel
  <2>2. "UNDER_REVIEW" \in ApplicationStatus
    BY DEF ApplicationStatus, CommissionVisible
  <2>3. /\ status' \in ApplicationStatus
        /\ approvedAt' \in DateColumn
        /\ archivedAt' \in DateColumn
    BY <2>1, <2>2, StatusTyped DEF TypeOK
  <2> QED
    BY <1>5, <2>1, <2>3, CancelTyped DEF CancelRevisionRequest, MayCancel, TypeOK
<1>6. ASSUME NEW m \in Member, NEW to \in ApplicationStatus, ChangeStatus(m, to) PROVE TypeOK'
  <2>1. /\ request' \in [Request -> RequestRow]
        /\ annotation' \in [Annotation -> AnnotationRow]
    <3>1. \/ \E r \in OpenRequests : CancelRequest(r)
          \/ UNCHANGED <<request, annotation>>
      BY <1>6 DEF ChangeStatus, MayChangeStatus
    <3> QED
      BY <3>1, CancelTyped DEF TypeOK
  <2> QED
    BY <1>6, <2>1, StatusTyped DEF ChangeStatus, MayChangeStatus, TypeOK
<1>7. ASSUME NEW anchors, CandidateWrite(anchors) PROVE TypeOK'
  BY <1>7, MarkEditedTyped DEF CandidateWrite, MayWrite, TypeOK
<1>8. CASE EmptyUpdate
  BY <1>8, MarkEditedTyped DEF EmptyUpdate, TypeOK
<1>9. CASE MarkActiveRevisionRequestViewed
  <2>1. request' \in [Request -> RequestRow]
    BY <1>9 DEF MarkActiveRevisionRequestViewed, InStatus, TypeOK, RequestRow, DateColumn
  <2> QED
    BY <1>9, <2>1 DEF MarkActiveRevisionRequestViewed, TypeOK
<1>10. CASE Submit
  <2>1. \/ \E r \in Request :
             /\ request' = [request EXCEPT ![r].status = "RESOLVED",
                                           ![r].response = revision + 1]
             /\ MoveAnnotations(r, {"PUBLISHED"}, "RESOLVED")
        \/ UNCHANGED <<request, annotation>>
    BY <1>10 DEF Submit, InStatus
  <2>2. revision + 1 \in Nat
    BY DEF TypeOK
  <2>3. ASSUME NEW r \in Request
        PROVE  [request EXCEPT ![r].status = "RESOLVED", ![r].response = revision + 1]
                 \in [Request -> RequestRow]
    BY <2>2 DEF TypeOK, RequestRow, RowStatus
  <2>4. request' \in [Request -> RequestRow]
    BY <2>1, <2>3 DEF TypeOK
  <2>5. annotation' \in [Annotation -> AnnotationRow]
    BY <2>1, MoveTyped DEF TypeOK, RowStatus
  <2> QED
    BY <1>10, <2>2, <2>4, <2>5 DEF Submit, TypeOK, ApplicationStatus, CommissionVisible
<1>11. ASSUME DeleteRow, purge' \in {"idle", "selected"} PROVE TypeOK'
  BY <1>11, EmptyRowsTyped DEF DeleteRow, TypeOK, ApplicationStatus, DateColumn
<1>12. CASE DeleteDraft
  BY <1>11, <1>12 DEF DeleteDraft, MayDelete, TypeOK
<1>13. CASE PurgeStaleDraft
  BY <1>11, <1>13 DEF PurgeStaleDraft
<1>14. CASE ArchiveStaleDraft
  BY <1>14 DEF ArchiveStaleDraft, TypeOK, ApplicationStatus, CommissionVisible, DateColumn
<1>15. CASE SelectStaleDraft
  BY <1>15 DEF SelectStaleDraft, TypeOK
<1>16. CASE AbandonPurge
  BY <1>16 DEF AbandonPurge, TypeOK
<1>17. CASE UNCHANGED vars
  BY <1>17 DEF vars, TypeOK
<1> QED
  BY <1>1, <1>2, <1>3, <1>4, <1>5, <1>6, <1>7, <1>8, <1>9, <1>10, <1>12, <1>13, <1>14,
     <1>15, <1>16, <1>17
  DEF Next, CommissionNext, CandidateNext, CleanupNext, Update, UpdateRequirement, ChangeAttachments

(* Type correctness of the review workflow's columns and rows.             *)
THEOREM TypeCorrect == Spec => []TypeOK
<1>1. TypeOK /\ [Next]_vars => TypeOK'
  BY TypeStep
<1> QED
  BY <1>1, TypeInit, PTL DEF Spec

(***************************************************************************)
(* The inductive invariant.  Every lemma below is about one action.  Its   *)
(* first steps say field by field what the action does to the rows, and    *)
(* the rest takes the parts of IInv one at a time.                         *)
(***************************************************************************)

LEMMA InvInit == Init => IInv
<1> SUFFICES ASSUME Init PROVE IInv
  OBVIOUS
<1>1. /\ \A r \in Request : request[r].status = "NONE"
      /\ \A a \in Annotation : annotation[a].status = "NONE"
  BY DEF Init, NoRequestRow, NoAnnotationRow
<1>2. SingleOpenRequest /\ RequestFitsStatus /\ AnnotationsFollowRequest
  BY <1>1 DEF Init, SingleOpenRequest, RequestFitsStatus, AnnotationsFollowRequest,
              OpenRequests, InStatus, Open
<1>3. PublishedHasWork /\ SnapshotLinks /\ UnsubmittedEditsTraceable
  BY <1>1 DEF Init, PublishedHasWork, SnapshotLinks, UnsubmittedEditsTraceable, InStatus
<1>4. DatesFitStatus /\ SelectedNeverSubmitted
  BY DEF Init, DatesFitStatus, SelectedNeverSubmitted
<1> QED
  BY <1>2, <1>3, <1>4, TypeInit DEF IInv

LEMMA SaveKeepsInv ==
  ASSUME IInv, NEW m \in Member, SaveRevisionRequestDraft(m), TypeOK'
  PROVE  IInv'
<1>1. PICK r \in Request : request[r].status = "NONE" /\ request' = [request EXCEPT ![r].status = "DRAFT"]
  BY DEF SaveRevisionRequestDraft, InStatus
<1>2. /\ request'[r].status = "DRAFT"
      /\ \A s \in Request : s # r => request'[s] = request[s]
      /\ \A s \in Request : /\ request'[s].baseline = request[s].baseline
                             /\ request'[s].response = request[s].response
                             /\ request'[s].edited = request[s].edited
  BY <1>1 DEF IInv, TypeOK, RequestRow
<1>3. /\ status = "UNDER_REVIEW"
      /\ UNCHANGED <<status, approvedAt, archivedAt, revision, data, annotation, purge>>
      /\ \A s \in Request : request[s].status \notin {"DRAFT", "PUBLISHED"}
  BY DEF SaveRevisionRequestDraft, OpenRequests, Open, DraftAllowed
<1>4. SingleOpenRequest' /\ RequestFitsStatus'
  BY <1>2, <1>3 DEF SingleOpenRequest, RequestFitsStatus, OpenRequests, InStatus, Open
<1>5. AnnotationsFollowRequest'
  BY <1>1, <1>2, <1>3 DEF IInv, AnnotationsFollowRequest
<1>6. PublishedHasWork'
  BY <1>2, <1>3 DEF PublishedHasWork, InStatus
<1>7. SnapshotLinks'
  BY <1>2, <1>3 DEF IInv, SnapshotLinks, InStatus
<1>8. UnsubmittedEditsTraceable'
  BY <1>2, <1>3 DEF IInv, UnsubmittedEditsTraceable
<1>9. DatesFitStatus' /\ SelectedNeverSubmitted'
  BY <1>3 DEF IInv, DatesFitStatus, SelectedNeverSubmitted
<1> QED
  BY <1>4, <1>5, <1>6, <1>7, <1>8, <1>9 DEF IInv

LEMMA CreateKeepsInv ==
  ASSUME IInv, NEW m \in Member, NEW a \in Annotation, NEW anchor \in AnchorType,
         CreateCandidateAnnotation(m, a, anchor), TypeOK'
  PROVE  IInv'
<1>1. PICK r \in Request :
         /\ IF OpenRequests # {} THEN r \in OpenRequests ELSE request[r].status = "NONE"
         /\ request' = [request EXCEPT ![r].status = "DRAFT"]
         /\ annotation' = [annotation EXCEPT ![a] =
              [status |-> "DRAFT", request |-> r, anchor |-> anchor, author |-> m]]
  BY DEF CreateCandidateAnnotation, MayAnnotate, InStatus, OpenRequests
<1>2. /\ request'[r].status = "DRAFT"
      /\ \A s \in Request : s # r => request'[s] = request[s]
      /\ \A s \in Request : /\ request'[s].baseline = request[s].baseline
                             /\ request'[s].response = request[s].response
                             /\ request'[s].edited = request[s].edited
  BY <1>1 DEF IInv, TypeOK, RequestRow
<1>3. /\ annotation'[a].status = "DRAFT"
      /\ annotation'[a].request = r
      /\ \A b \in Annotation : b # a => annotation'[b] = annotation[b]
  BY <1>1 DEF IInv, TypeOK
<1>4. /\ status = "UNDER_REVIEW"
      /\ UNCHANGED <<status, approvedAt, archivedAt, revision, data, purge>>
      /\ annotation[a].status = "NONE"
      /\ \A s \in Request : request[s].status # "PUBLISHED"
  BY DEF CreateCandidateAnnotation, MayAnnotate, InStatus, DraftAllowed
<1>5. /\ request[r].status \in {"NONE", "DRAFT"}
      /\ \A s \in Request : s # r => request[s].status \notin {"DRAFT", "PUBLISHED"}
  BY <1>1, <1>4 DEF IInv, SingleOpenRequest, OpenRequests, Open
<1>6. SingleOpenRequest' /\ RequestFitsStatus'
  BY <1>2, <1>4, <1>5 DEF SingleOpenRequest, RequestFitsStatus, OpenRequests, InStatus, Open
<1>7. AnnotationsFollowRequest'
  BY <1>2, <1>3, <1>5 DEF IInv, AnnotationsFollowRequest
<1>8. PublishedHasWork'
  BY <1>2, <1>4 DEF PublishedHasWork, InStatus
<1>9. SnapshotLinks'
  BY <1>2, <1>4, <1>5 DEF IInv, SnapshotLinks, InStatus
<1>10. UnsubmittedEditsTraceable'
  BY <1>2, <1>4 DEF IInv, UnsubmittedEditsTraceable
<1>11. DatesFitStatus' /\ SelectedNeverSubmitted'
  BY <1>4 DEF IInv, DatesFitStatus, SelectedNeverSubmitted
<1> QED
  BY <1>6, <1>7, <1>8, <1>9, <1>10, <1>11 DEF IInv

LEMMA WithdrawKeepsInv ==
  ASSUME IInv, NEW m \in Member, NEW a \in Annotation, CancelCandidateAnnotation(m, a), TypeOK'
  PROVE  IInv'
<1>1. /\ annotation'[a].status = "CANCELLED"
      /\ annotation'[a].request = annotation[a].request
      /\ annotation[a].request \in Request
      /\ request[annotation[a].request].status = "DRAFT"
      /\ \A b \in Annotation : b # a => annotation'[b] = annotation[b]
  BY DEF CancelCandidateAnnotation, MayWithdraw, InStatus, IInv, TypeOK, AnnotationRow
<1>2. /\ status = "UNDER_REVIEW"
      /\ UNCHANGED <<status, approvedAt, archivedAt, revision, data, request, purge>>
  BY DEF CancelCandidateAnnotation, MayWithdraw, DraftAllowed
<1>3. SingleOpenRequest' /\ RequestFitsStatus'
  BY <1>2 DEF IInv, SingleOpenRequest, RequestFitsStatus, OpenRequests, InStatus
<1>4. AnnotationsFollowRequest'
  BY <1>1, <1>2 DEF IInv, AnnotationsFollowRequest
<1>5. PublishedHasWork'
  BY <1>2 DEF IInv, RequestFitsStatus, PublishedHasWork, InStatus
<1>6. SnapshotLinks' /\ UnsubmittedEditsTraceable'
  BY <1>2 DEF IInv, SnapshotLinks, UnsubmittedEditsTraceable, InStatus
<1>7. DatesFitStatus' /\ SelectedNeverSubmitted'
  BY <1>2 DEF IInv, DatesFitStatus, SelectedNeverSubmitted
<1> QED
  BY <1>3, <1>4, <1>5, <1>6, <1>7 DEF IInv
(* A status change keeps the two dates in step with the status.            *)
LEMMA StatusKeepsDates ==
  ASSUME DatesFitStatus, NEW to \in CommissionVisible, SetStatus(to),
         approvedAt \in DateColumn, archivedAt \in DateColumn
  PROVE  DatesFitStatus'
BY DEF DatesFitStatus, SetStatus, ApprovalActive, CommissionVisible, DateColumn

LEMMA PublishKeepsInv ==
  ASSUME IInv, NEW m \in Member, PublishRevisionRequest(m), TypeOK'
  PROVE  IInv'
<1>1. PICK r \in OpenRequests :
         /\ request[r].status # "PUBLISHED"
         /\ \E a \in OpenAnnotations(r) : IsActionable(annotation[a].anchor)
         /\ MoveAnnotations(r, {"DRAFT"}, "PUBLISHED")
         /\ request' = [request EXCEPT ![r].status = "PUBLISHED",
                                       ![r].baseline = revision,
                                       ![r].response = 0]
  BY DEF PublishRevisionRequest, MayPublish
<1>2. /\ r \in Request
      /\ request[r].status = "DRAFT"
      /\ \A s \in Request : s # r => request[s].status \notin {"DRAFT", "PUBLISHED"}
  BY <1>1 DEF OpenRequests, Open, IInv, SingleOpenRequest
<1>3. /\ request'[r].status = "PUBLISHED"
      /\ request'[r].baseline = revision
      /\ request'[r].edited = request[r].edited
      /\ \A s \in Request : s # r => request'[s] = request[s]
  BY <1>1, <1>2 DEF IInv, TypeOK, RequestRow
<1>4. \A a \in Annotation :
         IF annotation[a].request = r /\ annotation[a].status = "DRAFT"
         THEN /\ annotation'[a].status = "PUBLISHED"
              /\ annotation'[a].request = r
              /\ annotation'[a].anchor = annotation[a].anchor
         ELSE annotation'[a] = annotation[a]
  BY <1>1 DEF MoveAnnotations, IInv, TypeOK, AnnotationRow
<1>5. /\ status = "UNDER_REVIEW"
      /\ status' = "TO_FIX"
      /\ revision > 0
      /\ UNCHANGED <<revision, data, purge>>
  BY <1>2 DEF PublishRevisionRequest, MayPublish, SetStatus, IInv, RequestFitsStatus, InStatus
<1>6. SingleOpenRequest' /\ RequestFitsStatus'
  BY <1>2, <1>3, <1>5 DEF SingleOpenRequest, RequestFitsStatus, OpenRequests, InStatus, Open
<1>7. AnnotationsFollowRequest'
  BY <1>2, <1>3, <1>4 DEF IInv, AnnotationsFollowRequest
<1>8. PublishedHasWork'
  <2>1. PICK a \in Annotation : /\ annotation[a].request = r
                                /\ annotation[a].status \in {"DRAFT", "PUBLISHED"}
                                /\ IsActionable(annotation[a].anchor)
    BY <1>1 DEF OpenAnnotations, Open
  <2>2. annotation[a].status = "DRAFT"
    BY <1>2, <2>1 DEF IInv, AnnotationsFollowRequest
  <2>3. /\ annotation'[a].request = r
        /\ annotation'[a].status = "PUBLISHED"
        /\ IsActionable(annotation'[a].anchor)
    BY <1>4, <2>1, <2>2
  <2>4. \A s \in InStatus("PUBLISHED")' : s = r
    BY <1>2, <1>3 DEF InStatus
  <2> QED
    BY <2>3, <2>4 DEF PublishedHasWork, Published
<1>9. SnapshotLinks'
  BY <1>2, <1>3, <1>5 DEF IInv, SnapshotLinks, InStatus
<1>10. UnsubmittedEditsTraceable'
  BY <1>2, <1>3, <1>5 DEF IInv, UnsubmittedEditsTraceable
<1>11. DatesFitStatus'
  BY StatusKeepsDates DEF PublishRevisionRequest, MayPublish, IInv, TypeOK, CommissionVisible
<1>12. SelectedNeverSubmitted'
  BY <1>5 DEF IInv, SelectedNeverSubmitted
<1> QED
  BY <1>6, <1>7, <1>8, <1>9, <1>10, <1>11, <1>12 DEF IInv

(* What cancelling the open request does, whatever the new status is.      *)
LEMMA CancelClosesRequests ==
  ASSUME IInv, NEW r \in OpenRequests, CancelRequest(r), UNCHANGED <<revision, data>>
  PROVE  /\ OpenRequests' = {}
         /\ AnnotationsFollowRequest'
         /\ SnapshotLinks'
         /\ UnsubmittedEditsTraceable'
<1>1. /\ r \in Request
      /\ request[r].status \in {"DRAFT", "PUBLISHED"}
      /\ \A s \in Request : s # r => request[s].status \notin {"DRAFT", "PUBLISHED"}
  BY DEF OpenRequests, Open, IInv, SingleOpenRequest
<1>2. /\ request'[r].status = "CANCELLED"
      /\ request'[r].baseline = request[r].baseline
      /\ request'[r].edited = request[r].edited
      /\ \A s \in Request : s # r => request'[s] = request[s]
  BY <1>1 DEF CancelRequest, IInv, TypeOK, RequestRow
<1>3. \A a \in Annotation :
         IF annotation[a].request = r /\ annotation[a].status \in {"DRAFT", "PUBLISHED"}
         THEN annotation'[a].status = "CANCELLED" /\ annotation'[a].request = r
         ELSE annotation'[a] = annotation[a]
  BY DEF CancelRequest, MoveAnnotations, Open, IInv, TypeOK, AnnotationRow
<1>4. OpenRequests' = {}
  BY <1>1, <1>2 DEF OpenRequests, Open
<1>5. AnnotationsFollowRequest'
  BY <1>1, <1>2, <1>3 DEF IInv, AnnotationsFollowRequest
<1>6. SnapshotLinks'
  BY <1>1, <1>2 DEF IInv, SnapshotLinks, InStatus
<1>7. UnsubmittedEditsTraceable'
  BY <1>2 DEF IInv, UnsubmittedEditsTraceable
<1> QED
  BY <1>4, <1>5, <1>6, <1>7

LEMMA CancelKeepsInv ==
  ASSUME IInv, NEW m \in Member, CancelRevisionRequest(m), TypeOK'
  PROVE  IInv'
<1>1. PICK r \in OpenRequests :
         /\ CancelRequest(r)
         /\ \/ /\ request[r].status = "PUBLISHED"
               /\ status = "TO_FIX"
               /\ SetStatus("UNDER_REVIEW")
            \/ /\ request[r].status = "DRAFT"
               /\ UNCHANGED <<status, approvedAt, archivedAt>>
  BY DEF CancelRevisionRequest, MayCancel
<1>2. UNCHANGED <<revision, data, purge>>
  BY DEF CancelRevisionRequest, MayCancel
<1>3. status' = "UNDER_REVIEW"
  BY <1>1 DEF SetStatus, IInv, RequestFitsStatus, OpenRequests, InStatus
<1>4. /\ OpenRequests' = {}
      /\ AnnotationsFollowRequest' /\ SnapshotLinks' /\ UnsubmittedEditsTraceable'
  BY <1>1, <1>2, CancelClosesRequests
<1>5. SingleOpenRequest' /\ RequestFitsStatus' /\ PublishedHasWork'
  BY <1>3, <1>4 DEF SingleOpenRequest, RequestFitsStatus, PublishedHasWork, OpenRequests, InStatus, Open
<1>6. DatesFitStatus'
  <2>1. CASE SetStatus("UNDER_REVIEW")
    BY <2>1, StatusKeepsDates DEF IInv, TypeOK, CommissionVisible
  <2>2. CASE UNCHANGED <<status, approvedAt, archivedAt>>
    BY <2>2 DEF IInv, DatesFitStatus
  <2> QED
    BY <1>1, <2>1, <2>2
<1>7. SelectedNeverSubmitted'
  BY <1>2, <1>3 DEF IInv, SelectedNeverSubmitted
<1> QED
  BY <1>4, <1>5, <1>6, <1>7 DEF IInv

LEMMA OverrideKeepsInv ==
  ASSUME IInv, NEW m \in Member, NEW to \in ApplicationStatus, ChangeStatus(m, to), TypeOK'
  PROVE  IInv'
<1>1. /\ to \in CommissionVisible
      /\ to # "TO_FIX"
      /\ SetStatus(to)
      /\ status' = to
      /\ UNCHANGED <<revision, data, purge>>
  BY DEF ChangeStatus, MayChangeStatus, OverrideAllowed, WorkflowTarget, SetStatus
<1>2. DatesFitStatus'
  BY <1>1, StatusKeepsDates DEF IInv, TypeOK
<1>3. SelectedNeverSubmitted'
  BY <1>1 DEF IInv, SelectedNeverSubmitted, CommissionVisible
<1>4. CASE \E r \in OpenRequests : CancelRequest(r)
  <2>1. /\ OpenRequests' = {}
        /\ AnnotationsFollowRequest' /\ SnapshotLinks' /\ UnsubmittedEditsTraceable'
    BY <1>1, <1>4, CancelClosesRequests
  <2>2. SingleOpenRequest' /\ RequestFitsStatus' /\ PublishedHasWork'
    BY <1>1, <2>1 DEF SingleOpenRequest, RequestFitsStatus, PublishedHasWork, OpenRequests, InStatus, Open
  <2> QED
    BY <1>2, <1>3, <2>1, <2>2 DEF IInv
<1>5. CASE UNCHANGED <<request, annotation>>
  <2>1. \/ OpenRequests = {}
        \/ to = "UNDER_REVIEW" /\ \E r \in OpenRequests : request[r].status = "DRAFT"
        \/ \E r \in OpenRequests : CancelRequest(r)
    BY DEF ChangeStatus, MayChangeStatus, DraftAllowed
  <2>2. RequestFitsStatus'
    BY <1>1, <1>4, <1>5, <2>1
    DEF IInv, SingleOpenRequest, RequestFitsStatus, OpenRequests, InStatus, Open
  <2>3. SingleOpenRequest' /\ AnnotationsFollowRequest' /\ PublishedHasWork'
    BY <1>5 DEF IInv, SingleOpenRequest, AnnotationsFollowRequest, PublishedHasWork,
                OpenRequests, InStatus, Published
  <2>4. SnapshotLinks' /\ UnsubmittedEditsTraceable'
    BY <1>1, <1>5 DEF IInv, SnapshotLinks, UnsubmittedEditsTraceable, InStatus
  <2> QED
    BY <1>2, <1>3, <2>2, <2>3, <2>4 DEF IInv
<1> QED
  BY <1>4, <1>5 DEF ChangeStatus, MayChangeStatus
(* What the candidate's activity may change in the requests: the two dates *)
(* of the published request, and nothing else of any row.                  *)
Activity(r) ==
  /\ r \in InStatus("PUBLISHED")
  /\ \A s \in Request :
       /\ request'[s].status = request[s].status
       /\ request'[s].baseline = request[s].baseline
       /\ request'[s].response = request[s].response
       /\ s # r => request'[s] = request[s]
  /\ request[r].edited = "set" => request'[r].edited = "set"

LEMMA ActivityKeepsInv ==
  ASSUME IInv, TypeOK', UNCHANGED request \/ \E r \in Request : Activity(r),
         UNCHANGED <<status, approvedAt, archivedAt, revision, annotation, purge>>
  PROVE  /\ SingleOpenRequest' /\ RequestFitsStatus' /\ AnnotationsFollowRequest'
         /\ PublishedHasWork' /\ SnapshotLinks' /\ DatesFitStatus' /\ SelectedNeverSubmitted'
         /\ UNCHANGED data => UnsubmittedEditsTraceable'
<1>1. \A s \in Request : /\ request'[s].status = request[s].status
                         /\ request'[s].baseline = request[s].baseline
                         /\ request'[s].response = request[s].response
                         /\ request[s].edited = "set" => request'[s].edited = "set"
  BY DEF Activity
<1>2. OpenRequests' = OpenRequests /\ \A st : InStatus(st)' = InStatus(st)
  BY <1>1 DEF OpenRequests, InStatus
<1>3. SingleOpenRequest' /\ RequestFitsStatus'
  BY <1>2 DEF IInv, SingleOpenRequest, RequestFitsStatus
<1>4. AnnotationsFollowRequest'
  BY <1>1 DEF IInv, AnnotationsFollowRequest
<1>5. PublishedHasWork'
  BY <1>2 DEF IInv, PublishedHasWork, Published
<1>6. SnapshotLinks'
  <2>1. \A s \in Request : request[s].baseline \in Nat /\ request[s].response \in Nat
    BY DEF IInv, TypeOK, RequestRow
  <2> QED
    BY <1>1, <2>1 DEF IInv, SnapshotLinks, InStatus
<1>7. UNCHANGED data => UnsubmittedEditsTraceable'
  BY <1>1 DEF IInv, UnsubmittedEditsTraceable
<1>8. DatesFitStatus' /\ SelectedNeverSubmitted'
  BY DEF IInv, DatesFitStatus, SelectedNeverSubmitted
<1> QED
  BY <1>3, <1>4, <1>5, <1>6, <1>7, <1>8

LEMMA MarkEditedActivity ==
  ASSUME IInv, MarkEdited
  PROVE  \/ /\ UNCHANGED request
            /\ InStatus("PUBLISHED") = {}
         \/ \E r \in Request : Activity(r) /\ request'[r].edited = "set"
<1>1. ASSUME NEW r \in InStatus("PUBLISHED"),
             request' = [request EXCEPT ![r].viewed = "set", ![r].edited = "set"]
      PROVE  Activity(r) /\ request'[r].edited = "set"
  BY <1>1 DEF Activity, InStatus, IInv, TypeOK, RequestRow
<1> QED
  BY <1>1 DEF MarkEdited, InStatus

LEMMA WriteKeepsInv ==
  ASSUME IInv, NEW anchors, CandidateWrite(anchors), TypeOK'
  PROVE  IInv'
<1>1. /\ status \in {"DRAFT", "TO_FIX"}
      /\ MarkEdited
      /\ UNCHANGED <<status, approvedAt, archivedAt, revision, annotation, purge>>
  BY DEF CandidateWrite, MayWrite, Editable
<1>2. UnsubmittedEditsTraceable'
  <2>1. CASE status = "DRAFT"
    BY <1>1, <2>1 DEF IInv, SelectedNeverSubmitted, UnsubmittedEditsTraceable
  <2>2. CASE status = "TO_FIX"
    <3>1. PICK r \in Request : Activity(r) /\ request'[r].edited = "set"
      BY <1>1, <2>2, MarkEditedActivity DEF IInv, RequestFitsStatus
    <3>2. request'[r].baseline = revision
      BY <3>1 DEF Activity, InStatus, IInv, SnapshotLinks
    <3> QED
      BY <1>1, <3>1, <3>2 DEF UnsubmittedEditsTraceable
  <2> QED
    BY <1>1, <2>1, <2>2
<1> QED
  BY <1>1, <1>2, MarkEditedActivity, ActivityKeepsInv DEF IInv

LEMMA EmptyUpdateKeepsInv ==
  ASSUME IInv, EmptyUpdate, TypeOK'
  PROVE  IInv'
BY MarkEditedActivity, ActivityKeepsInv DEF EmptyUpdate, IInv

LEMMA ViewKeepsInv ==
  ASSUME IInv, MarkActiveRevisionRequestViewed, TypeOK'
  PROVE  IInv'
<1>1. ASSUME NEW r \in InStatus("PUBLISHED"), request' = [request EXCEPT ![r].viewed = "set"]
      PROVE  Activity(r)
  BY <1>1 DEF Activity, InStatus, IInv, TypeOK, RequestRow
<1> QED
  BY <1>1, ActivityKeepsInv DEF MarkActiveRevisionRequestViewed, InStatus, IInv

LEMMA SubmitKeepsInv ==
  ASSUME IInv, Submit, TypeOK'
  PROVE  IInv'
<1>1. /\ status \in {"DRAFT", "TO_FIX"}
      /\ status' = "SUBMITTED"
      /\ revision \in Nat
      /\ revision' = revision + 1
      /\ data' = "submitted"
      /\ UNCHANGED <<approvedAt, archivedAt, purge>>
  BY DEF Submit, Editable, IInv, TypeOK
<1>2. UnsubmittedEditsTraceable' /\ DatesFitStatus'
  BY <1>1 DEF UnsubmittedEditsTraceable, IInv, DatesFitStatus, ApprovalActive
<1>3. purge # "selected"
  <2>1. status = "TO_FIX" => revision > 0
    BY DEF IInv, RequestFitsStatus, SnapshotLinks, InStatus
  <2> QED
    BY <1>1, <2>1 DEF IInv, SelectedNeverSubmitted
<1>4. SelectedNeverSubmitted'
  BY <1>1, <1>3 DEF SelectedNeverSubmitted
<1>5. CASE InStatus("PUBLISHED") = {} /\ UNCHANGED <<request, annotation>>
  <2>1. OpenRequests = {}
    BY <1>1, <1>5 DEF IInv, RequestFitsStatus, OpenRequests, Open, InStatus
  <2>2. SingleOpenRequest' /\ RequestFitsStatus' /\ PublishedHasWork'
    BY <1>1, <1>5, <2>1 DEF SingleOpenRequest, RequestFitsStatus, PublishedHasWork,
                            OpenRequests, InStatus, Open
  <2>3. AnnotationsFollowRequest' /\ SnapshotLinks'
    BY <1>1, <1>5 DEF IInv, TypeOK, RequestRow, AnnotationsFollowRequest, SnapshotLinks, InStatus
  <2> QED
    BY <1>2, <1>4, <2>2, <2>3 DEF IInv
<1>6. ASSUME NEW r \in InStatus("PUBLISHED"),
             request' = [request EXCEPT ![r].status = "RESOLVED", ![r].response = revision + 1],
             MoveAnnotations(r, {"PUBLISHED"}, "RESOLVED")
      PROVE  IInv'
  <2>1. /\ r \in Request
        /\ request[r].status = "PUBLISHED"
        /\ request[r].baseline = revision
        /\ \A s \in Request : s # r => request[s].status \notin {"DRAFT", "PUBLISHED"}
    BY <1>6 DEF InStatus, IInv, SnapshotLinks, SingleOpenRequest, OpenRequests, Open
  <2>2. /\ request'[r].status = "RESOLVED"
        /\ request'[r].baseline = revision
        /\ request'[r].response = revision + 1
        /\ \A s \in Request : s # r => request'[s] = request[s]
    BY <1>6, <2>1 DEF IInv, TypeOK, RequestRow
  <2>3. \A a \in Annotation :
           IF annotation[a].request = r /\ annotation[a].status = "PUBLISHED"
           THEN annotation'[a].status = "RESOLVED" /\ annotation'[a].request = r
           ELSE annotation'[a] = annotation[a]
    BY <1>6 DEF MoveAnnotations, IInv, TypeOK, AnnotationRow
  <2>4. SingleOpenRequest' /\ RequestFitsStatus' /\ PublishedHasWork'
    BY <1>1, <2>1, <2>2 DEF SingleOpenRequest, RequestFitsStatus, PublishedHasWork,
                            OpenRequests, InStatus, Open
  <2>5. AnnotationsFollowRequest'
    BY <2>1, <2>2, <2>3 DEF IInv, AnnotationsFollowRequest
  <2>6. SnapshotLinks'
    <3>1. \A s \in Request : request[s].response \in Nat
      BY DEF IInv, TypeOK, RequestRow
    <3> QED
      BY <1>1, <2>1, <2>2, <3>1 DEF IInv, SnapshotLinks, InStatus
  <2> QED
    BY <1>2, <1>4, <2>4, <2>5, <2>6 DEF IInv
<1> QED
  BY <1>5, <1>6 DEF Submit
LEMMA DeleteKeepsInv ==
  ASSUME IInv, DeleteRow, TypeOK'
  PROVE  IInv'
<1>1. /\ \A r \in Request : request'[r].status = "NONE"
      /\ \A a \in Annotation : annotation'[a].status = "NONE"
  BY DEF DeleteRow, NoRequestRow, NoAnnotationRow
<1>2. /\ status' = "DELETED"
      /\ revision' = 0
      /\ approvedAt' = "null"
      /\ archivedAt' = "null"
  BY DEF DeleteRow
<1>3. SingleOpenRequest' /\ RequestFitsStatus' /\ AnnotationsFollowRequest'
  BY <1>1, <1>2 DEF SingleOpenRequest, RequestFitsStatus, AnnotationsFollowRequest,
                    OpenRequests, InStatus, Open
<1>4. PublishedHasWork' /\ SnapshotLinks' /\ UnsubmittedEditsTraceable'
  BY <1>1, <1>2 DEF PublishedHasWork, SnapshotLinks, UnsubmittedEditsTraceable, InStatus
<1>5. DatesFitStatus' /\ SelectedNeverSubmitted'
  BY <1>2 DEF DatesFitStatus, SelectedNeverSubmitted
<1> QED
  BY <1>3, <1>4, <1>5 DEF IInv

LEMMA CleanupKeepsInv ==
  ASSUME IInv, TypeOK', ArchiveStaleDraft \/ SelectStaleDraft \/ AbandonPurge \/ UNCHANGED vars
  PROVE  IInv'
<1>1. UNCHANGED <<revision, data, request, annotation>>
  BY DEF ArchiveStaleDraft, SelectStaleDraft, AbandonPurge, vars
<1>2. SingleOpenRequest' /\ AnnotationsFollowRequest' /\ PublishedHasWork'
  BY <1>1 DEF IInv, SingleOpenRequest, AnnotationsFollowRequest, PublishedHasWork,
              OpenRequests, InStatus, Published
<1>3. SnapshotLinks' /\ UnsubmittedEditsTraceable'
  BY <1>1 DEF IInv, SnapshotLinks, UnsubmittedEditsTraceable, InStatus
<1>4. RequestFitsStatus'
  BY <1>1 DEF IInv, RequestFitsStatus, InStatus, ArchiveStaleDraft, SelectStaleDraft, AbandonPurge, vars
<1>5. DatesFitStatus' /\ SelectedNeverSubmitted'
  BY DEF IInv, DatesFitStatus, SelectedNeverSubmitted, ApprovalActive,
         ArchiveStaleDraft, SelectStaleDraft, AbandonPurge, vars
<1> QED
  BY <1>2, <1>3, <1>4, <1>5 DEF IInv

LEMMA InvStep ==
  ASSUME IInv, [Next]_vars
  PROVE  IInv'
<1>1. TypeOK'
  BY TypeStep DEF IInv
<1>2. CASE CommissionNext
  BY <1>1, <1>2, SaveKeepsInv, CreateKeepsInv, WithdrawKeepsInv, PublishKeepsInv, CancelKeepsInv,
     OverrideKeepsInv
  DEF CommissionNext
<1>3. CASE CandidateNext
  BY <1>1, <1>3, WriteKeepsInv, EmptyUpdateKeepsInv, ViewKeepsInv, SubmitKeepsInv, DeleteKeepsInv
  DEF CandidateNext, Update, UpdateRequirement, ChangeAttachments, DeleteDraft, MayDelete
<1>4. CASE CleanupNext
  BY <1>1, <1>4, CleanupKeepsInv, DeleteKeepsInv DEF CleanupNext, PurgeStaleDraft
<1>5. CASE UNCHANGED vars
  BY <1>1, <1>5, CleanupKeepsInv
<1> QED
  BY <1>2, <1>3, <1>4, <1>5 DEF Next

LEMMA InvHolds == Spec => []IInv
<1>1. IInv /\ [Next]_vars => IInv'
  BY InvStep
<1> QED
  BY <1>1, InvInit, PTL DEF Spec

(***************************************************************************)
(* The theorems.                                                           *)
(***************************************************************************)

(* No application ever has two open revision requests, so the partial      *)
(* unique index on them never fails a handler.                             *)
THEOREM OneOpenRequest == Spec => []SingleOpenRequest
<1>1. IInv => SingleOpenRequest
  BY DEF IInv
<1> QED
  BY <1>1, InvHolds, PTL

(* TO_FIX and a published request come and go together, and drafts of      *)
(* requests live only under review.                                        *)
THEOREM RequestsFit == Spec => []RequestFitsStatus
<1>1. IInv => RequestFitsStatus
  BY DEF IInv
<1> QED
  BY <1>1, InvHolds, PTL

(* Annotations follow their request through its life.                      *)
THEOREM AnnotationsConsistent == Spec => []AnnotationsFollowRequest
<1>1. IInv => AnnotationsFollowRequest
  BY DEF IInv
<1> QED
  BY <1>1, InvHolds, PTL

(* A published request always leaves the candidate something to edit, not  *)
(* only at the moment of its publication.                                  *)
THEOREM WorkRemains == Spec => []PublishedHasWork
<1>1. IInv => PublishedHasWork
  BY DEF IInv
<1> QED
  BY <1>1, InvHolds, PTL

(* The snapshots a request compares are consecutive.                       *)
THEOREM SnapshotsConsistent == Spec => []SnapshotLinks
<1>1. IInv => SnapshotLinks
  BY DEF IInv
<1> QED
  BY <1>1, InvHolds, PTL

(* What was edited since the latest snapshot is traceable to a request,    *)
(* also after the request was cancelled.                                   *)
THEOREM EditsTraceable == Spec => []UnsubmittedEditsTraceable
<1>1. IInv => UnsubmittedEditsTraceable
  BY DEF IInv
<1> QED
  BY <1>1, InvHolds, PTL

(* approvedAt and archivedAt agree with the status.                        *)
THEOREM DatesConsistent == Spec => []DatesFitStatus
<1>1. IInv => DatesFitStatus
  BY DEF IInv
<1> QED
  BY <1>1, InvHolds, PTL

(* Nothing the application's owner ever submitted is deleted, although the *)
(* purge deletes what it selected before it had the lock.                  *)
THEOREM DeletionSafe == Spec => DeletionSparesSubmitted
<1>1. IInv /\ [Next]_vars => [status' = "DELETED" => revision = 0]_vars
  <2> SUFFICES ASSUME IInv, [Next]_vars, status' = "DELETED" PROVE revision = 0
    OBVIOUS
  <2>1. CASE status = "DELETED"
    BY <2>1 DEF IInv, SelectedNeverSubmitted
  <2>2. CASE status # "DELETED"
    <3>1. \A to \in CommissionVisible : SetStatus(to) => status' # "DELETED"
      BY DEF SetStatus, CommissionVisible
    <3>2. ~CommissionNext
      BY <2>2, <3>1
      DEF CommissionNext, SaveRevisionRequestDraft, CreateCandidateAnnotation, MayAnnotate,
          CancelCandidateAnnotation, MayWithdraw, PublishRevisionRequest, MayPublish,
          CancelRevisionRequest, MayCancel, ChangeStatus, MayChangeStatus,
          OverrideAllowed, WorkflowTarget, CommissionVisible
    <3>3. DeleteDraft \/ PurgeStaleDraft
      BY <2>2, <3>2
      DEF Next, CandidateNext, CleanupNext, Update, UpdateRequirement, ChangeAttachments,
          CandidateWrite, MayWrite, EmptyUpdate, MarkActiveRevisionRequestViewed, Submit, ArchiveStaleDraft,
          SelectStaleDraft, AbandonPurge, vars
    <3> QED
      BY <3>3 DEF DeleteDraft, MayDelete, PurgeStaleDraft, IInv, SelectedNeverSubmitted
  <2> QED
    BY <2>1, <2>2
<1> QED
  BY <1>1, InvHolds, PTL DEF Spec, DeletionSparesSubmitted
(* A step leaves closed requests and annotations alone.                    *)
LEMMA ClosedRowsStep ==
  ASSUME TypeOK, [Next]_vars, status' # "DELETED"
  PROVE  /\ \A r \in Request : request[r].status \in Closed => request'[r] = request[r]
         /\ \A a \in Annotation : annotation[a].status \in Closed => annotation'[a] = annotation[a]
<1> DEFINE Frozen == /\ \A r \in Request : request[r].status \in Closed => request'[r] = request[r]
                     /\ \A a \in Annotation : annotation[a].status \in Closed => annotation'[a] = annotation[a]
<1> USE DEF Closed, TypeOK
<1>1. ASSUME NEW r \in OpenRequests, CancelRequest(r) PROVE Frozen
  BY <1>1 DEF CancelRequest, MoveAnnotations, OpenRequests, Open
<1>2. ASSUME NEW m \in Member, SaveRevisionRequestDraft(m) PROVE Frozen
  BY <1>2 DEF SaveRevisionRequestDraft, InStatus
<1>3. ASSUME NEW m \in Member, NEW a \in Annotation, NEW anchor \in AnchorType,
             CreateCandidateAnnotation(m, a, anchor)
      PROVE  Frozen
  BY <1>3 DEF CreateCandidateAnnotation, MayAnnotate, InStatus, OpenRequests, Open
<1>4. ASSUME NEW m \in Member, NEW a \in Annotation, CancelCandidateAnnotation(m, a) PROVE Frozen
  BY <1>4 DEF CancelCandidateAnnotation, MayWithdraw
<1>5. ASSUME NEW m \in Member, PublishRevisionRequest(m) PROVE Frozen
  BY <1>5 DEF PublishRevisionRequest, MayPublish, MoveAnnotations, OpenRequests, Open
<1>6. ASSUME NEW m \in Member, CancelRevisionRequest(m) PROVE Frozen
  BY <1>1, <1>6 DEF CancelRevisionRequest, MayCancel
<1>7. ASSUME NEW m \in Member, NEW to \in ApplicationStatus, ChangeStatus(m, to) PROVE Frozen
  BY <1>1, <1>7 DEF ChangeStatus, MayChangeStatus
<1>8. CASE CandidateNext
  <2>1. ~DeleteDraft
    BY DEF DeleteDraft, MayDelete, DeleteRow
  <2>2. ASSUME MarkEdited, UNCHANGED annotation PROVE Frozen
    BY <2>2 DEF MarkEdited, InStatus
  <2>3. ASSUME NEW anchors, CandidateWrite(anchors) PROVE Frozen
    BY <2>2, <2>3 DEF CandidateWrite, MayWrite
  <2>4. CASE EmptyUpdate
    BY <2>2, <2>4 DEF EmptyUpdate
  <2>5. CASE MarkActiveRevisionRequestViewed
    BY <2>5 DEF MarkActiveRevisionRequestViewed, InStatus
  <2>6. CASE Submit
    BY <2>6 DEF Submit, InStatus, MoveAnnotations
  <2> QED
    BY <1>8, <2>1, <2>3, <2>4, <2>5, <2>6
    DEF CandidateNext, Update, UpdateRequirement, ChangeAttachments
<1>9. CASE CleanupNext \/ UNCHANGED vars
  BY <1>9 DEF CleanupNext, ArchiveStaleDraft, SelectStaleDraft, PurgeStaleDraft, AbandonPurge,
              DeleteRow, vars
<1>10. CASE CommissionNext
  BY <1>2, <1>3, <1>4, <1>5, <1>6, <1>7, <1>10 DEF CommissionNext
<1> QED
  BY <1>8, <1>9, <1>10 DEF Next

(* Closed requests are history: no handler rewrites them.                  *)
THEOREM HistoryKept == Spec => ClosedRequestsFrozen
<1>1. TypeOK /\ [Next]_vars =>
        [status' # "DELETED" =>
           /\ \A r \in Request : request[r].status \in Closed => request'[r] = request[r]
           /\ \A a \in Annotation :
                annotation[a].status \in Closed => annotation'[a] = annotation[a]]_vars
  BY ClosedRowsStep
<1> QED
  BY <1>1, TypeCorrect, PTL DEF Spec, ClosedRequestsFrozen

(* Writing, rewriting and deleting internal notes never changes the review *)
(* itself, so all that is proved of Spec holds of the commission's desk.   *)
THEOREM DeskIsReview == DeskSpec => Spec
<1>1. DeskInit => Init
  BY DEF DeskInit
<1>2. [DeskNext]_deskVars => [Next]_vars
  BY DEF DeskNext, deskVars, CreateInternalNote, UpdateInternalNote, MayChangeNote, DeleteInternalNote
<1> QED
  BY <1>1, <1>2, PTL DEF DeskSpec, Spec

(***************************************************************************)
(* What a row of a request says of itself: only a published request was    *)
(* seen, worked on and answered.  IInv links the rows to the application;  *)
(* this says that the columns of one row agree.                            *)
(***************************************************************************)
RowSound(row) ==
  /\ row.status \in {"NONE", "DRAFT"} => row.baseline = 0 /\ row.response = 0 /\ row.viewed = "null"
  /\ row.status \in {"PUBLISHED", "RESOLVED"} => row.baseline > 0
  /\ row.viewed = "set" => row.baseline > 0
  /\ row.edited = "set" => row.viewed = "set"
RowsSound == \A r \in Request : RowSound(request[r])

LEMMA RowsInit == Init => RowsSound
BY DEF Init, RowsSound, RowSound, NoRequestRow

LEMMA RowsStep ==
  ASSUME IInv, RowsSound, [Next]_vars
  PROVE  RowsSound'
<1> USE DEF RowSound
<1>1. \A r \in Request : request[r] \in RequestRow
  BY DEF IInv, TypeOK
<1>2. ASSUME UNCHANGED request PROVE RowsSound'
  BY <1>2 DEF RowsSound
<1>3. ASSUME NEW r \in Request, \A s \in Request : s # r => request'[s] = request[s],
             RowSound(request'[r])
      PROVE  RowsSound'
  BY <1>3 DEF RowsSound
<1>4. ASSUME NEW r \in OpenRequests, CancelRequest(r) PROVE RowsSound'
  <2>1. /\ r \in Request
        /\ \A s \in Request : s # r => request'[s] = request[s]
        /\ RowSound(request'[r])
    BY <1>1, <1>4 DEF OpenRequests, Open, RequestRow, RowsSound, CancelRequest, IInv, TypeOK
  <2> QED
    BY <1>3, <2>1
<1>5. ASSUME NEW r \in Request, request[r].status \in {"NONE", "DRAFT"},
             request' = [request EXCEPT ![r].status = "DRAFT"]
      PROVE  RowsSound'
  <2>1. /\ \A s \in Request : s # r => request'[s] = request[s]
        /\ RowSound(request'[r])
    BY <1>1, <1>5 DEF RequestRow, RowsSound, IInv, TypeOK
  <2> QED
    BY <1>3, <2>1
<1>6. ASSUME NEW m \in Member, SaveRevisionRequestDraft(m) PROVE RowsSound'
  BY <1>5, <1>6 DEF SaveRevisionRequestDraft, InStatus
<1>7. ASSUME NEW m \in Member, NEW a \in Annotation, NEW anchor \in AnchorType,
             CreateCandidateAnnotation(m, a, anchor)
      PROVE  RowsSound'
  BY <1>5, <1>7 DEF CreateCandidateAnnotation, MayAnnotate, InStatus, OpenRequests, Open
<1>8. ASSUME NEW m \in Member, PublishRevisionRequest(m) PROVE RowsSound'
  <2>1. PICK r \in OpenRequests :
           /\ request[r].status # "PUBLISHED"
           /\ request' = [request EXCEPT ![r].status = "PUBLISHED",
                                         ![r].baseline = revision,
                                         ![r].response = 0]
    BY <1>8 DEF PublishRevisionRequest, MayPublish
  <2>2. /\ r \in Request
        /\ request[r].status = "DRAFT"
        /\ revision > 0
    BY <1>8, <2>1 DEF OpenRequests, Open, PublishRevisionRequest, MayPublish
  <2>3. /\ \A s \in Request : s # r => request'[s] = request[s]
        /\ request'[r].status = "PUBLISHED"
        /\ request'[r].baseline = revision
        /\ request'[r].viewed = request[r].viewed
        /\ request'[r].edited = request[r].edited
    BY <1>1, <2>1, <2>2 DEF RequestRow, IInv, TypeOK
  <2>4. RowSound(request'[r])
    BY <1>1, <2>2, <2>3 DEF RowsSound, RequestRow
  <2> QED
    BY <1>3, <2>2, <2>3, <2>4
<1>9. ASSUME NEW m \in Member, CancelRevisionRequest(m) PROVE RowsSound'
  BY <1>4, <1>9 DEF CancelRevisionRequest, MayCancel
<1>10. ASSUME NEW m \in Member, NEW to \in ApplicationStatus, ChangeStatus(m, to) PROVE RowsSound'
  BY <1>2, <1>4, <1>10 DEF ChangeStatus, MayChangeStatus
<1>11. CASE CommissionNext
  BY <1>2, <1>6, <1>7, <1>8, <1>9, <1>10, <1>11 DEF CommissionNext, CancelCandidateAnnotation, MayWithdraw
<1>12. CASE MarkEdited
  <2>1. ASSUME NEW r \in InStatus("PUBLISHED"),
               request' = [request EXCEPT ![r].viewed = "set", ![r].edited = "set"]
        PROVE  RowsSound'
    <3>1. /\ r \in Request
          /\ \A s \in Request : s # r => request'[s] = request[s]
          /\ request'[r].status = "PUBLISHED"
          /\ request'[r].baseline = request[r].baseline
          /\ request'[r].viewed = "set"
      BY <1>1, <2>1 DEF InStatus, RequestRow, IInv, TypeOK
    <3>2. RowSound(request'[r])
      BY <1>1, <3>1 DEF InStatus, RowsSound
    <3> QED
      BY <1>3, <3>1, <3>2
  <2> QED
    BY <1>2, <1>12, <2>1 DEF MarkEdited
<1>13. CASE MarkActiveRevisionRequestViewed
  <2>1. PICK r \in InStatus("PUBLISHED") : request' = [request EXCEPT ![r].viewed = "set"]
    BY <1>13 DEF MarkActiveRevisionRequestViewed
  <2>2. /\ r \in Request
        /\ \A s \in Request : s # r => request'[s] = request[s]
        /\ request'[r].status = "PUBLISHED"
        /\ request'[r].baseline = request[r].baseline
        /\ request'[r].viewed = "set"
    BY <1>1, <2>1 DEF InStatus, RequestRow, IInv, TypeOK
  <2>3. RowSound(request'[r])
    BY <1>1, <2>2 DEF InStatus, RowsSound
  <2> QED
    BY <1>3, <2>2, <2>3
<1>14. CASE Submit
  <2>1. ASSUME NEW r \in InStatus("PUBLISHED"),
               request' = [request EXCEPT ![r].status = "RESOLVED", ![r].response = revision + 1]
        PROVE  RowsSound'
    <3>1. /\ r \in Request
          /\ \A s \in Request : s # r => request'[s] = request[s]
          /\ request'[r].status = "RESOLVED"
          /\ request'[r].baseline = request[r].baseline
          /\ request'[r].viewed = request[r].viewed
          /\ request'[r].edited = request[r].edited
      BY <1>1, <2>1 DEF InStatus, RequestRow, IInv, TypeOK
    <3>2. RowSound(request'[r])
      BY <1>1, <3>1 DEF InStatus, RowsSound
    <3> QED
      BY <1>3, <3>1, <3>2
  <2> QED
    BY <1>2, <1>14, <2>1 DEF Submit
<1>15. CASE DeleteRow
  BY <1>15 DEF DeleteRow, RowsSound, NoRequestRow
<1>16. CASE CandidateNext
  BY <1>12, <1>13, <1>14, <1>15, <1>16
  DEF CandidateNext, Update, UpdateRequirement, ChangeAttachments, CandidateWrite, MayWrite,
      EmptyUpdate, DeleteDraft, MayDelete
<1>17. CASE CleanupNext \/ UNCHANGED vars
  BY <1>2, <1>15, <1>17
  DEF CleanupNext, ArchiveStaleDraft, SelectStaleDraft, PurgeStaleDraft, AbandonPurge, vars
<1> QED
  BY <1>11, <1>16, <1>17 DEF Next

(* An annotation that was not written belongs to no request.               *)
Unwritten == \A a \in Annotation : annotation[a].status = "NONE" => annotation[a].request = NoRequest

LEMMA UnwrittenStep ==
  ASSUME IInv, Unwritten, [Next]_vars
  PROVE  Unwritten'
<1> USE DEF Unwritten
<1>1. \A a \in Annotation : annotation[a] \in AnnotationRow
  BY DEF IInv, TypeOK
<1>2. ASSUME UNCHANGED annotation PROVE Unwritten'
  BY <1>2
<1>3. ASSUME NEW r, NEW sts, NEW to, "NONE" \notin sts, to # "NONE", MoveAnnotations(r, sts, to)
      PROVE  Unwritten'
  BY <1>1, <1>3 DEF MoveAnnotations, AnnotationRow
<1>4. ASSUME NEW r, CancelRequest(r) PROVE Unwritten'
  BY <1>3, <1>4 DEF CancelRequest, Open
<1>5. ASSUME NEW m \in Member, NEW a \in Annotation, NEW anchor \in AnchorType,
             CreateCandidateAnnotation(m, a, anchor)
      PROVE  Unwritten'
  BY <1>5 DEF CreateCandidateAnnotation, MayAnnotate, IInv, TypeOK
<1>6. ASSUME NEW m \in Member, NEW a \in Annotation, CancelCandidateAnnotation(m, a) PROVE Unwritten'
  BY <1>1, <1>6 DEF CancelCandidateAnnotation, MayWithdraw, AnnotationRow, IInv, TypeOK
<1>7. ASSUME NEW m \in Member, PublishRevisionRequest(m) PROVE Unwritten'
  BY <1>3, <1>7 DEF PublishRevisionRequest, MayPublish
<1>8. ASSUME NEW m \in Member, CancelRevisionRequest(m) PROVE Unwritten'
  BY <1>4, <1>8 DEF CancelRevisionRequest, MayCancel
<1>9. ASSUME NEW m \in Member, NEW to \in ApplicationStatus, ChangeStatus(m, to) PROVE Unwritten'
  BY <1>2, <1>4, <1>9 DEF ChangeStatus, MayChangeStatus
<1>10. CASE Submit
  BY <1>2, <1>3, <1>10 DEF Submit
<1>11. CASE DeleteRow
  BY <1>11 DEF DeleteRow, NoAnnotationRow
<1>12. CASE CommissionNext
  BY <1>2, <1>5, <1>6, <1>7, <1>8, <1>9, <1>12 DEF CommissionNext, SaveRevisionRequestDraft
<1>13. CASE CandidateNext
  BY <1>2, <1>10, <1>11, <1>13
  DEF CandidateNext, Update, UpdateRequirement, ChangeAttachments, CandidateWrite, MayWrite, EmptyUpdate,
      MarkActiveRevisionRequestViewed, DeleteDraft, MayDelete
<1>14. CASE CleanupNext \/ UNCHANGED vars
  BY <1>2, <1>11, <1>14
  DEF CleanupNext, ArchiveStaleDraft, SelectStaleDraft, PurgeStaleDraft, AbandonPurge, vars
<1> QED
  BY <1>12, <1>13, <1>14 DEF Next

(* What is shown of a request that is published or resolved is in its state. *)
LEMMA ActiveInState ==
  ASSUME IInv, Unwritten, NEW r \in Request, NEW st \in {"PUBLISHED", "RESOLVED"},
         request[r].status = st
  PROVE  ActiveAnnotations(r) = {a \in Annotation : annotation[a].request = r /\ annotation[a].status = st}
<1>1. ASSUME NEW a \in Annotation, annotation[a].request = r, annotation[a].status # "CANCELLED"
      PROVE  annotation[a].status = st
  <2>1. annotation[a].status # "NONE"
    BY <1>1, RosterAssumption DEF Unwritten
  <2> QED
    BY <1>1, <2>1 DEF IInv, AnnotationsFollowRequest
<1> QED
  BY <1>1 DEF ActiveAnnotations

LEMMA RoundShown == IInv /\ RowsSound /\ Unwritten => SameRound
<1> SUFFICES ASSUME IInv, RowsSound, Unwritten, NEW m \in Member
             PROVE  /\ CandidateDetail.status = ApplicationDetail(m).application.status
                    /\ ShowsFixNotice <=> ApplicationDetail(m).application.mode = "LIMITED"
                    /\ ShowsFixNotice <=> AsksCandidate(m)
                    /\ ShowsFixNotice =>
                         /\ FixTargets = TabBadge(m).candidateFeedback
                         /\ \E a \in FixTargets : OffersInput({annotation[a].anchor})
                    /\ ShownViewed(m) <=> CandidateDetail.firstViewed
                    /\ ShownActivity(m) => ShownViewed(m)
                    /\ CandidateDetail.firstEdited => ShownActivity(m)
  BY DEF SameRound
<1>1. status = "TO_FIX" <=> InStatus("PUBLISHED") # {}
  BY DEF IInv, RequestFitsStatus
<1>2. ScopeMode = "LIMITED" <=> status = "TO_FIX"
  BY <1>1 DEF ScopeMode
<1>3. /\ CandidateDetail.status = status
      /\ CandidateDetail.request = InStatus("PUBLISHED")
      /\ CandidateDetail.annotations = UNION {Published(r) : r \in InStatus("PUBLISHED")}
      /\ CandidateDetail.firstViewed <=> \E r \in InStatus("PUBLISHED") : request[r].viewed = "set"
      /\ CandidateDetail.firstEdited <=> \E r \in InStatus("PUBLISHED") : request[r].edited = "set"
  BY <1>1, <1>2 DEF CandidateDetail, PublishedRound
<1>4. ShowsFixNotice <=> status = "TO_FIX"
  BY <1>1, <1>3 DEF ShowsFixNotice
<1>5. /\ ApplicationDetail(m).request = OpenRequests
      /\ ApplicationDetail(m).application = ApplicationDto
      /\ TabBadge(m).candidateFeedback = VisibleAnnotations(m)
      /\ ApplicationDto.status = status
      /\ ApplicationDto.mode = ScopeMode
      /\ \A r \in Request : r \in InStatus("PUBLISHED") <=> r \in OpenRequests /\ request[r].status = "PUBLISHED"
  BY DEF ApplicationDetail, ApplicationDto, TabBadge, ActiveRequest, OpenRequests, InStatus, Open
<1>6. \A r \in Request : /\ RevisionRequestDto(r).status = request[r].status
                         /\ RevisionRequestDto(r).firstViewed = request[r].viewed
                         /\ RevisionRequestDto(r).firstEdited = request[r].edited
                         /\ RevisionRequestDto(r).annotations = ActiveAnnotations(r)
  BY DEF RevisionRequestDto
<1>7. Asked(m) = InStatus("PUBLISHED")
  BY <1>5, <1>6 DEF Asked, InStatus, OpenRequests
<1>8. /\ AsksCandidate(m) <=> InStatus("PUBLISHED") # {}
      /\ ShownViewed(m) <=> \E r \in InStatus("PUBLISHED") : request[r].viewed = "set"
      /\ ShownActivity(m) <=> \E r \in InStatus("PUBLISHED") : "set" \in {request[r].viewed, request[r].edited}
  BY <1>6, <1>7 DEF AsksCandidate, ShownViewed, ShownActivity, InStatus
<1>9. \A r \in Request : request[r].edited = "set" => request[r].viewed = "set"
  BY DEF RowsSound, RowSound
<1>10. ASSUME status = "TO_FIX"
      PROVE  /\ FixTargets = TabBadge(m).candidateFeedback
             /\ \E a \in FixTargets : OffersInput({annotation[a].anchor})
  <2>1. PICK r \in Request : InStatus("PUBLISHED") = {r} /\ OpenRequests = {r}
    BY <1>1, <1>10 DEF IInv, SingleOpenRequest, InStatus, OpenRequests, Open
  <2>2. FixTargets = Published(r)
    BY <1>3, <1>4, <1>10, <2>1 DEF FixTargets
  <2>3. Published(r) = ActiveAnnotations(r)
    BY <2>1, ActiveInState DEF Published, InStatus
  <2>4. TabBadge(m).candidateFeedback = ActiveAnnotations(r)
    BY <1>5, <1>6, <2>1 DEF VisibleAnnotations
  <2>5. PICK a \in Published(r) : IsActionable(annotation[a].anchor)
    BY <2>1 DEF IInv, PublishedHasWork
  <2>6. annotation[a].anchor \in UnlockedAnchors
    BY <2>1, <2>5 DEF UnlockedAnchors
  <2>7. OffersInput({annotation[a].anchor})
    BY <1>2, <1>10, <2>6 DEF OffersInput, Editable
  <2> QED
    BY <2>2, <2>3, <2>4, <2>5, <2>7
<1> QED
  BY <1>1, <1>2, <1>3, <1>4, <1>5, <1>8, <1>9, <1>10 DEF InStatus

LEMMA HistoryShown == IInv /\ RowsSound /\ Unwritten => SameHistory
<1> SUFFICES ASSUME IInv, RowsSound, Unwritten, NEW r \in Request
             PROVE  /\ request[r].status = "PUBLISHED" <=> Timeline(r) = {"PUBLISHED"}
                    /\ request[r].status \in {"NONE", "DRAFT"} => Timeline(r) = {}
                    /\ request[r].viewed = "set" => "PUBLISHED" \in Timeline(r)
                    /\ AuditListed(r) =>
                         /\ Timeline(r) = {"PUBLISHED", "RESOLVED"}
                         /\ AuditEntry(r).missing = "NONE"
                         /\ AuditEntry(r).revisions[2] = AuditEntry(r).revisions[1] + 1
                         /\ AuditShown(r) = {a \in Annotation : annotation[a].request = r
                                                                  /\ annotation[a].status = "RESOLVED"}
  BY DEF SameHistory
<1>1. /\ request[r] \in RequestRow
      /\ RowSound(request[r])
  BY DEF RowsSound, IInv, TypeOK
<1>2. /\ request[r].status = "PUBLISHED" <=> Timeline(r) = {"PUBLISHED"}
      /\ request[r].status \in {"NONE", "DRAFT"} => Timeline(r) = {}
      /\ request[r].viewed = "set" => "PUBLISHED" \in Timeline(r)
  BY <1>1 DEF Timeline, RowSound, RequestRow, RowStatus, Closed
<1>3. ASSUME AuditListed(r)
      PROVE  /\ Timeline(r) = {"PUBLISHED", "RESOLVED"}
             /\ AuditEntry(r).missing = "NONE"
             /\ AuditEntry(r).revisions[2] = AuditEntry(r).revisions[1] + 1
             /\ AuditShown(r) = {a \in Annotation : annotation[a].request = r
                                                      /\ annotation[a].status = "RESOLVED"}
  <2>1. request[r].status = "RESOLVED" /\ request[r].baseline > 0
    BY <1>1, <1>3 DEF AuditListed, RowSound
  <2>2. request[r].response = request[r].baseline + 1
    BY <2>1 DEF IInv, SnapshotLinks, InStatus
  <2>3. request[r].baseline \in Nat /\ request[r].response > 0 /\ AuditAvailable(r)
    BY <1>1, <2>1, <2>2 DEF RequestRow, AuditAvailable
  <2>4. /\ AuditEntry(r).available
        /\ AuditEntry(r).missing = "NONE"
        /\ AuditEntry(r).revisions = <<request[r].baseline, request[r].response>>
    BY <2>1, <2>3 DEF AuditEntry
  <2>5. AuditShown(r) = {a \in Annotation : annotation[a].request = r /\ annotation[a].status = "RESOLVED"}
    BY <2>1, <2>4, ActiveInState DEF AuditShown, AuditAnnotations
  <2> QED
    BY <2>1, <2>2, <2>4, <2>5 DEF Timeline, Closed
<1> QED
  BY <1>2, <1>3

(* The candidate and the commission are told the same of every round, the  *)
(* open one and those of the history, by pages that read the rows apart.   *)
THEOREM RoundsToldAlike == DeskSpec => []RoundsTold
<1>1. /\ IInv /\ RowsSound /\ [Next]_vars => RowsSound'
      /\ IInv /\ Unwritten /\ [Next]_vars => Unwritten'
  BY RowsStep, UnwrittenStep
<1>2. Init => RowsSound /\ Unwritten
  BY RowsInit DEF Init, Unwritten, NoAnnotationRow
<1>3. IInv /\ RowsSound /\ Unwritten => RoundsTold
  BY RoundShown, HistoryShown DEF RoundsTold
<1>4. Spec => [](IInv /\ RowsSound /\ Unwritten)
  BY <1>1, <1>2, InvHolds, PTL DEF Spec
<1> QED
  BY <1>3, <1>4, DeskIsReview, PTL

(***************************************************************************)
(* What the screens offer, for any commission and any number of requests,  *)
(* annotations and notes.  Most of it is the agreement of the status with  *)
(* the requests (RequestFitsStatus); the audit leans on one more fact.     *)
(***************************************************************************)

(* A round that was answered had asked for something that could be done.   *)
ResolvedHasWork ==
  \A r \in InStatus("RESOLVED") : \E a \in Annotation :
    /\ annotation[a].request = r
    /\ annotation[a].status = "RESOLVED"
    /\ IsActionable(annotation[a].anchor)

(* Only a submission resolves a request.                                   *)
LEMMA ResolvedBySubmit ==
  ASSUME IInv, Next, ~Submit, NEW r \in Request, request'[r].status = "RESOLVED"
  PROVE  request[r].status = "RESOLVED"
<1> USE DEF IInv, TypeOK
<1>1. request \in [Request -> RequestRow]
  OBVIOUS
<1>2. CASE UNCHANGED request
  BY <1>2
<1>3. CASE DeleteRow
  BY <1>3 DEF DeleteRow, NoRequestRow
<1>4. ASSUME NEW q \in Request, CancelRequest(q) PROVE request[r].status = "RESOLVED"
  BY <1>1, <1>4 DEF CancelRequest, RequestRow
<1>5. CASE MarkEdited \/ MarkActiveRevisionRequestViewed
  BY <1>1, <1>5 DEF MarkEdited, MarkActiveRevisionRequestViewed, InStatus, RequestRow
<1>6. CASE CommissionNext
  <2>1. ASSUME NEW q \in Request, request' = [request EXCEPT ![q].status = "DRAFT"]
        PROVE  request[r].status = "RESOLVED"
    BY <1>1, <2>1 DEF RequestRow
  <2>2. ASSUME NEW m \in Member, SaveRevisionRequestDraft(m) PROVE request[r].status = "RESOLVED"
    BY <2>1, <2>2 DEF SaveRevisionRequestDraft, InStatus
  <2>3. ASSUME NEW m \in Member, NEW a \in Annotation, NEW anchor \in AnchorType,
               CreateCandidateAnnotation(m, a, anchor)
        PROVE  request[r].status = "RESOLVED"
    BY <2>1, <2>3 DEF CreateCandidateAnnotation, InStatus, OpenRequests
  <2>4. ASSUME NEW m \in Member, NEW a \in Annotation, CancelCandidateAnnotation(m, a)
        PROVE  request[r].status = "RESOLVED"
    BY <1>2, <2>4 DEF CancelCandidateAnnotation
  <2>5. ASSUME NEW m \in Member, PublishRevisionRequest(m) PROVE request[r].status = "RESOLVED"
    BY <1>1, <2>5 DEF PublishRevisionRequest, OpenRequests, RequestRow
  <2>6. ASSUME NEW m \in Member, CancelRevisionRequest(m) PROVE request[r].status = "RESOLVED"
    BY <1>4, <2>6 DEF CancelRevisionRequest, OpenRequests
  <2>7. ASSUME NEW m \in Member, NEW to \in ApplicationStatus, ChangeStatus(m, to)
        PROVE  request[r].status = "RESOLVED"
    BY <1>2, <1>4, <2>7 DEF ChangeStatus, OpenRequests
  <2> QED
    BY <1>6, <2>2, <2>3, <2>4, <2>5, <2>6, <2>7 DEF CommissionNext
<1>7. CASE CandidateNext
  BY <1>3, <1>5, <1>7
  DEF CandidateNext, Update, UpdateRequirement, ChangeAttachments, CandidateWrite, EmptyUpdate, DeleteDraft
<1>8. CASE CleanupNext
  BY <1>2, <1>3, <1>8
  DEF CleanupNext, ArchiveStaleDraft, SelectStaleDraft, PurgeStaleDraft, AbandonPurge
<1> QED
  BY <1>6, <1>7, <1>8 DEF Next

(* A deleted application is not touched again but by an end of the purge.  *)
LEMMA DeletedRests ==
  ASSUME IInv, Next, status' = "DELETED", ~DeleteRow
  PROVE  UNCHANGED <<request, annotation>>
<1>1. CASE CommissionNext
  <2>1. status' \in CommissionVisible
    BY <1>1
    DEF IInv, RequestFitsStatus, CommissionNext, SaveRevisionRequestDraft, CreateCandidateAnnotation, MayAnnotate,
        CancelCandidateAnnotation, MayWithdraw, PublishRevisionRequest, CancelRevisionRequest, MayCancel,
        ChangeStatus, MayChangeStatus, OverrideAllowed, SetStatus, DraftAllowed, CommissionVisible,
        WorkflowTarget
  <2> QED
    BY <2>1 DEF CommissionVisible
<1>2. CASE CandidateNext
  <2>1. status = "DELETED" => InStatus("PUBLISHED") = {}
    BY DEF IInv, RequestFitsStatus
  <2> QED
    BY <1>2, <2>1
    DEF CandidateNext, Update, UpdateRequirement, ChangeAttachments, CandidateWrite, MayWrite, EmptyUpdate,
        MarkActiveRevisionRequestViewed, Submit, DeleteDraft, Editable
<1>3. CASE CleanupNext
  BY <1>3 DEF CleanupNext, ArchiveStaleDraft, SelectStaleDraft, PurgeStaleDraft, AbandonPurge
<1> QED
  BY <1>1, <1>2, <1>3 DEF Next

LEMMA ResolvedHasWorkStep ==
  ASSUME IInv, ResolvedHasWork, [Next]_vars
  PROVE  ResolvedHasWork'
<1>1. CASE DeleteRow
  BY <1>1 DEF DeleteRow, ResolvedHasWork, InStatus, NoRequestRow
<1>2. CASE UNCHANGED <<request, annotation>>
  BY <1>2 DEF ResolvedHasWork, InStatus
<1>3. CASE Next /\ status' # "DELETED"
  <2> SUFFICES ASSUME NEW r \in Request, request'[r].status = "RESOLVED"
               PROVE  \E a \in Annotation : /\ annotation'[a].request = r
                                            /\ annotation'[a].status = "RESOLVED"
                                            /\ IsActionable(annotation'[a].anchor)
    BY DEF ResolvedHasWork, InStatus
  <2>1. CASE request[r].status = "RESOLVED"
    <3>1. PICK a \in Annotation : /\ annotation[a].request = r
                                  /\ annotation[a].status = "RESOLVED"
                                  /\ IsActionable(annotation[a].anchor)
      BY <2>1 DEF ResolvedHasWork, InStatus
    <3>2. annotation'[a] = annotation[a]
      BY <1>3, <3>1, ClosedRowsStep DEF Closed, IInv
    <3> QED
      BY <3>1, <3>2
  <2>2. CASE request[r].status # "RESOLVED"
    <3>1. Submit
      BY <1>3, <2>2, ResolvedBySubmit
    <3>2. PICK q \in InStatus("PUBLISHED") :
             /\ request' = [request EXCEPT ![q].status = "RESOLVED", ![q].response = revision + 1]
             /\ MoveAnnotations(q, {"PUBLISHED"}, "RESOLVED")
      BY <2>2, <3>1 DEF Submit
    <3>3. q = r
      BY <2>2, <3>2 DEF IInv, TypeOK
    <3>4. PICK a \in Published(r) : IsActionable(annotation[a].anchor)
      BY <3>2, <3>3 DEF IInv, PublishedHasWork
    <3>5. annotation'[a] = [annotation[a] EXCEPT !.status = "RESOLVED"]
      BY <3>2, <3>3, <3>4 DEF MoveAnnotations, Published
    <3>6. /\ annotation'[a].request = r
          /\ annotation'[a].status = "RESOLVED"
          /\ annotation'[a].anchor = annotation[a].anchor
      BY <3>4, <3>5 DEF Published, IInv, TypeOK, AnnotationRow
    <3> QED
      BY <3>4, <3>6 DEF Published
  <2> QED
    BY <2>1, <2>2
<1> QED
  BY <1>1, <1>2, <1>3, DeletedRests DEF vars

LEMMA OffersOfCommission ==
  ASSUME IInv, NEW m \in Member
  PROVE  /\ \A anchor \in AnchorType :
              /\ anchor # "SECTION" => (OffersFeedbackAt(m, anchor) <=> MayAnnotate(anchor))
              /\ OffersNoteAt(m, anchor) <=> NotesOpen
         /\ \A a \in Annotation : OffersEditing(m, a) <=> MayWithdraw(m, a)
         /\ \A n \in Note : OffersEditingNote(m, n) <=> MayChangeNote(m, n)
<1>1. /\ Permissions(m).comment <=> NotesOpen
      /\ Permissions(m).draftFeedback <=> status \in DraftAllowed
      /\ Permissions(m).moderate <=> m \in Manager
  BY DEF Permissions
<1>2. NotesOpen <=> status \in DraftAllowed
  BY DEF NotesOpen, DraftAllowed
<1>3. status \in DraftAllowed => Accessible /\ InStatus("PUBLISHED") = {}
  BY DEF IInv, RequestFitsStatus, DraftAllowed, Accessible, CommissionVisible
<1>4. /\ OffersAnnotating(m) <=> status \in DraftAllowed
      /\ OffersNotes(m) <=> status \in DraftAllowed
  BY <1>1, <1>2, <1>3 DEF OffersAnnotating, OffersNotes
<1>5. \A anchor \in AnchorType : \E tab \in Tab : HasNoteButton(tab, anchor)
  BY DEF AnchorType, Tab, HasNoteButton, FeedbackAnchors, SectionAnchors, RequirementsTab
<1>6. ASSUME NEW anchor \in AnchorType
      PROVE  /\ anchor # "SECTION" => (OffersFeedbackAt(m, anchor) <=> MayAnnotate(anchor))
             /\ OffersNoteAt(m, anchor) <=> NotesOpen
  BY <1>2, <1>3, <1>4, <1>5 DEF OffersFeedbackAt, OffersNoteAt, MayAnnotate, IsAnchorAllowed
<1>7. ASSUME NEW a \in Annotation PROVE OffersEditing(m, a) <=> MayWithdraw(m, a)
  <2>1. ASSUME status \in DraftAllowed, annotation[a].status = "DRAFT"
        PROVE  (\E r \in ActiveRequest : a \in ActiveAnnotations(r))
                 <=> annotation[a].request \in InStatus("DRAFT")
    BY <1>3, <2>1 DEF ActiveRequest, OpenRequests, ActiveAnnotations, InStatus, Open
  <2> QED
    BY <1>1, <1>4, <2>1 DEF OffersEditing, MayWithdraw
<1>8. ASSUME NEW n \in Note PROVE OffersEditingNote(m, n) <=> MayChangeNote(m, n)
  BY <1>2, <1>4 DEF OffersEditingNote, MayChangeNote, OwnNote
<1> QED
  BY <1>6, <1>7, <1>8

LEMMA OffersOfManager ==
  ASSUME IInv, NEW m \in Member
  PROVE  /\ OffersCancelling(m) => \E r \in OpenRequests : MayCancel(m, r)
         /\ \A to \in WorkflowTarget : OffersStatus(m, to) <=> MayChangeStatus(m, to)
         /\ OffersPublishing(m) =>
              \/ \E r \in OpenRequests : MayPublish(m, r)
              \/ revision = 0
              \/ \A r \in InStatus("DRAFT") : \A a \in OpenAnnotations(r) :
                   ~IsActionable(annotation[a].anchor)
         /\ Listed({}) =>
              /\ status = "TO_FIX" => ListItem(m).openFixRequest
              /\ (ListItem(m).changeStatus <=> \E to \in WorkflowTarget : MayChangeStatus(m, to))
<1>1. /\ Permissions(m).moderate <=> m \in Manager
      /\ Permissions(m).publish <=> m \in Manager
      /\ Permissions(m).changeStatus <=> m \in Manager
  BY DEF Permissions
<1>2. ShowsAside(m) <=> status \in CommissionVisible /\ m \in Manager
  BY <1>1 DEF ShowsAside, Accessible
<1>3. OffersCancelling(m) => \E r \in OpenRequests : MayCancel(m, r)
  BY <1>1, <1>2 DEF OffersCancelling, InStatus, OpenRequests, Open, MayCancel
<1>4. ASSUME NEW to \in WorkflowTarget PROVE OffersStatus(m, to) <=> MayChangeStatus(m, to)
  BY <1>1, <1>2 DEF OffersStatus, AvailableTransitions, MayChangeStatus, OverrideAllowed
<1>5. ASSUME OffersPublishing(m), revision # 0, NEW r \in InStatus("DRAFT"), NEW a \in OpenAnnotations(r),
             IsActionable(annotation[a].anchor)
      PROVE  r \in OpenRequests /\ MayPublish(m, r)
  <2>1. /\ r \in OpenRequests
        /\ request[r].status # "PUBLISHED"
    BY DEF InStatus, OpenRequests, Open
  <2>2. status = "UNDER_REVIEW"
    BY DEF IInv, RequestFitsStatus
  <2>3. revision > 0
    BY <1>5 DEF IInv, TypeOK
  <2> QED
    BY <1>2, <1>5, <2>1, <2>2, <2>3
    DEF OffersPublishing, MayPublish, OverrideAllowed, WorkflowTarget, CommissionVisible
<1>6. ASSUME Listed({})
      PROVE  /\ status = "TO_FIX" => ListItem(m).openFixRequest
             /\ (ListItem(m).changeStatus <=> \E to \in WorkflowTarget : MayChangeStatus(m, to))
  <2>1. status \in CommissionVisible
    BY <1>6 DEF Listed, RequestedStatuses
  <2>2. status = "TO_FIX" => OpenRequests # {}
    BY DEF IInv, RequestFitsStatus, InStatus, OpenRequests, Open
  <2>3. /\ ListItem(m).openFixRequest <=> OpenRequests # {}
        /\ ListItem(m).changeStatus <=> AvailableTransitions(m) # {}
    BY DEF ListItem
  <2>4. \E to \in WorkflowTarget : to # "TO_FIX" /\ to # status
    <3>1. {"REJECTED", "ARCHIVED"} \subseteq WorkflowTarget
      BY DEF WorkflowTarget, CommissionVisible
    <3> QED
      BY <3>1
  <2>5. (\E to \in WorkflowTarget : MayChangeStatus(m, to)) <=> m \in Manager
    BY <2>1, <2>4 DEF MayChangeStatus, OverrideAllowed
  <2>6. AvailableTransitions(m) # {} <=> m \in Manager
    BY <2>4 DEF AvailableTransitions
  <2> QED
    BY <2>2, <2>3, <2>5, <2>6
<1> QED
  BY <1>3, <1>4, <1>5, <1>6

LEMMA OffersOfCandidate ==
  ASSUME IInv
  PROVE  /\ OffersInput({"FIELD"})       <=> MayWrite({"FIELD"})
         /\ OffersInput({"REQUIREMENT"}) <=> MayWrite({"REQUIREMENT"})
         /\ CandidateOffersAccepted
<1>1. status = "TO_FIX" <=> InStatus("PUBLISHED") # {}
  BY DEF IInv, RequestFitsStatus
<1>2. ASSUME NEW anchors PROVE OffersInput(anchors) <=> MayWrite(anchors)
  <2>1. /\ ScopeMode = "FULL" <=> status = "DRAFT"
        /\ ScopeMode = "LIMITED" <=> status = "TO_FIX"
    BY <1>1 DEF ScopeMode
  <2>2. anchors \cap UnlockedAnchors # {}
          <=> \E r \in InStatus("PUBLISHED") : \E a \in Published(r) : annotation[a].anchor \in anchors
    BY DEF UnlockedAnchors
  <2> QED
    BY <2>1, <2>2 DEF OffersInput, MayWrite, Unlocked, Editable
<1>3. /\ CandidateDetail.status = status
      /\ CandidateDetail.firstViewed
           <=> \E r \in (IF ScopeMode = "LIMITED" THEN PublishedRound ELSE {}) : request[r].viewed = "set"
  BY DEF CandidateDetail
<1>4. status \in Editable <=> \E anchor \in AnchorType : MayWrite({anchor})
  <2>1. CASE status = "TO_FIX"
    <3>1. PICK r \in InStatus("PUBLISHED") : \E a \in Published(r) : IsActionable(annotation[a].anchor)
      BY <1>1, <2>1 DEF IInv, PublishedHasWork
    <3>2. PICK a \in Published(r) : IsActionable(annotation[a].anchor)
      BY <3>1
    <3>3. annotation[a].anchor \in AnchorType
      BY <3>2 DEF Published, IInv, TypeOK, AnnotationRow
    <3>4. MayWrite({annotation[a].anchor})
      BY <2>1, <3>1, <3>2 DEF MayWrite, Unlocked, Editable
    <3> QED
      BY <2>1, <3>3, <3>4 DEF Editable
  <2>2. CASE status # "TO_FIX"
    <3>1. "FIELD" \in AnchorType
      BY DEF AnchorType
    <3> QED
      BY <2>2, <3>1 DEF MayWrite, Unlocked
  <2> QED
    BY <2>1, <2>2
<1>5. ASSUME ReportsViewed PROVE \E r \in InStatus("PUBLISHED") : request[r].viewed = "null"
  <2>1. status = "TO_FIX"
    BY <1>3, <1>5 DEF ReportsViewed, ShowsFixNotice
  <2>2. PICK r \in InStatus("PUBLISHED") : TRUE
    BY <1>1, <2>1
  <2>3. ScopeMode = "LIMITED"
    BY <2>1, <2>2 DEF ScopeMode
  <2>4. request[r].viewed # "set"
    BY <1>3, <1>5, <2>2, <2>3 DEF ReportsViewed, PublishedRound
  <2>5. request[r].viewed \in DateColumn
    BY <2>2 DEF InStatus, IInv, TypeOK, RequestRow
  <2> QED
    BY <2>2, <2>4, <2>5 DEF DateColumn
<1>6. CandidateOffersAccepted
  BY <1>3, <1>4, <1>5
  DEF CandidateOffersAccepted, OpensEditor, OffersEditor, IsEditable, OffersDeletion, ListedForCandidate,
      MayDelete, Editable
<1> QED
  BY <1>2, <1>6

(* A request that is answered is in the audit with its two snapshots and   *)
(* with something that was to be changed.                                  *)
LEMMA AuditOffered ==
  ASSUME IInv, RowsSound, ResolvedHasWork, NEW r \in Request, AuditListed(r)
  PROVE  /\ "PUBLISHED" \in Timeline(r)
         /\ AuditAvailable(r)
         /\ \E a \in AuditAnnotations(r) : IsActionable(annotation[a].anchor)
<1>1. /\ request[r].status = "RESOLVED"
      /\ request[r] \in RequestRow
      /\ request[r].baseline > 0
  BY DEF AuditListed, RowsSound, RowSound, IInv, TypeOK
<1>2. request[r].response = request[r].baseline + 1
  BY <1>1 DEF IInv, SnapshotLinks, InStatus
<1>3. request[r].response > 0
  BY <1>1, <1>2 DEF RequestRow
<1>4. \E a \in AuditAnnotations(r) : IsActionable(annotation[a].anchor)
  BY <1>1 DEF ResolvedHasWork, InStatus, AuditAnnotations, ActiveAnnotations
<1> QED
  BY <1>1, <1>3, <1>4 DEF Timeline, AuditAvailable

(* Every application that can be opened has a filter that finds it.        *)
LEMMA FilterForAll == Accessible <=> \E chosen \in StatusFilters : Listed({chosen})
BY DEF Accessible, CommissionVisible, StatusFilters, Listed, RequestedStatuses

(* The screens offer what the handlers take, to every member and to the    *)
(* candidate, and the audit finds what it compares.                        *)
THEOREM OffersAccepted == DeskSpec => []OfferedIsAccepted
<1>1. /\ IInv /\ RowsSound /\ [Next]_vars => RowsSound'
      /\ IInv /\ ResolvedHasWork /\ [Next]_vars => ResolvedHasWork'
  BY RowsStep, ResolvedHasWorkStep
<1>2. Init => RowsSound /\ ResolvedHasWork
  BY RowsInit DEF Init, ResolvedHasWork, InStatus, NoRequestRow
<1>3. IInv /\ RowsSound /\ ResolvedHasWork => OfferedIsAccepted
  BY OffersOfCommission, OffersOfManager, OffersOfCandidate, AuditOffered, FilterForAll
  DEF OfferedIsAccepted
<1>4. Spec => [](IInv /\ RowsSound /\ ResolvedHasWork)
  BY <1>1, <1>2, InvHolds, PTL DEF Spec
<1> QED
  BY <1>3, <1>4, DeskIsReview, PTL

(***************************************************************************)
(* The review is a dialogue in turns (ReviewDialogue).  The commission has *)
(* the turn whenever no request is published, so publishing asks, closing  *)
(* the published request takes the question back, a submission answers it, *)
(* and every other handler leaves question and answers alone.              *)
(***************************************************************************)

(* What keeps the requests in a state, with what is linked to them.        *)
Keeps(st) ==
  /\ \A r \in Request :
       /\ request'[r].status = st <=> request[r].status = st
       /\ request[r].status = st => /\ request'[r].baseline = request[r].baseline
                                    /\ request'[r].response = request[r].response
  /\ \A a \in Annotation :
       /\ annotation'[a].status = st <=> annotation[a].status = st
       /\ annotation[a].status = st => annotation'[a].request = annotation[a].request

LEMMA KeptRounds ==
  /\ Keeps("PUBLISHED") => OpenQuestion' = OpenQuestion
  /\ Keeps("RESOLVED") => AnsweredRounds' = AnsweredRounds
<1>1. ASSUME Keeps("PUBLISHED") PROVE OpenQuestion' = OpenQuestion
  <2>1. \A r \in Request : Published(r)' = Published(r)
    BY <1>1 DEF Keeps, Published
  <2>2. InStatus("PUBLISHED")' = InStatus("PUBLISHED")
    BY <1>1 DEF Keeps, InStatus
  <2>3. \A r \in InStatus("PUBLISHED") : /\ request'[r].baseline = request[r].baseline
                                         /\ Published(r)' = Published(r)
    BY <1>1, <2>1 DEF Keeps, InStatus
  <2> QED
    BY <2>2, <2>3 DEF OpenQuestion
<1>2. ASSUME Keeps("RESOLVED") PROVE AnsweredRounds' = AnsweredRounds
  <2>1. \A r \in Request : Resolved(r)' = Resolved(r)
    BY <1>2 DEF Keeps, Resolved
  <2>2. InStatus("RESOLVED")' = InStatus("RESOLVED")
    BY <1>2 DEF Keeps, InStatus
  <2>3. \A r \in InStatus("RESOLVED") : /\ request'[r].baseline = request[r].baseline
                                        /\ request'[r].response = request[r].response
                                        /\ Resolved(r)' = Resolved(r)
    BY <1>2, <2>1 DEF Keeps, InStatus
  <2> QED
    BY <2>2, <2>3 DEF AnsweredRounds
<1> QED
  BY <1>1, <1>2

(* Only a submission resolves an annotation.                               *)
LEMMA AnnotationResolvedBySubmit ==
  ASSUME IInv, Next, ~Submit, NEW a \in Annotation, annotation'[a].status = "RESOLVED"
  PROVE  annotation[a].status = "RESOLVED"
<1> USE DEF IInv, TypeOK
<1>1. annotation \in [Annotation -> AnnotationRow]
  OBVIOUS
<1>2. CASE UNCHANGED annotation
  BY <1>2
<1>3. CASE DeleteRow
  BY <1>3 DEF DeleteRow, NoAnnotationRow
<1>4. ASSUME NEW r, NEW sts, NEW to \in {"PUBLISHED", "CANCELLED"}, MoveAnnotations(r, sts, to)
      PROVE  annotation[a].status = "RESOLVED"
  BY <1>1, <1>4 DEF MoveAnnotations, AnnotationRow
<1>5. CASE CommissionNext
  <2>1. ASSUME NEW m \in Member, NEW b \in Annotation, NEW anchor \in AnchorType,
               CreateCandidateAnnotation(m, b, anchor)
        PROVE  annotation[a].status = "RESOLVED"
    BY <1>1, <2>1 DEF CreateCandidateAnnotation
  <2>2. ASSUME NEW m \in Member, NEW b \in Annotation, CancelCandidateAnnotation(m, b)
        PROVE  annotation[a].status = "RESOLVED"
    BY <1>1, <2>2 DEF CancelCandidateAnnotation, AnnotationRow
  <2>3. ASSUME NEW m \in Member, PublishRevisionRequest(m) PROVE annotation[a].status = "RESOLVED"
    BY <1>4, <2>3 DEF PublishRevisionRequest
  <2>4. ASSUME NEW m \in Member, CancelRevisionRequest(m) PROVE annotation[a].status = "RESOLVED"
    BY <1>4, <2>4 DEF CancelRevisionRequest, CancelRequest
  <2>5. ASSUME NEW m \in Member, NEW to \in ApplicationStatus, ChangeStatus(m, to)
        PROVE  annotation[a].status = "RESOLVED"
    BY <1>2, <1>4, <2>5 DEF ChangeStatus, CancelRequest
  <2> QED
    BY <1>2, <1>5, <2>1, <2>2, <2>3, <2>4, <2>5 DEF CommissionNext, SaveRevisionRequestDraft
<1>6. CASE CandidateNext
  BY <1>2, <1>3, <1>6
  DEF CandidateNext, Update, UpdateRequirement, ChangeAttachments, CandidateWrite, EmptyUpdate,
      MarkActiveRevisionRequestViewed, DeleteDraft
<1>7. CASE CleanupNext
  BY <1>2, <1>3, <1>7
  DEF CleanupNext, ArchiveStaleDraft, SelectStaleDraft, PurgeStaleDraft, AbandonPurge
<1> QED
  BY <1>5, <1>6, <1>7 DEF Next

LEMMA RoundsKept ==
  ASSUME IInv, Next, ~Submit, status' # "DELETED"
  PROVE  AnsweredRounds' = AnsweredRounds
<1>1. TypeOK
  BY DEF IInv
<1>2. \A r \in Request :
        /\ request'[r].status = "RESOLVED" => request[r].status = "RESOLVED"
        /\ request[r].status = "RESOLVED" => request'[r] = request[r]
  BY <1>1, ResolvedBySubmit, ClosedRowsStep DEF Closed
<1>3. \A a \in Annotation :
        /\ annotation'[a].status = "RESOLVED" => annotation[a].status = "RESOLVED"
        /\ annotation[a].status = "RESOLVED" => annotation'[a] = annotation[a]
  BY <1>1, AnnotationResolvedBySubmit, ClosedRowsStep DEF Closed
<1> QED
  BY <1>2, <1>3, KeptRounds DEF Keeps

(* Before the first submission there is nothing to ask about, and nothing  *)
(* was answered.                                                           *)
LEMMA NothingSubmitted ==
  ASSUME IInv, revision = 0
  PROVE  OpenQuestion = {} /\ AnsweredRounds = {}
<1>1. \A r \in Request : request[r].baseline \in Nat /\ request[r].response \in Nat
  BY DEF IInv, TypeOK, RequestRow
<1>2. InStatus("PUBLISHED") = {} /\ InStatus("RESOLVED") = {}
  BY <1>1 DEF InStatus, IInv, SnapshotLinks
<1> QED
  BY <1>2 DEF OpenQuestion, AnsweredRounds

TurnTaken ==
  Dialogue!Next \/ UNCHANGED <<Turn, revision, data, OpenQuestion, AnsweredRounds>>

(* What goes on in the commission without the candidate.                   *)
LEMMA DraftingTurn ==
  ASSUME IInv, Next, NEW m \in Member,
         \/ SaveRevisionRequestDraft(m)
         \/ \E a \in Annotation : \E anchor \in AnchorType : CreateCandidateAnnotation(m, a, anchor)
         \/ \E a \in Annotation : CancelCandidateAnnotation(m, a)
  PROVE  TurnTaken
<1> USE DEF IInv, TypeOK
<1>1. /\ UNCHANGED <<status, revision, data>> /\ status = "UNDER_REVIEW"
  BY DEF SaveRevisionRequestDraft, CreateCandidateAnnotation, MayAnnotate, CancelCandidateAnnotation,
         MayWithdraw, DraftAllowed
<1>2. ~Submit
  BY <1>1 DEF Submit, Editable
<1>3. InStatus("PUBLISHED") = {}
  BY <1>1 DEF RequestFitsStatus
<1>4. \A a \in Annotation : annotation[a].status # "PUBLISHED"
  BY <1>3 DEF AnnotationsFollowRequest, InStatus
<1>5. \A r \in Request : request'[r].status # "PUBLISHED"
  <2>1. CASE UNCHANGED request
    BY <1>3, <2>1 DEF InStatus
  <2>2. ASSUME NEW q \in Request, request' = [request EXCEPT ![q].status = "DRAFT"]
        PROVE  \A r \in Request : request'[r].status # "PUBLISHED"
    BY <1>3, <2>2 DEF InStatus, RequestRow
  <2> QED
    BY <2>1, <2>2 DEF SaveRevisionRequestDraft, CreateCandidateAnnotation, CancelCandidateAnnotation,
                      InStatus, OpenRequests
<1>6. OpenQuestion = {} /\ OpenQuestion' = {}
  BY <1>3, <1>5 DEF OpenQuestion, InStatus
<1>7. AnsweredRounds' = AnsweredRounds
  BY <1>1, <1>2, RoundsKept
<1>8. Turn' = Turn
  BY <1>1 DEF Turn
<1> QED
  BY <1>1, <1>6, <1>7, <1>8 DEF TurnTaken

LEMMA PublishAsks ==
  ASSUME IInv, Next, NEW m \in Member, PublishRevisionRequest(m)
  PROVE  Dialogue!Ask
<1>1. PICK r \in OpenRequests :
         /\ request[r].status # "PUBLISHED"
         /\ \E a \in OpenAnnotations(r) : IsActionable(annotation[a].anchor)
         /\ MoveAnnotations(r, {"DRAFT"}, "PUBLISHED")
         /\ request' = [request EXCEPT ![r].status = "PUBLISHED",
                                       ![r].baseline = revision,
                                       ![r].response = 0]
  BY DEF PublishRevisionRequest, MayPublish
<1>2. /\ r \in Request
      /\ request[r].status = "DRAFT"
      /\ \A s \in Request : s # r => request[s].status \notin {"DRAFT", "PUBLISHED"}
  BY <1>1 DEF OpenRequests, Open, IInv, SingleOpenRequest
<1>3. /\ request'[r].status = "PUBLISHED"
      /\ request'[r].baseline = revision
      /\ \A s \in Request : s # r => request'[s] = request[s]
  BY <1>1, <1>2 DEF IInv, TypeOK, RequestRow
<1>4. InStatus("PUBLISHED")' = {r}
  BY <1>2, <1>3 DEF InStatus
<1>5. /\ status = "UNDER_REVIEW" /\ status' = "TO_FIX"
      /\ revision > 0 /\ UNCHANGED <<revision, data>>
  BY <1>2 DEF PublishRevisionRequest, MayPublish, SetStatus, IInv, RequestFitsStatus, InStatus
<1>6. Turn = "commission" /\ Turn' = "candidate"
  BY <1>5 DEF Turn, Editable
<1>7. AnsweredRounds' = AnsweredRounds
  BY <1>5, RoundsKept DEF Submit, Editable
<1> DEFINE points == Published(r)'
<1>8. points \in SUBSET Annotation /\ points # {}
  <2>1. PICK a \in Annotation : annotation[a].request = r /\ annotation[a].status \in Open
    BY <1>1 DEF OpenAnnotations
  <2>2. annotation[a].status = "DRAFT"
    BY <1>2, <2>1 DEF IInv, AnnotationsFollowRequest, Open
  <2>3. annotation'[a] = [annotation[a] EXCEPT !.status = "PUBLISHED"]
    BY <1>1, <2>1, <2>2 DEF MoveAnnotations
  <2>4. annotation'[a].request = r /\ annotation'[a].status = "PUBLISHED"
    BY <2>1, <2>3 DEF IInv, TypeOK, AnnotationRow
  <2> QED
    BY <2>4 DEF Published
<1>9. OpenQuestion' = {[about |-> revision, points |-> points]}
  BY <1>3, <1>4 DEF OpenQuestion
<1> HIDE DEF points
<1> QED
  BY <1>5, <1>6, <1>7, <1>8, <1>9 DEF Dialogue!Ask

(* Closing the open request, whoever does it: a draft is no question.      *)
LEMMA CloseTakesBack ==
  ASSUME IInv, Next, NEW r \in OpenRequests, CancelRequest(r),
         status' \in CommissionVisible \ Editable, status \in CommissionVisible,
         UNCHANGED <<revision, data>>
  PROVE  TurnTaken
<1>1. /\ r \in Request /\ request[r].status \in {"DRAFT", "PUBLISHED"}
      /\ \A s \in Request : s # r => request[s].status \notin {"DRAFT", "PUBLISHED"}
  BY DEF OpenRequests, Open, IInv, SingleOpenRequest
<1>2. /\ request'[r].status = "CANCELLED"
      /\ \A s \in Request : s # r => request'[s] = request[s]
  BY <1>1 DEF CancelRequest, IInv, TypeOK, RequestRow
<1>3. InStatus("PUBLISHED")' = {}
  BY <1>1, <1>2 DEF InStatus
<1>4. OpenQuestion' = {}
  BY <1>3 DEF OpenQuestion
<1>5. Turn' = "commission"
  BY DEF Turn, CommissionVisible
<1>6. AnsweredRounds' = AnsweredRounds
  <2>1. revision \in Nat
    BY DEF IInv, TypeOK
  <2> QED
    BY <2>1, RoundsKept DEF Submit, CommissionVisible
<1>7. CASE request[r].status = "PUBLISHED"
  <2>1. r \in InStatus("PUBLISHED")
    BY <1>1, <1>7 DEF InStatus
  <2>2. OpenQuestion # {}
    BY <2>1 DEF OpenQuestion
  <2> QED
    BY <1>4, <1>5, <1>6, <2>2 DEF TurnTaken, Dialogue!Next, Dialogue!TakeBack
<1>8. CASE request[r].status = "DRAFT"
  <2>1. InStatus("PUBLISHED") = {} /\ status = "UNDER_REVIEW"
    BY <1>1, <1>8 DEF InStatus, IInv, RequestFitsStatus
  <2>2. OpenQuestion = {} /\ Turn = "commission"
    BY <2>1 DEF OpenQuestion, Turn, Editable
  <2> QED
    BY <1>4, <1>5, <1>6, <2>2 DEF TurnTaken
<1> QED
  BY <1>1, <1>7, <1>8

LEMMA OverrideTurn ==
  ASSUME IInv, Next, NEW m \in Member,
         CancelRevisionRequest(m) \/ \E to \in ApplicationStatus : ChangeStatus(m, to)
  PROVE  TurnTaken
<1>1. UNCHANGED <<revision, data>> /\ status \in CommissionVisible
  BY DEF CancelRevisionRequest, MayCancel, ChangeStatus, MayChangeStatus
<1>2. CASE CancelRevisionRequest(m)
  <2>1. PICK r \in OpenRequests : /\ CancelRequest(r)
                                  /\ \/ request[r].status = "PUBLISHED" /\ SetStatus("UNDER_REVIEW")
                                     \/ request[r].status = "DRAFT" /\ UNCHANGED status
    BY <1>2 DEF CancelRevisionRequest
  <2>2. status' = "UNDER_REVIEW"
    BY <2>1 DEF SetStatus, IInv, RequestFitsStatus, OpenRequests, InStatus
  <2> QED
    BY <1>1, <2>1, <2>2, CloseTakesBack DEF CommissionVisible, Editable
<1>3. ASSUME NEW to \in ApplicationStatus, ChangeStatus(m, to) PROVE TurnTaken
  <2>1. status' = to /\ to \in CommissionVisible \ Editable
    BY <1>3 DEF ChangeStatus, MayChangeStatus, OverrideAllowed, WorkflowTarget, SetStatus,
                CommissionVisible, Editable
  <2>2. CASE \E r \in OpenRequests : CancelRequest(r)
    BY <1>1, <2>1, <2>2, CloseTakesBack
  <2>3. CASE /\ UNCHANGED <<request, annotation>>
             /\ OpenRequests = {} \/ \E r \in OpenRequests : request[r].status = "DRAFT"
    <3>1. InStatus("PUBLISHED") = {}
      BY <2>3 DEF InStatus, OpenRequests, Open, IInv, SingleOpenRequest
    <3>2. status \notin Editable
      BY <1>1, <3>1 DEF IInv, RequestFitsStatus, CommissionVisible, Editable
    <3>3. Turn = "commission" /\ Turn' = "commission"
      BY <1>1, <2>1, <3>2 DEF Turn, CommissionVisible
    <3>4. OpenQuestion' = OpenQuestion /\ AnsweredRounds' = AnsweredRounds
      BY <2>3, KeptRounds DEF Keeps
    <3> QED
      BY <1>1, <3>3, <3>4 DEF TurnTaken
  <2> QED
    BY <1>3, <2>2, <2>3 DEF ChangeStatus
<1> QED
  BY <1>2, <1>3

(* What the candidate does between two submissions.                        *)
LEMMA WritingTurn ==
  ASSUME IInv,
         \/ \E anchors \in SUBSET AnchorType : CandidateWrite(anchors)
         \/ EmptyUpdate \/ MarkActiveRevisionRequestViewed
  PROVE  TurnTaken
<1>1. UNCHANGED <<status, revision, annotation>>
  BY DEF CandidateWrite, EmptyUpdate, MarkActiveRevisionRequestViewed
<1>2. UNCHANGED request \/ \E r \in Request : Activity(r)
  <2>1. ASSUME NEW r \in InStatus("PUBLISHED"), request' = [request EXCEPT ![r].viewed = "set"]
        PROVE  Activity(r)
    BY <2>1 DEF Activity, InStatus, IInv, TypeOK, RequestRow
  <2> QED
    BY <2>1, MarkEditedActivity DEF CandidateWrite, EmptyUpdate, MarkActiveRevisionRequestViewed, InStatus
<1>3. OpenQuestion' = OpenQuestion /\ AnsweredRounds' = AnsweredRounds
  BY <1>1, <1>2, KeptRounds DEF Keeps, Activity
<1>4. Turn' = Turn
  BY <1>1 DEF Turn
<1>5. ASSUME NEW anchors, CandidateWrite(anchors) PROVE Dialogue!Write
  <2>1. Turn = "candidate" /\ data' = "edited"
    BY <1>5 DEF CandidateWrite, MayWrite, Turn
  <2> QED
    BY <1>1, <1>3, <1>4, <2>1 DEF Dialogue!Write
<1>6. UNCHANGED data => TurnTaken
  BY <1>1, <1>3, <1>4 DEF TurnTaken
<1> QED
  BY <1>5, <1>6 DEF TurnTaken, Dialogue!Next, EmptyUpdate, MarkActiveRevisionRequestViewed

LEMMA SubmitHandsIn ==
  ASSUME IInv, Submit
  PROVE  Dialogue!HandIn
<1>1. /\ Turn = "candidate" /\ Turn' = "commission"
      /\ revision' = revision + 1 /\ data' = "submitted"
  BY DEF Submit, Turn, Editable
<1> DEFINE answers == {[about |-> q.about, answer |-> revision + 1, points |-> q.points] :
                         q \in OpenQuestion}
<1>2. CASE InStatus("PUBLISHED") = {} /\ UNCHANGED <<request, annotation>>
  <2>1. OpenQuestion = {}
    BY <1>2 DEF OpenQuestion
  <2>2. OpenQuestion' = {} /\ AnsweredRounds' = AnsweredRounds
    BY <1>2, <2>1, KeptRounds DEF Keeps
  <2>3. answers = {}
    BY <2>1
  <2> QED
    BY <1>1, <2>2, <2>3 DEF Dialogue!HandIn
<1>3. ASSUME NEW r \in InStatus("PUBLISHED"),
             request' = [request EXCEPT ![r].status = "RESOLVED", ![r].response = revision + 1],
             MoveAnnotations(r, {"PUBLISHED"}, "RESOLVED")
      PROVE  Dialogue!HandIn
  <2>1. /\ r \in Request
        /\ request[r].status = "PUBLISHED"
        /\ \A s \in Request : s # r => request[s].status \notin {"DRAFT", "PUBLISHED"}
    BY <1>3 DEF InStatus, IInv, SingleOpenRequest, OpenRequests, Open
  <2>2. /\ request'[r].status = "RESOLVED"
        /\ request'[r].baseline = request[r].baseline
        /\ request'[r].response = revision + 1
        /\ \A s \in Request : s # r => request'[s] = request[s]
    BY <1>3, <2>1 DEF IInv, TypeOK, RequestRow
  <2>3. \A a \in Annotation :
           IF annotation[a].request = r /\ annotation[a].status = "PUBLISHED"
           THEN annotation'[a].status = "RESOLVED" /\ annotation'[a].request = r
           ELSE annotation'[a] = annotation[a]
    BY <1>3 DEF MoveAnnotations, IInv, TypeOK, AnnotationRow
  <2>4. InStatus("PUBLISHED") = {r} /\ InStatus("PUBLISHED")' = {}
    BY <2>1, <2>2 DEF InStatus
  <2>5. InStatus("RESOLVED")' = InStatus("RESOLVED") \cup {r}
    BY <2>1, <2>2 DEF InStatus
  <2>6. \A a \in Annotation : annotation[a].request = r => annotation[a].status # "RESOLVED"
    BY <2>1 DEF IInv, AnnotationsFollowRequest
  <2>7. Resolved(r)' = Published(r)
    BY <2>3, <2>6 DEF Resolved, Published
  <2>8. \A s \in InStatus("RESOLVED") : Resolved(s)' = Resolved(s)
    <3>1. \A s \in InStatus("RESOLVED") : s # r
      BY <2>1 DEF InStatus
    <3> QED
      BY <2>3, <3>1 DEF Resolved
  <2>9. OpenQuestion = {[about |-> request[r].baseline, points |-> Published(r)]}
    BY <2>4 DEF OpenQuestion
  <2>10. answers = {[about |-> request[r].baseline, answer |-> revision + 1, points |-> Published(r)]}
    BY <2>9
  <2>11. OpenQuestion' = {}
    BY <2>4 DEF OpenQuestion
  <2>12. AnsweredRounds' = AnsweredRounds \cup answers
    <3> DEFINE Row(s) == [about |-> request[s].baseline, answer |-> request[s].response,
                          points |-> Resolved(s)]
               Row2(s) == [about |-> request'[s].baseline, answer |-> request'[s].response,
                           points |-> Resolved(s)']
    <3>1. AnsweredRounds = {Row(s) : s \in InStatus("RESOLVED")}
      BY DEF AnsweredRounds
    <3>2. AnsweredRounds' = {Row2(s) : s \in InStatus("RESOLVED")'}
      BY DEF AnsweredRounds
    <3>3. \A s \in InStatus("RESOLVED") : s # r /\ request'[s] = request[s]
      BY <2>1, <2>2 DEF InStatus
    <3>4. \A s \in InStatus("RESOLVED") : Row2(s) = Row(s)
      BY <2>8, <3>3
    <3>5. answers = {Row2(r)}
      BY <2>2, <2>7, <2>10
    <3> HIDE DEF Row, Row2, answers
    <3> QED
      BY <2>5, <3>1, <3>2, <3>4, <3>5
  <2> QED
    BY <1>1, <2>11, <2>12 DEF Dialogue!HandIn
<1> QED
  BY <1>2, <1>3 DEF Submit

LEMMA DeletionTurn ==
  ASSUME IInv, DeleteRow, revision = 0, status # "DELETED"
  PROVE  Dialogue!Delete
<1>1. status' = "DELETED" /\ revision' = 0 /\ data' = "edited"
  BY DEF DeleteRow
<1>2. OpenQuestion = {} /\ AnsweredRounds = {}
  BY NothingSubmitted
<1>3. OpenQuestion' = {} /\ AnsweredRounds' = {}
  <2>1. \A r \in Request : request'[r].status = "NONE"
    BY DEF DeleteRow, NoRequestRow
  <2>2. InStatus("PUBLISHED")' = {} /\ InStatus("RESOLVED")' = {}
    BY <2>1 DEF InStatus
  <2> QED
    BY <2>2 DEF OpenQuestion, AnsweredRounds
<1>4. Turn # "gone" /\ Turn' = "gone"
  BY <1>1 DEF Turn, Editable
<1> QED
  BY <1>1, <1>2, <1>3, <1>4 DEF Dialogue!Delete

LEMMA CleanupTurn ==
  ASSUME IInv, IInv', CleanupNext \/ UNCHANGED vars
  PROVE  TurnTaken
<1>1. CASE PurgeStaleDraft
  BY <1>1, DeletionTurn DEF PurgeStaleDraft, IInv, SelectedNeverSubmitted, TurnTaken, Dialogue!Next
<1>2. CASE ArchiveStaleDraft
  <2>1. Turn = "candidate" /\ Turn' = "commission"
    BY <1>2 DEF ArchiveStaleDraft, Turn, Editable
  <2>2. revision = 0 /\ UNCHANGED <<revision, data, request, annotation>>
    BY <1>2 DEF ArchiveStaleDraft, IInv, SelectedNeverSubmitted
  <2>3. OpenQuestion' = OpenQuestion /\ AnsweredRounds' = AnsweredRounds
    BY <2>2, KeptRounds DEF Keeps
  <2> QED
    BY <2>1, <2>2, <2>3 DEF TurnTaken, Dialogue!Next, Dialogue!PutAside
<1>3. CASE SelectStaleDraft \/ AbandonPurge \/ UNCHANGED vars
  <2>1. UNCHANGED <<status, revision, data, request, annotation>>
    BY <1>3 DEF SelectStaleDraft, AbandonPurge, vars
  <2>2. OpenQuestion' = OpenQuestion /\ AnsweredRounds' = AnsweredRounds
    BY <2>1, KeptRounds DEF Keeps
  <2>3. Turn' = Turn
    BY <2>1 DEF Turn
  <2> QED
    BY <2>1, <2>2, <2>3 DEF TurnTaken
<1> QED
  BY <1>1, <1>2, <1>3 DEF CleanupNext

LEMMA DialogueStep ==
  ASSUME IInv, [Next]_vars
  PROVE  TurnTaken
<1>1. IInv'
  BY InvStep
<1>2. CASE CommissionNext
  <2>1. Next
    BY <1>2 DEF Next
  <2> QED
    BY <1>2, <2>1, DraftingTurn, PublishAsks, OverrideTurn DEF CommissionNext, TurnTaken, Dialogue!Next
<1>3. CASE CandidateNext
  <2>1. CASE DeleteDraft
    <3>1. revision = 0 /\ status # "DELETED" /\ DeleteRow
      BY <2>1 DEF DeleteDraft, MayDelete, IInv, SelectedNeverSubmitted
    <3> QED
      BY <1>1, <3>1, DeletionTurn DEF TurnTaken, Dialogue!Next, IInv
  <2>2. CASE Submit
    BY <2>2, SubmitHandsIn DEF TurnTaken, Dialogue!Next
  <2>3. CASE Update \/ UpdateRequirement \/ ChangeAttachments
    BY <2>3, WritingTurn DEF Update, UpdateRequirement, ChangeAttachments, AnchorType
  <2>4. CASE EmptyUpdate \/ MarkActiveRevisionRequestViewed
    BY <2>4, WritingTurn
  <2> QED
    BY <1>3, <2>1, <2>2, <2>3, <2>4 DEF CandidateNext
<1>4. CASE CleanupNext \/ UNCHANGED vars
  BY <1>1, <1>4, CleanupTurn
<1> QED
  BY <1>2, <1>3, <1>4 DEF Next

(* For any commission and any number of requests and annotations, the      *)
(* handlers implement ReviewDialogue: a question is about the latest       *)
(* snapshot, only the candidate's turn changes the work, the next snapshot *)
(* answers exactly the points that were published, answered rounds stay as *)
(* they are, and only what was never submitted is deleted.                 *)
THEOREM ReviewIsDialogue == Spec => ImplementsDialogue
<1>1. Init => Dialogue!Init
  <2> SUFFICES ASSUME Init PROVE Dialogue!Init
    OBVIOUS
  <2>1. \A r \in Request : request[r].status = "NONE"
    BY DEF Init, NoRequestRow
  <2>2. InStatus("PUBLISHED") = {} /\ InStatus("RESOLVED") = {}
    BY <2>1 DEF InStatus
  <2>3. OpenQuestion = {} /\ AnsweredRounds = {}
    BY <2>2 DEF OpenQuestion, AnsweredRounds
  <2>4. Turn = "candidate"
    BY DEF Init, Turn, Editable
  <2> QED
    BY <2>3, <2>4 DEF Init, Dialogue!Init
<1>2. IInv /\ [Next]_vars => [Dialogue!Next]_(Dialogue!vars)
  BY DialogueStep DEF TurnTaken, Dialogue!vars
<1> QED
  BY <1>1, <1>2, InvHolds, PTL DEF Spec, ImplementsDialogue, Dialogue!Spec

(***************************************************************************)
(* How far the check of create and the trigger go without a lock, for any  *)
(* number of applications and concurrent requests (ActiveDegree), and that *)
(* the handlers of the review move its row as the requests there do.       *)
(*                                                                         *)
(* The argument: whoever makes a row active saw no other active one when   *)
(* it wrote.  So the active rows and those that come at a commit are then  *)
(* the written rows of the requests: no more than one for each.  All that  *)
(* is assumed is that the requests are finitely many.                      *)
(***************************************************************************)
CONSTANTS DegreeApplication, Worker, NoRow
VARIABLES rows, tx

Degree == INSTANCE ActiveDegree
          WITH Application <- DegreeApplication, Worker <- Worker, NoRow <- NoRow,
               status <- rows, tx <- tx

(* What ActiveDegree keeps of the application of a review.                 *)
DegreeRow ==
  CASE status = "DELETED" -> "none"
    [] status = "DRAFT" -> "draft"
    [] status \in {"REJECTED", "ARCHIVED"} -> "closed"
    [] OTHER -> "review"

Moved(moves) == DegreeRow' = DegreeRow \/ <<DegreeRow, DegreeRow'>> \in moves

LEMMA RowMoves ==
  ASSUME NEW a \in ApplicationStatus, NEW b \in CommissionVisible,
         status = a, status' = b, a # "DELETED"
  PROVE  /\ a # "DRAFT" => Moved(Degree!ChangeMoves)
         /\ a \in Editable /\ b = "SUBMITTED" => Moved(Degree!SubmitMoves)
         /\ a = "DRAFT" /\ b = "ARCHIVED" => Moved(Degree!ArchiveMoves)
BY DEF Moved, DegreeRow, ApplicationStatus, CommissionVisible, Editable, Degree!Active,
       Degree!ChangeMoves, Degree!SubmitMoves, Degree!ArchiveMoves

(* The commission, the candidate and the cleanup take the application      *)
(* between a draft, under way and closed only as their requests in         *)
(* ActiveDegree do: what it shows of them holds of every handler.          *)
THEOREM MovesAsInActiveDegree ==
  Spec => [][/\ CommissionNext => Moved(Degree!ChangeMoves)
             /\ CandidateNext => Moved(Degree!SubmitMoves \cup Degree!DeleteMoves)
             /\ CleanupNext => Moved(Degree!ArchiveMoves \cup Degree!PurgeMoves)]_vars
<1>1. ASSUME TypeOK, CommissionNext PROVE Moved(Degree!ChangeMoves)
  <2>1. CASE status' = status BY <2>1 DEF Moved, DegreeRow
  <2>2. CASE status' # status
    <3>1. /\ status \in CommissionVisible
          /\ \E to \in CommissionVisible : SetStatus(to)
      BY <1>1, <2>2
      DEF CommissionNext, SaveRevisionRequestDraft, CreateCandidateAnnotation, MayAnnotate,
          CancelCandidateAnnotation, MayWithdraw, PublishRevisionRequest, MayPublish,
          CancelRevisionRequest, MayCancel, ChangeStatus, MayChangeStatus,
          OverrideAllowed, WorkflowTarget, CommissionVisible
    <3>2. status' \in CommissionVisible BY <3>1 DEF SetStatus
    <3>3. status \in ApplicationStatus /\ status \notin {"DELETED", "DRAFT"}
      BY <3>1 DEF ApplicationStatus, CommissionVisible
    <3> QED BY <3>2, <3>3, RowMoves
  <2> QED BY <2>1, <2>2
<1>2. ASSUME TypeOK, CandidateNext PROVE Moved(Degree!SubmitMoves \cup Degree!DeleteMoves)
  <2>1. CASE status' = status BY <2>1 DEF Moved, DegreeRow
  <2>2. CASE Submit
    <3>1. status \in Editable /\ status' = "SUBMITTED" BY <2>2 DEF Submit
    <3>2. "SUBMITTED" \in CommissionVisible /\ status \in ApplicationStatus /\ status # "DELETED"
      BY <3>1 DEF CommissionVisible, ApplicationStatus, Editable
    <3>3. Moved(Degree!SubmitMoves) BY <3>1, <3>2, RowMoves
    <3> QED BY <3>3 DEF Moved
  <2>3. CASE DeleteDraft
    BY <2>3 DEF DeleteDraft, MayDelete, DeleteRow, Moved, DegreeRow, Degree!DeleteMoves
  <2>4. Submit \/ DeleteDraft \/ status' = status
    BY <1>2 DEF CandidateNext, Update, UpdateRequirement, ChangeAttachments, CandidateWrite, MayWrite,
                EmptyUpdate, MarkActiveRevisionRequestViewed
  <2> QED BY <2>1, <2>2, <2>3, <2>4
<1>3. ASSUME IInv, CleanupNext PROVE Moved(Degree!ArchiveMoves \cup Degree!PurgeMoves)
  <2>1. CASE status' = status BY <2>1 DEF Moved, DegreeRow
  <2>2. CASE ArchiveStaleDraft
    <3>1. status = "DRAFT" /\ status' = "ARCHIVED" BY <2>2 DEF ArchiveStaleDraft
    <3> QED BY <3>1 DEF Moved, DegreeRow, Degree!ArchiveMoves
  <2>3. CASE PurgeStaleDraft
    <3>1. status # "DRAFT" /\ status # "DELETED" /\ status' = "DELETED"
      BY <1>3, <2>3 DEF PurgeStaleDraft, DeleteRow, IInv, SelectedNeverSubmitted
    <3> QED BY <3>1 DEF Moved, DegreeRow, Degree!PurgeMoves
  <2>4. ArchiveStaleDraft \/ PurgeStaleDraft \/ status' = status
    BY <1>3 DEF CleanupNext, SelectStaleDraft, AbandonPurge
  <2> QED BY <2>1, <2>2, <2>3, <2>4
<1>4. IInv => TypeOK BY DEF IInv
<1> QED BY <1>1, <1>2, <1>3, <1>4, InvHolds, PTL DEF Spec

(* A second active application needs as many overlapping requests.         *)
ActiveBounded == Cardinality(Degree!ActiveRows) <= Cardinality(Worker)

(* The rows that are active, or become so at a commit that nothing can     *)
(* refuse any more, are never more than the requests.                      *)
Coming ==
  {tx[w].row : w \in {v \in Worker : tx[v].phase = "written" /\ tx[v].to \in Degree!Active}}

ComingBounded ==
  /\ IsFiniteSet(Degree!ActiveRows \cup Coming)
  /\ Cardinality(Degree!ActiveRows \cup Coming) <= Cardinality(Worker)

DegreeInv == Degree!TypeOK /\ ComingBounded

(* The written rows of a set of requests are no more than the requests.    *)
LEMMA RowsOfWorkers ==
  ASSUME IsFiniteSet(Worker),
         NEW row \in [Worker -> DegreeApplication \cup {NoRow}], NEW S \in SUBSET Worker
  PROVE  LET R == {row[w] : w \in S} IN
         IsFiniteSet(R) /\ Cardinality(R) <= Cardinality(Worker)
<1> DEFINE R == {row[w] : w \in S}
           f == [w \in S |-> row[w]]
<1>1. IsFiniteSet(Worker) OBVIOUS
<1>2. IsFiniteSet(S) /\ Cardinality(S) <= Cardinality(Worker) BY <1>1, FS_Subset
<1>3. f \in [S -> R] OBVIOUS
<1>4. f \in Surjection(S, R) BY <1>3 DEF Surjection
<1>5. IsFiniteSet(R) /\ Cardinality(R) <= Cardinality(S) BY <1>2, <1>4, FS_Surjection
<1>6. Cardinality(R) \in Nat /\ Cardinality(S) \in Nat /\ Cardinality(Worker) \in Nat
  BY <1>1, <1>2, <1>5, FS_CardinalityType
<1> QED BY <1>2, <1>5, <1>6

(* A set of rows that are all written by requests is within the bound.     *)
LEMMA WithinWorkers ==
  ASSUME IsFiniteSet(Worker),
         NEW row \in [Worker -> DegreeApplication \cup {NoRow}], NEW S \in SUBSET Worker,
         NEW T, T \subseteq {row[w] : w \in S}
  PROVE  IsFiniteSet(T) /\ Cardinality(T) <= Cardinality(Worker)
<1> DEFINE R == {row[w] : w \in S}
<1>1. IsFiniteSet(R) /\ Cardinality(R) <= Cardinality(Worker) BY RowsOfWorkers
<1>2. IsFiniteSet(T) /\ Cardinality(T) <= Cardinality(R) BY <1>1, FS_Subset
<1>3. Cardinality(R) \in Nat /\ Cardinality(T) \in Nat /\ Cardinality(Worker) \in Nat
  BY <1>1, <1>2, FS_CardinalityType
<1> QED BY <1>1, <1>2, <1>3

(* Fewer rows keep the bound.                                              *)
LEMMA FewerRows ==
  ASSUME IsFiniteSet(Worker), ComingBounded, NEW T,
         T \subseteq Degree!ActiveRows \cup Coming
  PROVE  IsFiniteSet(T) /\ Cardinality(T) <= Cardinality(Worker)
<1> DEFINE U == Degree!ActiveRows \cup Coming
<1>1. IsFiniteSet(U) /\ Cardinality(U) <= Cardinality(Worker) BY DEF ComingBounded
<1>2. IsFiniteSet(T) /\ Cardinality(T) <= Cardinality(U) BY <1>1, FS_Subset
<1>3. Cardinality(T) \in Nat /\ Cardinality(U) \in Nat /\ Cardinality(Worker) \in Nat
  BY <1>1, <1>2, FS_CardinalityType
<1> QED BY <1>1, <1>2, <1>3

LEMMA DegreeInit == ASSUME IsFiniteSet(Worker) PROVE Degree!Init => DegreeInv
<1> SUFFICES ASSUME Degree!Init PROVE DegreeInv OBVIOUS
<1>1. Degree!TypeOK
  BY DEF Degree!Init, Degree!TypeOK, Degree!Idle, Degree!Transaction, Degree!Status
<1>2. Degree!ActiveRows \cup Coming = {}
  BY DEF Degree!Init, Degree!ActiveRows, Coming, Degree!Idle, Degree!Active
<1>3. IsFiniteSet({}) /\ Cardinality({}) = 0 BY FS_EmptySet
<1>4. Cardinality(Worker) \in Nat BY FS_CardinalityType
<1>5. 0 <= Cardinality(Worker) BY <1>4
<1>6. ComingBounded BY <1>2, <1>3, <1>5, Zenon DEF ComingBounded
<1> QED BY <1>1, <1>6 DEF DegreeInv

(* A step after which a request holds no write that is to come.            *)
LEMMA QuietStep ==
  ASSUME IsFiniteSet(Worker), DegreeInv, NEW w \in Worker, NEW t \in Degree!Transaction,
         Degree!Become(w, t),
         t.phase = "written" => t.to \notin Degree!Active
  PROVE  DegreeInv'
<1>1. Degree!TypeOK' BY DEF DegreeInv, Degree!TypeOK, Degree!Become
<1>2. Degree!ActiveRows' = Degree!ActiveRows BY DEF Degree!Become, Degree!ActiveRows
<1>3. Coming' \subseteq Coming BY DEF DegreeInv, Degree!TypeOK, Degree!Become, Coming
<1>4. (Degree!ActiveRows \cup Coming)' \subseteq Degree!ActiveRows \cup Coming BY <1>2, <1>3
<1>5. ComingBounded' BY <1>4, FewerRows DEF DegreeInv, ComingBounded
<1> QED BY <1>1, <1>5 DEF DegreeInv

(* A write of an active row that the trigger let pass.                     *)
LEMMA ActiveWrite ==
  ASSUME IsFiniteSet(Worker), DegreeInv, NEW w \in Worker, NEW t \in Degree!Transaction,
         Degree!Become(w, t),
         t.phase = "written", t.to \in Degree!Active, Degree!ActiveRows \subseteq {t.row}
  PROVE  DegreeInv'
<1>1. Degree!TypeOK' BY DEF DegreeInv, Degree!TypeOK, Degree!Become
<1> DEFINE row == [v \in Worker |-> tx'[v].row]
           S == {v \in Worker : tx'[v].phase = "written" /\ tx'[v].to \in Degree!Active}
<1>2. row \in [Worker -> DegreeApplication \cup {NoRow}]
  BY <1>1 DEF Degree!TypeOK, Degree!Transaction
<1>3. tx'[w] = t BY DEF DegreeInv, Degree!TypeOK, Degree!Become
<1>4. Coming' = {row[v] : v \in S} BY DEF Coming
<1>5. t.row \in {row[v] : v \in S} BY <1>3
<1>6. Degree!ActiveRows' = Degree!ActiveRows BY DEF Degree!Become, Degree!ActiveRows
<1>7. (Degree!ActiveRows \cup Coming)' \subseteq {row[v] : v \in S} BY <1>4, <1>5, <1>6
<1>8. S \in SUBSET Worker OBVIOUS
<1> HIDE DEF row, S
<1>9. ComingBounded' BY <1>2, <1>7, <1>8, WithinWorkers DEF ComingBounded
<1> QED BY <1>1, <1>9 DEF DegreeInv

LEMMA WriteStep ==
  ASSUME IsFiniteSet(Worker), DegreeInv, NEW w \in Worker,
         NEW moves, Degree!Write(w, moves)
  PROVE  DegreeInv'
<1>1. PICK to \in Degree!Status :
        Degree!Become(w, IF Degree!enforce_active_degree_unique(tx[w].row, to)
                         THEN [tx[w] EXCEPT !.phase = "written", !.to = to] ELSE Degree!Idle)
  BY DEF Degree!Write
<1> DEFINE t == [tx[w] EXCEPT !.phase = "written", !.to = to]
<1>2. t \in Degree!Transaction /\ t.phase = "written" /\ t.to = to /\ t.row = tx[w].row
  BY DEF DegreeInv, Degree!TypeOK, Degree!Transaction
<1>3. Degree!Idle \in Degree!Transaction /\ Degree!Idle.phase = "idle"
  BY DEF Degree!Idle, Degree!Transaction, Degree!Status
<1> HIDE DEF t
<1>4. CASE ~Degree!enforce_active_degree_unique(tx[w].row, to)
  <2>1. Degree!Become(w, Degree!Idle) BY <1>1, <1>4
  <2> QED BY <1>3, <2>1, QuietStep
<1>5. CASE Degree!enforce_active_degree_unique(tx[w].row, to)
  <2>1. Degree!Become(w, t) BY <1>1, <1>5 DEF t
  <2>2. CASE to \in Degree!Active
    BY <1>2, <1>5, <2>1, <2>2, ActiveWrite DEF Degree!enforce_active_degree_unique
  <2>3. CASE to \notin Degree!Active BY <1>2, <2>1, <2>3, QuietStep
  <2> QED BY <2>2, <2>3
<1> QED BY <1>4, <1>5

LEMMA DegreeStep ==
  ASSUME IsFiniteSet(Worker)
  PROVE  DegreeInv /\ [Degree!Next]_(Degree!vars) => DegreeInv'
<1> SUFFICES ASSUME DegreeInv, [Degree!Next]_(Degree!vars) PROVE DegreeInv' OBVIOUS
<1>1. CASE UNCHANGED Degree!vars
  BY <1>1 DEF Degree!vars, DegreeInv, Degree!TypeOK, ComingBounded, Degree!ActiveRows, Coming
<1>2. ASSUME NEW w \in Worker, Degree!Check(w) PROVE DegreeInv'
  <2> DEFINE t == [Degree!Idle EXCEPT !.phase = "checked"]
  <2>1. t \in Degree!Transaction /\ t.phase # "written"
    BY DEF Degree!Idle, Degree!Transaction, Degree!Status
  <2>2. Degree!Become(w, t) BY <1>2 DEF Degree!Check
  <2> QED BY <2>1, <2>2, QuietStep
<1>3. ASSUME NEW w \in Worker, Degree!Insert(w) PROVE DegreeInv'
  <2>1. PICK a \in DegreeApplication :
          Degree!Become(w, IF Degree!enforce_active_degree_unique(a, "draft")
                    THEN [phase |-> "written", row |-> a, to |-> "draft"] ELSE Degree!Idle)
    BY <1>3 DEF Degree!Insert
  <2> DEFINE t == [phase |-> "written", row |-> a, to |-> "draft"]
  <2>2. t \in Degree!Transaction /\ t.phase = "written" /\ t.to \in Degree!Active /\ t.row = a
    BY DEF Degree!Transaction, Degree!Status, Degree!Active
  <2>3. Degree!Idle \in Degree!Transaction /\ Degree!Idle.phase = "idle"
    BY DEF Degree!Idle, Degree!Transaction, Degree!Status
  <2>4. CASE Degree!enforce_active_degree_unique(a, "draft")
    <3>1. Degree!Become(w, t) BY <2>1, <2>4
    <3>2. Degree!ActiveRows \subseteq {a}
      BY <2>4 DEF Degree!enforce_active_degree_unique, Degree!Active
    <3> HIDE DEF t
    <3> QED BY <2>2, <3>1, <3>2, ActiveWrite
  <2>5. CASE ~Degree!enforce_active_degree_unique(a, "draft")
    <3>1. Degree!Become(w, Degree!Idle) BY <2>1, <2>5
    <3> QED BY <2>3, <3>1, QuietStep
  <2> QED BY <2>4, <2>5
<1>4. ASSUME NEW w \in Worker, Degree!Lock(w) PROVE DegreeInv'
  <2>1. PICK a \in DegreeApplication :
          Degree!Become(w, [phase |-> "locked", row |-> a, to |-> "none"])
    BY <1>4 DEF Degree!Lock
  <2> DEFINE t == [phase |-> "locked", row |-> a, to |-> "none"]
  <2>2. t \in Degree!Transaction /\ t.phase # "written" BY DEF Degree!Transaction, Degree!Status
  <2>3. Degree!Become(w, t) BY <2>1
  <2> HIDE DEF t
  <2> QED BY <2>2, <2>3, QuietStep
<1>5. ASSUME NEW w \in Worker,
             \/ Degree!Submit(w) \/ Degree!ChangeStatus(w) \/ Degree!ArchiveDraft(w)
             \/ Degree!Delete(w) \/ Degree!Purge(w)
      PROVE  DegreeInv'
  BY <1>5, WriteStep
  DEF Degree!Submit, Degree!ChangeStatus, Degree!ArchiveDraft, Degree!Delete, Degree!Purge
<1>6. ASSUME NEW w \in Worker, Degree!Commit(w) PROVE DegreeInv'
  <2>1. Degree!TypeOK'
   
      BY <1>6 DEF Degree!Commit, DegreeInv, Degree!TypeOK, Degree!Transaction, Degree!Idle,
          Degree!Status
  <2>2. (Degree!ActiveRows \cup Coming)' \subseteq Degree!ActiveRows \cup Coming
    <3>1. Degree!ActiveRows' \subseteq Degree!ActiveRows \cup Coming
      BY <1>6 DEF Degree!Commit, DegreeInv, Degree!TypeOK, Degree!ActiveRows, Coming
    <3>2. Coming' \subseteq Coming
      BY <1>6 DEF Degree!Commit, DegreeInv, Degree!TypeOK, Coming, Degree!Idle
    <3> QED BY <3>1, <3>2
  <2>3. ComingBounded' BY <2>2, FewerRows DEF DegreeInv, ComingBounded
  <2> QED BY <2>1, <2>3 DEF DegreeInv
<1>7. ASSUME NEW w \in Worker, Degree!Rollback(w) PROVE DegreeInv'
  <2>1. Degree!Idle \in Degree!Transaction /\ Degree!Idle.phase = "idle"
    BY DEF Degree!Idle, Degree!Transaction, Degree!Status
  <2>2. Degree!Become(w, Degree!Idle) BY <1>7 DEF Degree!Rollback
  <2> QED BY <2>1, <2>2, QuietStep
<1> QED BY <1>1, <1>2, <1>3, <1>4, <1>5, <1>6, <1>7 DEF Degree!Next

LEMMA DegreeInvBounds == ASSUME IsFiniteSet(Worker) PROVE DegreeInv => ActiveBounded
<1> SUFFICES ASSUME DegreeInv PROVE ActiveBounded OBVIOUS
<1> QED BY FewerRows DEF DegreeInv, ActiveBounded

(* For any finite number of requests, a candidate has at most as many      *)
(* active applications for a degree as there are requests to overlap.      *)
THEOREM ActiveAlwaysBounded ==
  ASSUME IsFiniteSet(Worker)
  PROVE  Degree!Spec => []ActiveBounded
BY DegreeInit, DegreeStep, DegreeInvBounds, PTL DEF Degree!Spec

(* Without concurrency the check and the trigger suffice: a candidate      *)
(* never has two active applications for a degree.                         *)
THEOREM AloneUnique ==
  ASSUME NEW u, Worker = {u}
  PROVE  Degree!Spec => []Degree!ActiveDegreeUnique
<1>0. IsFiniteSet(Worker) BY FS_Singleton
<1>1. DegreeInv => Degree!ActiveDegreeUnique
  <2> SUFFICES ASSUME DegreeInv, NEW a \in Degree!ActiveRows, NEW b \in Degree!ActiveRows
               PROVE  a = b
    BY DEF Degree!ActiveDegreeUnique
  <2>1. Cardinality(Worker) = 1 BY FS_Singleton
  <2>2. {a, b} \subseteq Degree!ActiveRows \cup Coming OBVIOUS
  <2>3. IsFiniteSet({a, b}) /\ Cardinality({a, b}) <= 1 BY <1>0, <2>1, <2>2, FewerRows DEF DegreeInv
  <2>4. SUFFICES ASSUME a # b PROVE FALSE OBVIOUS
  <2>5. IsFiniteSet({a}) /\ Cardinality({a}) = 1 BY FS_Singleton
  <2>6. Cardinality({a} \cup {b}) = Cardinality({a}) + 1 BY <2>4, <2>5, FS_AddElement
  <2>7. {a} \cup {b} = {a, b} OBVIOUS
  <2> QED BY <2>3, <2>5, <2>6, <2>7
<1> QED BY <1>0, <1>1, DegreeInit, DegreeStep, PTL DEF Degree!Spec
=============================================================================
