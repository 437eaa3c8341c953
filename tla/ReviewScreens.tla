---------------------------- MODULE ReviewScreens ----------------------------
(***************************************************************************)
(* What the screens of the commission and of the candidate show of the     *)
(* application of ReviewWorkflow, and which actions they offer.  The API   *)
(* computes permissions, transitions, the edit scope and the history from  *)
(* the same rows as the handlers, with rules of its own; the web client    *)
(* adds the conditions under which it draws a button.                      *)
(***************************************************************************)
EXTENDS InternalNotes

(* The commission sees its application (findAccessibleApplicationDetail).  *)
Accessible == status \in CommissionVisible

(* The inbox: resolveRequestedStatuses and the where of the list, with the *)
(* boxes that its form has to filter by status.                            *)
RequestedStatuses(chosen) == IF chosen = {} THEN CommissionVisible ELSE CommissionVisible \cap chosen
Listed(chosen) == status \in RequestedStatuses(chosen)
StatusFilters ==
  {"SUBMITTED", "UNDER_REVIEW", "TO_FIX", "APPROVED", "IN_PROGRESS",
   "REPORT_SUBMITTED", "COMPLETED_POSITIVE", "REJECTED", "ARCHIVED"}

(* toPermissionsDto: the flags by role and by status.                      *)
Permissions(m) ==
  [comment       |-> NotesOpen,
   draftFeedback |-> status \in DraftAllowed,
   moderate      |-> m \in Manager,
   publish       |-> m \in Manager,
   changeStatus  |-> m \in Manager]

(* Mutant: the present status is offered too.                              *)
AnyTransition(m) == IF m \in Manager THEN WorkflowTarget ELSE {}

AvailableTransitions(m) == IF m \in Manager THEN WorkflowTarget \ {status} ELSE {}

(* The badges of a row of the inbox (toListItemDto).                       *)
ListItem(m) ==
  [openFixRequest |-> OpenRequests # {},
   changeStatus   |-> AvailableTransitions(m) # {}]

(* Mutant: those that were withdrawn are shown too.                        *)
AllAnnotations(r) == {a \in Annotation : annotation[a].request = r}

(* The detail shows the one open request (findActiveRevisionRequest), with *)
(* the annotations that were not withdrawn.                                *)
ActiveRequest == OpenRequests
ActiveAnnotations(r) ==
  {a \in Annotation : annotation[a].request = r /\ annotation[a].status # "CANCELLED"}

(* canMutateCandidateFeedback and canMutateInternalNotes.                  *)
OffersAnnotating(m) ==
  Accessible /\ Permissions(m).draftFeedback /\ InStatus("PUBLISHED") = {}
OffersNotes(m) == Accessible /\ Permissions(m).comment
-----------------------------------------------------------------------------
(* The tabs of the detail: where each has a button for feedback to the     *)
(* candidate and where one for a note of the commission.                   *)
RequirementsTab == {"REQUIREMENT", "ATTACHMENT"}
FeedbackAnchors ==
  [application       |-> {"FIELD", "ATTACHMENT"},
   requirements      |-> RequirementsTab,
   candidateFeedback |-> {"APPLICATION"},
   internalNotes     |-> {},
   history           |-> {}]
SectionAnchors ==
  [application       |-> {"APPLICATION", "SECTION"},
   requirements      |-> {},
   candidateFeedback |-> {},
   internalNotes     |-> {"APPLICATION"},
   history           |-> {}]
Tab == DOMAIN FeedbackAnchors
HasFeedbackButton(tab, anchor) == anchor \in FeedbackAnchors[tab]
HasNoteButton(tab, anchor)     == anchor \in FeedbackAnchors[tab] \cup SectionAnchors[tab]

(* draftAnnotationByAnchor: the drawer opened for feedback edits the draft *)
(* that it finds at the anchor.                                            *)
DraftsAt(anchor) ==
  {a \in UNION {ActiveAnnotations(r) : r \in ActiveRequest} :
     annotation[a].status = "DRAFT" /\ annotation[a].anchor = anchor}
DrawerEdits(m, a) ==
  /\ OffersAnnotating(m)
  /\ a \in DraftsAt(annotation[a].anchor)
  /\ \E tab \in Tab : HasFeedbackButton(tab, annotation[a].anchor)

(* Otherwise it writes something new, and lets a member who may write both *)
(* feedback and notes switch between them.                                 *)
OffersFeedbackAt(m, anchor) ==
  /\ OffersAnnotating(m)
  /\ \E tab \in Tab :
       \/ HasFeedbackButton(tab, anchor) /\ DraftsAt(anchor) = {}
       \/ HasNoteButton(tab, anchor) /\ OffersNotes(m)
OffersNoteAt(m, anchor) ==
  OffersNotes(m) /\ \E tab \in Tab : HasNoteButton(tab, anchor)

(* The list of the drafts has a button to edit or withdraw one, and the    *)
(* list of the notes one to edit or delete a note.                         *)
OffersEditing(m, a) ==
  /\ OffersAnnotating(m)
  /\ \E r \in ActiveRequest : a \in ActiveAnnotations(r)
  /\ annotation[a].status = "DRAFT"
  /\ annotation[a].author = m \/ Permissions(m).moderate
OffersEditingNote(m, n) == OffersNotes(m) /\ note[n] = m
-----------------------------------------------------------------------------

(* The workflow aside and its three forms.  TO_FIX is not among its        *)
(* statuses.                                                               *)
ShowsAside(m) == Accessible /\ (Permissions(m).publish \/ Permissions(m).changeStatus)
OffersCancelling(m) == ShowsAside(m) /\ Permissions(m).moderate /\ InStatus("DRAFT") # {}
OffersPublishing(m) ==
  /\ ShowsAside(m) /\ Permissions(m).publish
  /\ \E r \in InStatus("DRAFT") : ActiveAnnotations(r) # {}
OffersStatus(m, to) ==
  ShowsAside(m) /\ Permissions(m).changeStatus /\ to \in AvailableTransitions(m) \ {"TO_FIX"}
-----------------------------------------------------------------------------
(* buildInstructorApplicationCandidateEditScope: its mode, and the anchors *)
(* of the annotations which unlock something.                              *)
ScopeMode ==
  IF status = "DRAFT" THEN "FULL"
  ELSE IF status = "TO_FIX" /\ InStatus("PUBLISHED") # {} THEN "LIMITED" ELSE "NONE"
UnlockedAnchors == {annotation[a].anchor : a \in UNION {Published(r) : r \in InStatus("PUBLISHED")}}

(* canEdit...: the inputs the form enables.  Only an editable application  *)
(* has a form.                                                             *)
OffersInput(anchors) ==
  /\ status \in Editable
  /\ ScopeMode = "FULL" \/ (ScopeMode = "LIMITED" /\ anchors \cap UnlockedAnchors # {})
-----------------------------------------------------------------------------
(* buildTimeline: what the history tells of a request.  It was published   *)
(* when it has a baseline.                                                 *)
Timeline(r) ==
  (IF request[r].baseline > 0 THEN {"PUBLISHED"} ELSE {})
  \cup (IF request[r].status \in Closed THEN {request[r].status} ELSE {})

(* The audit lists the resolved requests and opens one of them, if the     *)
(* snapshots before and after it both exist.                               *)
AuditListed(r)      == Accessible /\ request[r].status = "RESOLVED"
AuditAvailable(r)   == request[r].baseline > 0 /\ request[r].response > 0
AuditAnnotations(r) == ActiveAnnotations(r)
-----------------------------------------------------------------------------
(* The candidate's list has every application with a row (listMy).  Its    *)
(* card leads an editable one to the editor, any other to its page, and    *)
(* offers to delete a draft.                                               *)
ListedForCandidate == status # "DELETED"
IsEditable         == status \in Editable
OffersDeletion     == ListedForCandidate /\ IsEditable /\ status = "DRAFT"

(* getDetail: the request it reads, which is the published one, ...        *)
PublishedRound == InStatus("PUBLISHED")

(* ... and what the scope tells of it to the candidate: outside LIMITED    *)
(* mode there is no request and nothing to fix.                            *)
CandidateDetail ==
  LET round == IF ScopeMode = "LIMITED" THEN PublishedRound ELSE {} IN
  [status      |-> status,
   request     |-> round,
   annotations |-> UNION {Published(r) : r \in round},
   firstViewed |-> \E r \in round : request[r].viewed = "set",
   firstEdited |-> \E r \in round : request[r].edited = "set"]

(* The notice of fixes on the candidate's page, and what it counts.        *)
ShowsFixNotice == CandidateDetail.status = "TO_FIX" /\ CandidateDetail.request # {}
FixTargets     == IF ShowsFixNotice THEN CandidateDetail.annotations ELSE {}

(* Its link opens the editor, which sends a candidate who may not edit     *)
(* back, and reports the first visit of a round.                           *)
OffersEditor  == ListedForCandidate /\ IsEditable
OpensEditor   == CandidateDetail.status \in Editable
ReportsViewed == OpensEditor /\ ShowsFixNotice /\ ~CandidateDetail.firstViewed
-----------------------------------------------------------------------------
(* Each link and button of the candidate leads to something the API does:  *)
(* the editor opens exactly for a candidate who may write something;       *)
(* deletion is there for what deleteDraft deletes; and a visit is reported *)
(* only to a round that has none noted.                                    *)
CandidateOffersAccepted ==
  /\ OpensEditor <=> \E anchor \in AnchorType : MayWrite({anchor})
  /\ OffersEditor => OpensEditor
  /\ OffersDeletion <=> MayDelete
  /\ ReportsViewed => \E r \in InStatus("PUBLISHED") : request[r].viewed = "null"

(* A screen that is up to date offers nothing that its handler refuses and *)
(* hides nothing that it accepts: each member can give feedback and write  *)
(* notes at every anchor where the API takes them, and change what the API *)
(* lets them change; the candidate is offered exactly the inputs that the  *)
(* API accepts.  The exceptions: the drawer of a note on a section can be  *)
(* switched to feedback, which the API refuses, and the button to publish  *)
(* counts annotations that unlock nothing, and is there for a draft that   *)
(* was archived and taken to review, which has no snapshot.  Some filter   *)
(* of the inbox finds every application that can be opened, its badges say *)
(* what the detail offers, the history shows no answer without its         *)
(* question, and the audit compares the snapshots of every answered round, *)
(* in which there was something to change.                                 *)
OfferedIsAccepted ==
  /\ \A m \in Member :
       /\ \A anchor \in AnchorType :
            /\ anchor # "SECTION" => (OffersFeedbackAt(m, anchor) <=> MayAnnotate(anchor))
            /\ OffersNoteAt(m, anchor) <=> NotesOpen
       /\ \A a \in Annotation : OffersEditing(m, a) <=> MayWithdraw(m, a)
       /\ \A n \in Note : OffersEditingNote(m, n) <=> MayChangeNote(m, n)
       /\ OffersCancelling(m) => \E r \in OpenRequests : MayCancel(m, r)
       /\ \A to \in WorkflowTarget : OffersStatus(m, to) <=> MayChangeStatus(m, to)
       /\ OffersPublishing(m) =>
            \/ \E r \in OpenRequests : MayPublish(m, r)
            \/ revision = 0
            \/ \A r \in InStatus("DRAFT") : \A a \in OpenAnnotations(r) : ~IsActionable(annotation[a].anchor)
       /\ Listed({}) =>
            /\ status = "TO_FIX" => ListItem(m).openFixRequest
            /\ (ListItem(m).changeStatus <=> \E to \in WorkflowTarget : MayChangeStatus(m, to))
  /\ Accessible <=> \E chosen \in StatusFilters : Listed({chosen})
  /\ OffersInput({"FIELD"})       <=> MayWrite({"FIELD"})
  /\ OffersInput({"REQUIREMENT"}) <=> MayWrite({"REQUIREMENT"})
  /\ \A r \in Request : AuditListed(r) =>
       /\ "PUBLISHED" \in Timeline(r)
       /\ AuditAvailable(r)
       /\ \E a \in AuditAnnotations(r) : IsActionable(annotation[a].anchor)
  /\ CandidateOffersAccepted
-----------------------------------------------------------------------------
(* What the drawer gets wrong: TLC finds it violated.  README.md,          *)
(* "Divergences".                                                          *)

(* The drawer never looks at the author of the draft that it finds at an   *)
(* anchor, which the API lets only its author and a moderator change, nor  *)
(* at the anchor when it is switched from a note to feedback.              *)
DrawerOfferAccepted ==
  \A m \in Member :
    /\ \A a \in Annotation : DrawerEdits(m, a) => MayWithdraw(m, a)
    /\ OffersFeedbackAt(m, "SECTION") => MayAnnotate("SECTION")
=============================================================================
