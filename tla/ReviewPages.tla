------------------------------ MODULE ReviewPages ------------------------------
(***************************************************************************)
(* The pages that the commission opens of the application of               *)
(* ReviewWorkflow: its detail, history and audit, beside the pages of its  *)
(* candidate.  Two services read the same rows for two sides, each with    *)
(* queries of its own; both sides must be told of the same rounds.         *)
(***************************************************************************)
EXTENDS ReviewScreens

(* What the API sends of the application, whatever tab is open: its        *)
(* columns with the mode of the edit scope, and its open request with the  *)
(* annotations of this.                                                    *)
ApplicationDto == [status |-> status, mode |-> ScopeMode]
RevisionRequestDto(r) ==
  [status      |-> request[r].status,
   firstViewed |-> request[r].viewed,
   firstEdited |-> request[r].edited,
   annotations |-> ActiveAnnotations(r)]

(* getInstructorApplicationDetail, as it is shown to member m.             *)
ApplicationDetail(m) ==
  [application |-> ApplicationDto,
   permissions |-> Permissions(m),
   notes       |-> {n \in Note : note[n] # NoMember},
   request     |-> ActiveRequest,
   transitions |-> AvailableTransitions(m),
   timeline    |-> [r \in Request |-> Timeline(r)]]

(* The tab of the feedback: its annotations, and, for a published request, *)
(* whether the candidate has seen it and worked on it since.               *)
VisibleAnnotations(m) ==
  UNION {RevisionRequestDto(r).annotations : r \in ApplicationDetail(m).request}
Asked(m)         == {r \in ApplicationDetail(m).request : RevisionRequestDto(r).status = "PUBLISHED"}
AsksCandidate(m) == Asked(m) # {}
ShownViewed(m)   == \E r \in Asked(m) : RevisionRequestDto(r).firstViewed = "set"
ShownActivity(m) ==
  \E r \in Asked(m) : "set" \in {RevisionRequestDto(r).firstViewed, RevisionRequestDto(r).firstEdited}

(* The tab of the history: the events of every request.  The tabs count    *)
(* what they hold.                                                         *)
HistoryEvents(m) ==
  UNION {{<<r, action>> : action \in ApplicationDetail(m).timeline[r]} : r \in Request}
TabBadge(m) ==
  [candidateFeedback |-> VisibleAnnotations(m),
   internalNotes     |-> ApplicationDetail(m).notes,
   history           |-> HistoryEvents(m)]

(* A row of the list of audits says whether it can be opened and between   *)
(* which snapshots; opened, it shows them with their annotations.          *)
AuditEntry(r) ==
  [available |-> AuditAvailable(r),
   missing   |-> IF request[r].baseline = 0 THEN "BASELINE_SNAPSHOT_MISSING"
                 ELSE IF request[r].response = 0 THEN "RESPONSE_SNAPSHOT_MISSING" ELSE "NONE",
   revisions |-> <<request[r].baseline, request[r].response>>]
AuditShown(r) == IF AuditEntry(r).available THEN AuditAnnotations(r) ELSE {}
-----------------------------------------------------------------------------
(* Both sides are told the same of the round that is open: the candidate   *)
(* has a notice exactly while the application waits for fixes and the      *)
(* commission sees that it asks for them; what is counted for the one is   *)
(* what is listed for the other, no draft and nothing withdrawn among it,  *)
(* some of it with an input; and what was viewed or edited is known to     *)
(* both.                                                                   *)
SameRound ==
  \A m \in Member :
    /\ CandidateDetail.status = ApplicationDetail(m).application.status
    /\ ShowsFixNotice <=> ApplicationDetail(m).application.mode = "LIMITED"
    /\ ShowsFixNotice <=> AsksCandidate(m)
    /\ ShowsFixNotice =>
         /\ FixTargets = TabBadge(m).candidateFeedback
         /\ \E a \in FixTargets : OffersInput({annotation[a].anchor})
    /\ ShownViewed(m) <=> CandidateDetail.firstViewed
    /\ ShownActivity(m) => ShownViewed(m)
    /\ CandidateDetail.firstEdited => ShownActivity(m)

(* And of the rounds before: the history tells of each request that it was *)
(* published if the candidate ever saw it, and of one end if it is over;   *)
(* an answered round was asked before, its audit is there and sets two     *)
(* snapshots beside each other with every annotation of the round.         *)
SameHistory ==
  \A r \in Request :
    /\ request[r].status = "PUBLISHED" <=> Timeline(r) = {"PUBLISHED"}
    /\ request[r].status \in {"NONE", "DRAFT"} => Timeline(r) = {}
    /\ request[r].viewed = "set" => "PUBLISHED" \in Timeline(r)
    /\ AuditListed(r) =>
         /\ Timeline(r) = {"PUBLISHED", "RESOLVED"}
         /\ AuditEntry(r).missing = "NONE"
         /\ AuditEntry(r).revisions[2] = AuditEntry(r).revisions[1] + 1
         /\ AuditShown(r) = {a \in Annotation : annotation[a].request = r /\ annotation[a].status = "RESOLVED"}

(* The rounds as both sides are told of them.                              *)
RoundsTold == SameRound /\ SameHistory
=============================================================================
