------------------------------ MODULE FixRound ------------------------------
(***************************************************************************)
(* A round of fixes as its two sides see it, over CandidateScope: the      *)
(* candidate's editor compares the application with what it was when the   *)
(* page was opened, tells which annotations still wait for a change, and   *)
(* keeps the button to submit disabled while any does; the commission      *)
(* compares the snapshots before and after the round.                      *)
(*                                                                         *)
(* One page is open at a time, and it shows what is stored; for typing and *)
(* saving see ApplicationEditor.tla.  The page is closed with the round.   *)
(***************************************************************************)
EXTENDS CandidateScope

(* The owner of the opinion is none of the requirements, and what an       *)
(* annotation is anchored at tells its kind.                               *)
ASSUME RoundAssumption ==
  /\ "HUFCOWY_PRESENCE" \notin Requirement \cup {NoRequirement}
  /\ "hufcowyPresence" \notin Requirement \cup Attachment
  /\ Requirement \cap Attachment = {}

VARIABLES
  text,      \* the answers to the requirements: their state, DONE or PLANNED
  snapshot,  \* what was last submitted, the baseline of the round: {} or one
  page       \* initialSnapshot of the open editor: {} or one

roundVars == <<vars, text, snapshot, page>>

(* The contents of the application that annotations point at.              *)
Contents ==
  [presence |-> presence, opinion |-> opinion, text |-> text,
   files |-> [x \in Active |-> attachment[x].requirement]]
-----------------------------------------------------------------------------
(* A draft in which every requirement was answered DONE.                   *)
RoundInit == Init /\ text = [q \in Requirement |-> "DONE"] /\ snapshot = {} /\ page = {}

(* updateRequirement, with one new answer: the bound on answers.  It never *)
(* touches the attachments.  Changing back is left to the presence and the *)
(* files.                                                                  *)
UpdateRequirement(q) ==
  /\ IsEditable
  /\ status = "TO_FIX" => q \in Scope.requirements
  /\ text' = [text EXCEPT ![q] = "PLANNED"]
  /\ UNCHANGED <<vars, snapshot, page>>

(* The page asks the API for the application and keeps what it got.  A     *)
(* page opened in a draft has nothing to compare and is left out.          *)
OpenPage ==
  /\ status = "TO_FIX"
  /\ page' = {Contents}
  /\ UNCHANGED <<vars, text, snapshot>>

SubmitSnapshot ==
  /\ Submit
  /\ snapshot' = {Contents}
  /\ page' = {}
  /\ UNCHANGED text

CancelRound == CancelRevisionRequest /\ page' = {} /\ UNCHANGED <<text, snapshot>>

RoundNext ==
  \/ (Edit \/ \E ann \in Annotations : PublishRevisionRequest(ann)) /\ UNCHANGED <<text, snapshot, page>>
  \/ \E q \in Requirement : UpdateRequirement(q)
  \/ OpenPage
  \/ SubmitSnapshot
  \/ CancelRound

RoundSpec == RoundInit /\ [][RoundNext]_roundVars
-----------------------------------------------------------------------------
(* The candidate's side: buildEditApplicationProgress.                     *)

FilesOf(c, q) == {x \in DOMAIN c.files : c.files[x] = q}
OpinionFile(c) == FilesOf(c, NoRequirement) \cap {c.opinion}
GeneralFiles(c) == FilesOf(c, NoRequirement) \ {c.opinion}

(* Mutant: the owner of an attachment is looked up among the present ones  *)
(* only.                                                                   *)
OwnersNow(p, x) == {q \in Requirement : x \in FilesOf(Contents, q)}

(* The requirement the attachment x belongs to or did, if any.             *)
Owners(p, x) == {q \in Requirement : x \in FilesOf(Contents, q) \cup FilesOf(p, q)}

AttachmentsChanged(p, x) ==
  \/ \E q \in Owners(p, x) : FilesOf(p, q) # FilesOf(Contents, q)
  \/ /\ Owners(p, x) = {}
     /\ IF x \in {Contents.opinion, p.opinion}
        THEN OpinionFile(p) # OpinionFile(Contents)
        ELSE GeneralFiles(p) # GeneralFiles(Contents)

PresenceChanged(p) == p.presence # Contents.presence
TextChanged(p, q)  == p.text[q] # Contents.text[q]

(* pendingFixLabels: the annotations without a change on the page p.       *)
Pending(p) ==
  [presence     |-> published.presence /\ ~PresenceChanged(p),
   requirements |-> {q \in published.requirements : ~TextChanged(p, q)},
   attachments  |-> {x \in published.attachments : ~AttachmentsChanged(p, x)}]

(* SubmitApplicationButton is enabled.                                     *)
SubmitOffered(p) == Pending(p) = NoAnnotations
-----------------------------------------------------------------------------
(* The panel of fixes and the inputs its cards lead to.                    *)

Steps == {"basicInfo", "serviceHistory", "supervisor", "requirements", "summary"}
PresenceField == "hufcowyPresence"

(* What the annotations ann are anchored at.                               *)
Anchors(ann) ==
  (IF ann.presence THEN {PresenceField} ELSE {}) \cup ann.requirements \cup ann.attachments

(* resolveStepIndex and resolveAttachmentTarget: the step with the input.  *)
StepOf(p, a) ==
  IF a \in Requirement \/ Owners(p, a) # {} THEN "requirements"
  ELSE IF a \in {PresenceField, Contents.opinion, p.opinion} THEN "basicInfo"
  ELSE "summary"

(* The panel: its cards by step, and how many of them are changed.         *)
Cards(p, step) == {a \in Anchors(published) : StepOf(p, a) = step}
ChangedCards(p, step) == Cards(p, step) \ Anchors(Pending(p))
PanelGroups(p) == {step \in Steps : Cards(p, step) # {}}

(* The two numbers on the tab of a step agree: all its cards are changed.  *)
BadgeDone(p, step) == ChangedCards(p, step) = Cards(p, step)

(* The inputs that the page shows unlocked.  A row has its uploader only   *)
(* while its answer is DONE, or while the answer can be made DONE.         *)
PresenceInput == Scope.presence
TextInput(q)  == q \in Scope.requirements
FilesInput(q) == q \in Scope.files /\ (text[q] = "DONE" \/ TextInput(q))
GeneralInput  == Scope.general

(* Mutant: the lock of the opinion is that of the presence field.          *)
OpinionInputOfField == presence = "ATTACHMENT_OPINION" /\ Scope.presence

(* The opinion is asked for only where it is the chosen presence.          *)
OpinionInput == presence = "ATTACHMENT_OPINION" /\ Scope.opinion

(* The input for the fix a is at the step its card leads to.               *)
InputShown(p, a) ==
  \/ a = PresenceField /\ PresenceInput
  \/ a \in Requirement /\ TextInput(a)
  \/ /\ a \in Attachment
     /\ \/ StepOf(p, a) = "requirements" /\ \A q \in Owners(p, a) : FilesInput(q)
        \/ StepOf(p, a) = "basicInfo" /\ OpinionInput
        \/ StepOf(p, a) = "summary" /\ GeneralInput
-----------------------------------------------------------------------------
(* The commission's side: buildResolvedRevisionRequestAudit of the         *)
(* snapshots before and after.                                             *)

Owner(c, x) == IF x = c.opinion THEN "HUFCOWY_PRESENCE" ELSE c.files[x]
Collection(c, owner) == {x \in DOMAIN c.files : Owner(c, x) = owner}

(* The values and the collections of an owner, before and after.  Two      *)
(* files are the same when their checksums, objects and names are; here    *)
(* each attachment is a file of its own.                                   *)
ScalarChanged(old, new) == old # new
FilesChanged(before, after, owner) == Collection(before, owner) # Collection(after, owner)

(* What the comparison calls UNCHANGED and, of the attachments, what it    *)
(* cannot compare: the snapshot before does not have it.                   *)
Unchanged(before, after) ==
  [presence     |-> published.presence /\ ~ScalarChanged(before.presence, after.presence),
   requirements |-> {q \in published.requirements : ~ScalarChanged(before.text[q], after.text[q])},
   attachments  |-> {x \in published.attachments \cap DOMAIN before.files :
                       ~FilesChanged(before, after, Owner(before, x))}]
NotComparable(before) == published.attachments \ DOMAIN before.files
-----------------------------------------------------------------------------
(* Properties.                                                             *)

(* An opinion filed under a requirement: the API accepts it, no form       *)
(* sends it.                                                               *)
OpinionMisfiled(c) == \E q \in Requirement : c.opinion \in FilesOf(c, q)

(* The candidate and the commission are told the same of each annotation:  *)
(* on a page opened while the application was as last submitted, what      *)
(* waits for a change is what the commission's comparison would call       *)
(* unchanged, as far as it can compare.                                    *)
SidesAgree ==
  status = "TO_FIX" /\ ~OpinionMisfiled(Contents) =>
    \A p \in page \cap snapshot : ~OpinionMisfiled(p) =>
      [Pending(p) EXCEPT !.attachments = @ \ NotComparable(p)] = Unchanged(p, Contents)

(* A row hides its uploader: its answer is PLANNED and may not be changed. *)
UploaderHidden(p, a) == a \in Attachment /\ \E q \in Owners(p, a) : text[q] # "DONE" /\ ~TextInput(q)

(* On a page opened while it still had all the annotated attachments the   *)
(* candidate can make every fix that is asked for: what keeps the button   *)
(* to submit disabled has a card in the panel, under a tab whose badge is  *)
(* not done, and its card leads to an unlocked input.  The scope that      *)
(* unlocks is the API's, the step the editor's own.  Left out: the         *)
(* uploader a PLANNED row hides (UploaderShown below), and opinions that   *)
(* no form sends.                                                          *)
FixReachable ==
  status = "TO_FIX" /\ ~OpinionMisfiled(Contents)
    /\ (opinion # NoAttachment => presence = "ATTACHMENT_OPINION") =>
    \A p \in page : published.attachments \subseteq DOMAIN p.files /\ ~OpinionMisfiled(p) =>
      \A a \in Anchors(Pending(p)) :
        /\ StepOf(p, a) \in PanelGroups(p) /\ ~BadgeDone(p, StepOf(p, a))
        /\ InputShown(p, a) \/ UploaderHidden(p, a)

-----------------------------------------------------------------------------
(* What the repository says and the code does not do: TLC finds it         *)
(* violated.  README.md, "Findings" and "Divergences".                     *)

(* "Read the comment and jump straight to the place that needs work": on   *)
(* any page, what keeps the button to submit disabled has an unlocked      *)
(* input at the step its card leads to.  A candidate who deletes the       *)
(* annotated attachment of a requirement and opens the page again is led   *)
(* to the general attachments, which stay locked, and can submit no more.  *)
PendingHasInput ==
  status = "TO_FIX" /\ ~OpinionMisfiled(Contents)
    /\ (opinion # NoAttachment => presence = "ATTACHMENT_OPINION") =>
    \A p \in page : \A a \in Anchors(Pending(p)) : InputShown(p, a) \/ UploaderHidden(p, a)

(* The same where the only trouble is an uploader that a row hides.        *)
UploaderShown ==
  status = "TO_FIX" => \A p \in page : \A a \in Anchors(Pending(p)) : ~UploaderHidden(p, a)

(* "Complete all requested fixes before submitting the application again": *)
(* who has changed all that was asked for, as the commission will be       *)
(* shown, and misses nothing, is offered to submit.                        *)
FixedMaySubmit ==
  status = "TO_FIX" /\ MayBeSubmitted =>
    \A p \in page, before \in snapshot :
      Unchanged(before, Contents) = NoAnnotations /\ NotComparable(before) = {} => SubmitOffered(p)
=============================================================================
