--------------------------- MODULE CandidateScope ---------------------------
(***************************************************************************)
(* What a candidate may do to the attachments of ONE application, and to   *)
(* the opinion of the district leader (hufcowy) in particular.             *)
(*                                                                         *)
(* In a draft everything is open.  After the commission published a        *)
(* revision request only what its annotations point at is open, and every  *)
(* handler works that out again from the annotations and from the          *)
(* attachments as they are NOW (buildInstructorApplicationCandidateEditScope). *)
(* Every handler holds the lock on the row of the application, so it is    *)
(* one action; presigning, which takes no lock, only adds an upload that   *)
(* confirm checks again.  The statuses in which the candidate cannot edit  *)
(* are one status, "LOCKED"; ReviewWorkflow.tla has them all.              *)
(***************************************************************************)
EXTENDS Integers, FiniteSets

CONSTANTS
  Requirement,     \* the requirements of the application
  Attachment,      \* identities of attachments, which are their object keys too
  NoRequirement,   \* the requirement of a general attachment
  NoAttachment,    \* a null hufcowyPresenceAttachmentUuid
  MaxAttachments   \* MAX_ATTACHMENTS_PER_APPLICATION

ASSUME ScopeAssumption ==
  /\ NoRequirement \notin Requirement
  /\ NoAttachment \notin Attachment
  /\ MaxAttachments \in Nat \ {0}

VARIABLES
  status,      \* "DRAFT", "TO_FIX" or any status the candidate cannot edit in
  presence,    \* hufcowyPresence, "null" unless chosen
  opinion,     \* hufcowyPresenceAttachmentUuid
  attachment,  \* the uploads and the rows of the attachments
  published,   \* what the annotations of the published request point at
  granted      \* history: the scope at the moment the request was published

vars == <<status, presence, opinion, attachment, published, granted>>
-----------------------------------------------------------------------------
Presence == {"null", "IN_PERSON", "ATTACHMENT_OPINION"}  \* REMOTE is like IN_PERSON

AttachmentRow ==
  [state: {"NONE", "UPLOADED", "ACTIVE", "INACTIVE"}, requirement: Requirement \cup {NoRequirement}]

(* FIELD annotations matter here only on hufcowyPresence.                  *)
Annotations == [presence: BOOLEAN, requirements: SUBSET Requirement, attachments: SUBSET Attachment]
NoAnnotations == [presence |-> FALSE, requirements |-> {}, attachments |-> {}]

EditScope ==
  [presence: BOOLEAN, requirements: SUBSET Requirement, files: SUBSET Requirement,
   general: BOOLEAN, opinion: BOOLEAN]
NoScope ==
  [presence |-> FALSE, requirements |-> {}, files |-> {}, general |-> FALSE, opinion |-> FALSE]

Active == {x \in Attachment : attachment[x].state = "ACTIVE"}

(* Mutant: the map has only the active attachments.                        *)
ActiveAttachmentRequirement(x) ==
  IF x \in Active THEN attachment[x].requirement ELSE NoRequirement

(* The map from attachments to requirements has every row, active or not.  *)
AttachmentRequirement(x) == attachment[x].requirement

(* The scope the annotations ann give.  An attachment that is the present  *)
(* opinion unlocks the opinion, any other its requirement, and one without *)
(* a requirement the general attachments.                                  *)
ScopeOf(ann) ==
  LET others == ann.attachments \ {opinion}
  IN  [presence     |-> ann.presence,
       requirements |-> ann.requirements,
       files        |-> {AttachmentRequirement(x) : x \in others} \ {NoRequirement},
       general      |-> \E x \in others : AttachmentRequirement(x) = NoRequirement,
       opinion      |-> ann.presence \/ opinion \in ann.attachments]

Scope == ScopeOf(published)

(* ensureAttachmentEditAllowed for an attachment of requirement q.         *)
EditAllowed(q, asOpinion) ==
  status = "TO_FIX" =>
    \/ q # NoRequirement /\ q \in Scope.files
    \/ q = NoRequirement /\ asOpinion /\ (Scope.opinion \/ Scope.presence)
    \/ q = NoRequirement /\ ~asOpinion /\ Scope.general

IsEditable == status \in {"DRAFT", "TO_FIX"}
-----------------------------------------------------------------------------
Init ==
  /\ status = "DRAFT"
  /\ presence = "null"
  /\ opinion = NoAttachment
  /\ attachment = [x \in Attachment |-> [state |-> "NONE", requirement |-> NoRequirement]]
  /\ published = NoAnnotations
  /\ granted = NoScope
-----------------------------------------------------------------------------
(* Candidate handlers.                                                     *)

(* presignAttachment, and the upload to the presigned URL.  An upload with *)
(* no requirement counts as the opinion whenever one is asked for.         *)
PresignAttachment(x, q) ==
  /\ IsEditable
  /\ EditAllowed(q, presence = "ATTACHMENT_OPINION")
  /\ Cardinality(Active) < MaxAttachments
  /\ attachment[x].state = "NONE"
  /\ attachment' = [attachment EXCEPT ![x].state = "UPLOADED"]
  /\ UNCHANGED <<status, presence, opinion, published, granted>>

(* An upload that was not confirmed is removed: by the cleanup of orphans, *)
(* or by a confirm that fails after it found the object.                   *)
RemoveUpload(x) ==
  /\ attachment[x].state = "UPLOADED"
  /\ attachment' = [attachment EXCEPT ![x].state = "NONE"]
  /\ UNCHANGED <<status, presence, opinion, published, granted>>

(* Mutant: the limit is only checked when the upload is presigned.         *)
ConfirmAttachmentUncounted(x, q, isHufcowyPresence) ==
  /\ IsEditable
  /\ EditAllowed(q, isHufcowyPresence)
  /\ attachment[x].state = "UPLOADED"
  /\ attachment' = [y \in Attachment |->
       IF y = x THEN [state |-> "ACTIVE", requirement |-> q]
       ELSE IF isHufcowyPresence /\ y = opinion /\ y \in Active
            THEN [attachment[y] EXCEPT !.state = "INACTIVE"]
       ELSE attachment[y]]
  /\ opinion' = IF isHufcowyPresence THEN x ELSE opinion
  /\ UNCHANGED <<status, presence, published, granted>>

(* confirmAttachment: a new opinion replaces the present one.              *)
ConfirmAttachment(x, q, isHufcowyPresence) ==
  /\ IsEditable
  /\ EditAllowed(q, isHufcowyPresence)
  /\ attachment[x].state = "UPLOADED"
  /\ Cardinality(Active) < MaxAttachments
  /\ attachment' = [y \in Attachment |->
       IF y = x THEN [state |-> "ACTIVE", requirement |-> q]
       ELSE IF isHufcowyPresence /\ y = opinion /\ y \in Active
            THEN [attachment[y] EXCEPT !.state = "INACTIVE"]
       ELSE attachment[y]]
  /\ opinion' = IF isHufcowyPresence THEN x ELSE opinion
  /\ UNCHANGED <<status, presence, published, granted>>

(* Mutant: deleting the opinion leaves the application linked to it.       *)
DeleteAttachmentLinked(x) ==
  /\ IsEditable
  /\ x \in Active
  /\ EditAllowed(attachment[x].requirement, opinion = x)
  /\ attachment' = [attachment EXCEPT ![x].state = "INACTIVE"]
  /\ UNCHANGED <<status, presence, opinion, published, granted>>

DeleteAttachment(x) ==
  /\ IsEditable
  /\ x \in Active
  /\ EditAllowed(attachment[x].requirement, opinion = x)
  /\ opinion' = IF opinion = x THEN NoAttachment ELSE opinion
  /\ attachment' = [attachment EXCEPT ![x].state = "INACTIVE"]
  /\ UNCHANGED <<status, presence, published, granted>>

(* update of hufcowyPresence: another choice unlinks the opinion, whose    *)
(* attachment stays active.                                                *)
UpdatePresence(to) ==
  /\ IsEditable
  /\ status = "TO_FIX" => Scope.presence
  /\ presence' = to
  /\ opinion' = IF to # "ATTACHMENT_OPINION" THEN NoAttachment ELSE opinion
  /\ UNCHANGED <<status, attachment, published, granted>>

(* validateRequiredFieldsForSubmit, as far as the opinion goes.            *)
MayBeSubmitted ==
  /\ presence # "null"
  /\ presence = "ATTACHMENT_OPINION" => opinion \in Active

Submit ==
  /\ IsEditable
  /\ MayBeSubmitted
  /\ status' = "LOCKED"
  /\ published' = NoAnnotations
  /\ granted' = NoScope
  /\ UNCHANGED <<presence, opinion, attachment>>
-----------------------------------------------------------------------------
(* Commission handlers, as far as this module needs them.  The annotations *)
(* of a request point at active attachments: ensureAnchorMatchesApplication *)
(* checks it, and nothing changes between annotating and publishing.       *)
PublishRevisionRequest(ann) ==
  /\ status = "LOCKED"
  /\ ann # NoAnnotations
  /\ ann.attachments \subseteq Active
  /\ status' = "TO_FIX"
  /\ published' = ann
  /\ granted' = ScopeOf(ann)
  /\ UNCHANGED <<presence, opinion, attachment>>

CancelRevisionRequest ==
  /\ status = "TO_FIX"
  /\ status' = "LOCKED"
  /\ published' = NoAnnotations
  /\ granted' = NoScope
  /\ UNCHANGED <<presence, opinion, attachment>>
-----------------------------------------------------------------------------
(* What the candidate does before submitting.                              *)
Edit ==
  \/ \E x \in Attachment :
       \/ \E q \in Requirement \cup {NoRequirement} : PresignAttachment(x, q)
       \/ RemoveUpload(x)
       \/ \E q \in Requirement \cup {NoRequirement}, h \in BOOLEAN : ConfirmAttachment(x, q, h)
       \/ DeleteAttachment(x)
  \/ \E to \in Presence : UpdatePresence(to)

Next ==
  \/ Edit
  \/ Submit
  \/ \E ann \in Annotations : PublishRevisionRequest(ann)
  \/ CancelRevisionRequest

Spec == Init /\ [][Next]_vars
-----------------------------------------------------------------------------
(* Properties.                                                             *)

(* Every column holds a value of its type.                                 *)
TypeOK ==
  /\ status \in {"DRAFT", "TO_FIX", "LOCKED"}
  /\ presence \in Presence
  /\ opinion \in Attachment \cup {NoAttachment}
  /\ attachment \in [Attachment -> AttachmentRow]
  /\ published \in Annotations
  /\ granted \in EditScope

(* The opinion the application links to is one of its active attachments,  *)
(* whatever was replaced, deleted or unlinked before: submit, the snapshot *)
(* and the next confirm all rely on it.                                    *)
OpinionLinked == opinion # NoAttachment => opinion \in Active

(* The limit counted again under the lock holds however many uploads were  *)
(* presigned below it.                                                     *)
LimitHolds == Cardinality(Active) <= MaxAttachments

(* What an attachment annotation unlocked outside the opinion stays        *)
(* unlocked to the end of the round, also after the candidate deleted the  *)
(* very attachment the annotation points at.                               *)
FilesStayUnlocked ==
  status = "TO_FIX" => /\ granted.files \subseteq Scope.files
                       /\ granted.general => Scope.general

-----------------------------------------------------------------------------
(* What the repository says and the code does not do: TLC finds it         *)
(* violated.  README.md, "Divergences".                                    *)

(* A round that did not unlock the general attachments never costs the     *)
(* application one that is not its opinion and was not annotated.          *)
GeneralFilesStay ==
  [][status = "TO_FIX" /\ ~granted.general =>
       \A x \in Active \ published.attachments :
         x # opinion /\ AttachmentRequirement(x) = NoRequirement => x \in Active']_vars

(* A round that unlocked the opinion lets the candidate upload one as long *)
(* as it lasts.                                                            *)
OpinionStaysUnlocked == status = "TO_FIX" /\ granted.opinion => Scope.opinion
=============================================================================
