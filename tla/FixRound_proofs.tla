--------------------------- MODULE FixRound_proofs ---------------------------
(***************************************************************************)
(* Proofs about CandidateScope and about FixRound, which extends it, for   *)
(* any number of attachments and requirements and any limit.  A round is a *)
(* run of CandidateScope, so all that is proved of the scope holds in it.  *)
(***************************************************************************)
EXTENDS FixRound, FiniteSetTheorems, TLAPS

(***************************************************************************)
(* The strengthened invariant.  Annotations point at attachments that were *)
(* confirmed, so an attachment confirmed later, which may become the       *)
(* opinion, is never one of them.                                          *)
(***************************************************************************)

PublishedConfirmed ==
  \A x \in published.attachments : attachment[x].state \in {"ACTIVE", "INACTIVE"}

ActiveFinite == IsFiniteSet(Active)

ScopeInv ==
  /\ TypeOK
  /\ OpinionLinked
  /\ PublishedConfirmed
  /\ FilesStayUnlocked

(***************************************************************************)
(* What the scope of a set of annotations is made of.                      *)
(***************************************************************************)

LEMMA NothingTyped ==
  /\ NoAnnotations \in Annotations
  /\ NoScope \in EditScope
BY DEF NoAnnotations, Annotations, NoScope, EditScope

LEMMA ScopeTyped ==
  ASSUME TypeOK, NEW ann \in Annotations
  PROVE  ScopeOf(ann) \in EditScope
<1>1. \A x \in ann.attachments : AttachmentRequirement(x) \in Requirement \cup {NoRequirement}
  BY DEF TypeOK, Annotations, AttachmentRow, AttachmentRequirement
<1> QED
  BY <1>1 DEF ScopeOf, EditScope, Annotations

(* Attachments that are annotated keep their requirement, and only the     *)
(* present opinion can leave the annotated attachments: then a scope loses *)
(* no file when the opinion is unlinked or replaced by a fresh one.        *)
LEMMA ScopeKept ==
  ASSUME TypeOK, TypeOK', FilesStayUnlocked,
         UNCHANGED <<published, granted>>, status' = "TO_FIX" => status = "TO_FIX",
         \A x \in published.attachments : attachment'[x].requirement = attachment[x].requirement,
         opinion' = opinion \/ opinion' \notin published.attachments
  PROVE  FilesStayUnlocked'
<1> SUFFICES ASSUME status' = "TO_FIX"
             PROVE  /\ granted'.files \subseteq Scope'.files
                    /\ granted'.general => Scope'.general
  BY DEF FilesStayUnlocked
<1>1. granted.files \subseteq Scope.files /\ (granted.general => Scope.general)
  BY DEF FilesStayUnlocked
<1>2. \A x \in published.attachments : AttachmentRequirement(x)' = AttachmentRequirement(x)
  BY DEF AttachmentRequirement
<1>3. published.attachments \ {opinion} \subseteq published'.attachments \ {opinion'}
  OBVIOUS
<1>4. Scope.files \subseteq Scope'.files
  BY <1>2, <1>3 DEF Scope, ScopeOf
<1>5. Scope.general => Scope'.general
  BY <1>2, <1>3 DEF Scope, ScopeOf
<1> QED
  BY <1>1, <1>4, <1>5

(***************************************************************************)
(* The invariant is inductive: one lemma per handler.                      *)
(***************************************************************************)

LEMMA ScopeInit == Init => ScopeInv
BY NothingTyped DEF Init, ScopeInv, TypeOK, Presence, AttachmentRow, OpinionLinked,
   PublishedConfirmed, NoAnnotations, FilesStayUnlocked

LEMMA PresignKeeps ==
  ASSUME ScopeInv, NEW x \in Attachment, NEW q, PresignAttachment(x, q)
  PROVE  ScopeInv'
<1> USE DEF ScopeInv
<1>1. TypeOK'
  BY DEF PresignAttachment, TypeOK, AttachmentRow
<1>2. OpinionLinked'
  BY DEF PresignAttachment, OpinionLinked, Active, TypeOK, AttachmentRow
<1>3. PublishedConfirmed'
  BY DEF PresignAttachment, PublishedConfirmed, TypeOK, Annotations, AttachmentRow
<1>4. FilesStayUnlocked'
  BY <1>1, ScopeKept DEF PresignAttachment, TypeOK, Annotations, AttachmentRow
<1> QED
  BY <1>1, <1>2, <1>3, <1>4

LEMMA RemoveKeeps ==
  ASSUME ScopeInv, NEW x \in Attachment, RemoveUpload(x)
  PROVE  ScopeInv'
<1> USE DEF ScopeInv
<1>1. TypeOK'
  BY DEF RemoveUpload, TypeOK, AttachmentRow
<1>2. OpinionLinked'
  BY DEF RemoveUpload, OpinionLinked, Active, TypeOK, AttachmentRow
<1>3. PublishedConfirmed'
  BY DEF RemoveUpload, PublishedConfirmed, TypeOK, Annotations, AttachmentRow
<1>4. FilesStayUnlocked'
  BY <1>1, ScopeKept DEF RemoveUpload, TypeOK, Annotations, AttachmentRow
<1> QED
  BY <1>1, <1>2, <1>3, <1>4

(* The row of every attachment after a confirm: x becomes active, and the   *)
(* opinion it replaces inactive.                                           *)
LEMMA ConfirmRows ==
  ASSUME TypeOK, NEW x \in Attachment, NEW q \in Requirement \cup {NoRequirement},
         NEW h \in BOOLEAN, ConfirmAttachment(x, q, h)
  PROVE  /\ attachment' \in [Attachment -> AttachmentRow]
         /\ attachment'[x].state = "ACTIVE"
         /\ \A y \in Attachment \ {x} :
              /\ attachment'[y].requirement = attachment[y].requirement
              /\ \/ attachment'[y].state = attachment[y].state
                 \/ /\ h /\ y = opinion
                    /\ attachment[y].state = "ACTIVE"
                    /\ attachment'[y].state = "INACTIVE"
<1>1. attachment'[x] = [state |-> "ACTIVE", requirement |-> q]
  BY DEF ConfirmAttachment
<1>2. attachment'[x] \in AttachmentRow /\ attachment'[x].state = "ACTIVE"
  BY <1>1 DEF AttachmentRow
<1>3. ASSUME NEW y \in Attachment \ {x}
      PROVE  /\ attachment'[y] \in AttachmentRow
             /\ attachment'[y].requirement = attachment[y].requirement
             /\ \/ attachment'[y].state = attachment[y].state
                \/ /\ h /\ y = opinion
                   /\ attachment[y].state = "ACTIVE"
                   /\ attachment'[y].state = "INACTIVE"
  <2>1. attachment[y] \in AttachmentRow
    BY DEF TypeOK
  <2>2. CASE h /\ y = opinion /\ y \in Active
    <3>1. attachment'[y] = [attachment[y] EXCEPT !.state = "INACTIVE"]
      BY <2>2 DEF ConfirmAttachment
    <3> QED
      BY <2>1, <2>2, <3>1 DEF AttachmentRow, Active
  <2>3. CASE ~(h /\ y = opinion /\ y \in Active)
    <3>1. attachment'[y] = attachment[y]
      BY <2>3 DEF ConfirmAttachment
    <3> QED
      BY <2>1, <3>1
  <2> QED
    BY <2>2, <2>3
<1>4. \A y \in Attachment : attachment'[y] \in AttachmentRow
  BY <1>2, <1>3
<1>5. attachment' \in [Attachment -> AttachmentRow]
  BY <1>4 DEF ConfirmAttachment
<1> QED
  BY <1>2, <1>3, <1>5

LEMMA ConfirmKeeps ==
  ASSUME ScopeInv, NEW x \in Attachment, NEW q \in Requirement \cup {NoRequirement},
         NEW h \in BOOLEAN, ConfirmAttachment(x, q, h)
  PROVE  ScopeInv'
<1> USE DEF ScopeInv
<1>1. opinion' = IF h THEN x ELSE opinion
  BY DEF ConfirmAttachment
<1>2. TypeOK'
  BY <1>1, ConfirmRows DEF ConfirmAttachment, TypeOK
<1>3. x \notin published.attachments
  BY DEF ConfirmAttachment, PublishedConfirmed
<1>4. OpinionLinked'
  BY <1>1, ConfirmRows DEF OpinionLinked, Active, TypeOK
<1>5. published.attachments \subseteq Attachment \ {x}
  BY <1>3 DEF TypeOK, Annotations
<1>6. PublishedConfirmed'
  BY <1>5, ConfirmRows DEF ConfirmAttachment, PublishedConfirmed
<1>7. FilesStayUnlocked'
  BY <1>1, <1>2, <1>3, <1>5, ConfirmRows, ScopeKept DEF ConfirmAttachment
<1> QED
  BY <1>2, <1>4, <1>6, <1>7

LEMMA DeleteKeeps ==
  ASSUME ScopeInv, NEW x \in Attachment, DeleteAttachment(x)
  PROVE  ScopeInv'
<1> USE DEF ScopeInv
<1>1. TypeOK'
  BY DEF DeleteAttachment, TypeOK, AttachmentRow
<1>2. OpinionLinked'
  BY DEF DeleteAttachment, OpinionLinked, Active, TypeOK, AttachmentRow
<1>3. PublishedConfirmed'
  BY DEF DeleteAttachment, PublishedConfirmed, TypeOK, Annotations, AttachmentRow
<1>4. NoAttachment \notin published.attachments
  BY ScopeAssumption DEF TypeOK, Annotations
<1>5. FilesStayUnlocked'
  BY <1>1, <1>4, ScopeKept DEF DeleteAttachment, TypeOK, Annotations, AttachmentRow
<1> QED
  BY <1>1, <1>2, <1>3, <1>5

LEMMA PresenceKeeps ==
  ASSUME ScopeInv, NEW to \in Presence, UpdatePresence(to)
  PROVE  ScopeInv'
<1> USE DEF ScopeInv
<1>1. TypeOK'
  BY DEF UpdatePresence, TypeOK
<1>2. OpinionLinked'
  BY DEF UpdatePresence, OpinionLinked, Active
<1>3. PublishedConfirmed'
  BY DEF UpdatePresence, PublishedConfirmed
<1>4. NoAttachment \notin published.attachments
  BY ScopeAssumption DEF TypeOK, Annotations
<1>5. FilesStayUnlocked'
  BY <1>1, <1>4, ScopeKept DEF UpdatePresence
<1> QED
  BY <1>1, <1>2, <1>3, <1>5

(* submit and cancelRevisionRequest end the round.                         *)
LEMMA EndOfRoundKeeps ==
  ASSUME ScopeInv, Submit \/ CancelRevisionRequest
  PROVE  ScopeInv'
<1> USE DEF ScopeInv
<1>1. /\ UNCHANGED <<presence, opinion, attachment>>
      /\ status' = "LOCKED" /\ published' = NoAnnotations /\ granted' = NoScope
  BY DEF Submit, CancelRevisionRequest
<1>2. TypeOK'
  BY <1>1, NothingTyped DEF TypeOK
<1>3. OpinionLinked'
  BY <1>1 DEF OpinionLinked, Active
<1>4. PublishedConfirmed'
  BY <1>1 DEF PublishedConfirmed, NoAnnotations
<1>5. FilesStayUnlocked'
  BY <1>1 DEF FilesStayUnlocked
<1> QED
  BY <1>2, <1>3, <1>4, <1>5

LEMMA PublishKeeps ==
  ASSUME ScopeInv, NEW ann \in Annotations, PublishRevisionRequest(ann)
  PROVE  ScopeInv'
<1> USE DEF ScopeInv
<1>1. TypeOK'
  BY ScopeTyped DEF PublishRevisionRequest, TypeOK
<1>2. OpinionLinked' /\ PublishedConfirmed'
  BY DEF PublishRevisionRequest, OpinionLinked, PublishedConfirmed, Active
<1>3. granted' = Scope'
  BY DEF PublishRevisionRequest, Scope, ScopeOf, AttachmentRequirement
<1>4. FilesStayUnlocked'
  BY <1>3 DEF FilesStayUnlocked
<1> QED
  BY <1>1, <1>2, <1>4

LEMMA StutterKeeps ==
  ASSUME ScopeInv, UNCHANGED vars
  PROVE  ScopeInv'
BY DEF ScopeInv, vars, TypeOK, OpinionLinked, Active, PublishedConfirmed, FilesStayUnlocked,
   Scope, ScopeOf, AttachmentRequirement

LEMMA ScopeStep ==
  ASSUME ScopeInv, [Next]_vars
  PROVE  ScopeInv'
BY PresignKeeps, RemoveKeeps, ConfirmKeeps, DeleteKeeps, PresenceKeeps, EndOfRoundKeeps,
   PublishKeeps, StutterKeeps DEF Next, Edit

LEMMA ScopeInvHolds == Spec => []ScopeInv
<1>1. ScopeInv /\ [Next]_vars => ScopeInv'
  BY ScopeStep
<1> QED
  BY <1>1, ScopeInit, PTL DEF Spec

(***************************************************************************)
(* The theorems.                                                           *)
(***************************************************************************)

(* Every column holds a value of its type, whatever the number of rows: a  *)
(* scope is made of requirements, never of the null requirement.           *)
THEOREM TypeCorrect == Spec => []TypeOK
<1>1. ScopeInv => TypeOK
  BY DEF ScopeInv
<1> QED
  BY <1>1, ScopeInvHolds, PTL

(* The opinion link never outlives its attachment, however the candidate   *)
(* confirms, replaces, deletes and unlinks (instructor-attachment.service, *)
(* instructor-application.service).                                        *)
THEOREM OpinionAlwaysLinked == Spec => []OpinionLinked
<1>1. ScopeInv => OpinionLinked
  BY DEF ScopeInv
<1> QED
  BY <1>1, ScopeInvHolds, PTL

(* No annotation on a file outside the opinion loses its effect within the *)
(* round, whatever the candidate deletes or confirms.                      *)
THEOREM FilesUnlockedAllRound == Spec => []FilesStayUnlocked
<1>1. ScopeInv => FilesStayUnlocked
  BY DEF ScopeInv
<1> QED
  BY <1>1, ScopeInvHolds, PTL

(***************************************************************************)
(* The limit, which needs to know that the active attachments are finitely *)
(* many.                                                                   *)
(***************************************************************************)

LimitInv == ActiveFinite /\ LimitHolds

LEMMA FewerActive ==
  ASSUME LimitInv, Active' \subseteq Active
  PROVE  LimitInv'
BY FS_Subset, FS_CardinalityType, ScopeAssumption DEF LimitInv, ActiveFinite, LimitHolds

LEMMA OneMoreActive ==
  ASSUME LimitInv, NEW x, Cardinality(Active) < MaxAttachments, Active' \subseteq Active \cup {x}
  PROVE  LimitInv'
<1>1. /\ IsFiniteSet(Active \cup {x})
      /\ Cardinality(Active \cup {x}) <= Cardinality(Active) + 1
      /\ Cardinality(Active) \in Nat
  BY FS_AddElement, FS_CardinalityType DEF LimitInv, ActiveFinite
<1>2. /\ IsFiniteSet(Active')
      /\ Cardinality(Active') <= Cardinality(Active \cup {x})
  BY <1>1, FS_Subset
<1>3. Cardinality(Active') \in Nat /\ Cardinality(Active \cup {x}) \in Nat
  BY <1>1, <1>2, FS_CardinalityType
<1> QED
  BY <1>1, <1>2, <1>3, ScopeAssumption DEF LimitInv, ActiveFinite, LimitHolds

LEMMA LimitStep ==
  ASSUME ScopeInv, LimitInv, [Next]_vars
  PROVE  LimitInv'
<1> USE DEF ScopeInv
<1>1. ASSUME NEW x \in Attachment, NEW q, PresignAttachment(x, q)
      PROVE  Active' \subseteq Active
  BY <1>1 DEF PresignAttachment, Active, TypeOK, AttachmentRow
<1>2. ASSUME NEW x \in Attachment, RemoveUpload(x)
      PROVE  Active' \subseteq Active
  BY <1>2 DEF RemoveUpload, Active, TypeOK, AttachmentRow
<1>3. ASSUME NEW x \in Attachment, DeleteAttachment(x)
      PROVE  Active' \subseteq Active
  BY <1>3 DEF DeleteAttachment, Active, TypeOK, AttachmentRow
<1>4. ASSUME NEW x \in Attachment, NEW q \in Requirement \cup {NoRequirement}, NEW h \in BOOLEAN,
             ConfirmAttachment(x, q, h)
      PROVE  LimitInv'
  <2>1. Active' \subseteq Active \cup {x}
    BY <1>4, ConfirmRows DEF Active
  <2> QED
    BY <1>4, <2>1, OneMoreActive DEF ConfirmAttachment
<1>5. ASSUME UNCHANGED attachment
      PROVE  Active' \subseteq Active
  BY <1>5 DEF Active
<1>6. \/ \E to \in Presence : UpdatePresence(to)
      \/ Submit
      \/ \E ann \in Annotations : PublishRevisionRequest(ann)
      \/ CancelRevisionRequest
      \/ UNCHANGED vars
      => UNCHANGED attachment
  BY DEF UpdatePresence, Submit, PublishRevisionRequest, CancelRevisionRequest, vars
<1> QED
  BY <1>1, <1>2, <1>3, <1>4, <1>5, <1>6, FewerActive DEF Next, Edit

(* The limit on attachments, counted again under the lock, holds for any   *)
(* number of uploads presigned below it.                                   *)
THEOREM LimitAlwaysHolds == Spec => []LimitHolds
<1>1. Init => LimitInv
  <2>1. Init => Active = {}
    BY DEF Init, Active
  <2> QED
    BY <2>1, FS_EmptySet, ScopeAssumption DEF LimitInv, ActiveFinite, LimitHolds
<1>2. ScopeInv /\ LimitInv /\ [Next]_vars => LimitInv'
  BY LimitStep
<1>3. LimitInv => LimitHolds
  BY DEF LimitInv
<1> QED
  BY <1>1, <1>2, <1>3, ScopeInvHolds, PTL DEF Spec
-------------------------------------------------------------------------------
(***************************************************************************)
(* FixRound: the two comparisons of a round agree, and what disables the   *)
(* button to submit can be done.                                           *)
(*                                                                         *)
(* The argument for the first: an attachment that a page or a snapshot     *)
(* remembers keeps its requirement for ever, deleted or not, because only  *)
(* an upload that was never confirmed gets one.  So each side finds the    *)
(* same owner, on whichever of its two pictures it looks it up.            *)
(***************************************************************************)

(* What was remembered of the files is still true of the rows.             *)
Remembered(p) ==
  /\ DOMAIN p.files \subseteq Attachment
  /\ \A x \in DOMAIN p.files :
       /\ attachment[x].state \in {"ACTIVE", "INACTIVE"}
       /\ attachment[x].requirement = p.files[x]

RoundInv == ScopeInv /\ \A p \in page \cup snapshot : Remembered(p)

(* Every step of a round is a step of CandidateScope or none.              *)
LEMMA RoundStep == [RoundNext]_roundVars => [Next]_vars
BY DEF RoundNext, roundVars, UpdateRequirement, OpenPage, SubmitSnapshot, CancelRound, Next

(* A round of fixes is a run of CandidateScope, for which the link of the  *)
(* opinion, the limit and the unlocked files are proved.                   *)
THEOREM RoundIsScope == RoundSpec => Spec
<1>1. RoundInit => Init BY DEF RoundInit
<1> QED BY <1>1, RoundStep, PTL DEF RoundSpec, Spec

(***************************************************************************)
(* What is remembered stays true.                                          *)
(***************************************************************************)

LEMMA RowsKept ==
  ASSUME ScopeInv, [Next]_vars, NEW x \in Attachment,
         attachment[x].state \in {"ACTIVE", "INACTIVE"}
  PROVE  /\ attachment'[x].state \in {"ACTIVE", "INACTIVE"}
         /\ attachment'[x].requirement = attachment[x].requirement
<1> USE DEF ScopeInv
<1>1. ASSUME NEW y \in Attachment, NEW q, PresignAttachment(y, q)
      PROVE  attachment'[x] = attachment[x]
  BY <1>1 DEF PresignAttachment, TypeOK
<1>2. ASSUME NEW y \in Attachment, RemoveUpload(y)
      PROVE  attachment'[x] = attachment[x]
  BY <1>2 DEF RemoveUpload, TypeOK
<1>3. ASSUME NEW y \in Attachment, NEW q \in Requirement \cup {NoRequirement}, NEW h \in BOOLEAN,
             ConfirmAttachment(y, q, h)
      PROVE  /\ attachment'[x].state \in {"ACTIVE", "INACTIVE"}
             /\ attachment'[x].requirement = attachment[x].requirement
  <2>1. x # y BY <1>3 DEF ConfirmAttachment
  <2> QED BY <1>3, <2>1, ConfirmRows
<1>4. ASSUME NEW y \in Attachment, DeleteAttachment(y)
      PROVE  /\ attachment'[x].state \in {"ACTIVE", "INACTIVE"}
             /\ attachment'[x].requirement = attachment[x].requirement
  BY <1>4 DEF DeleteAttachment, TypeOK, AttachmentRow
<1>5. \/ \E to \in Presence : UpdatePresence(to)
      \/ Submit
      \/ \E ann \in Annotations : PublishRevisionRequest(ann)
      \/ CancelRevisionRequest
      \/ UNCHANGED vars
      => UNCHANGED attachment
  BY DEF UpdatePresence, Submit, PublishRevisionRequest, CancelRevisionRequest, vars
<1> QED BY <1>1, <1>2, <1>3, <1>4, <1>5 DEF Next, Edit

(* The present contents are true of the rows.                              *)
LEMMA PresentRemembered == ASSUME TypeOK PROVE Remembered(Contents)
BY DEF Remembered, Contents, Active, TypeOK

LEMMA RoundInvInit == RoundInit => RoundInv
BY ScopeInit DEF RoundInit, RoundInv

LEMMA RoundInvStep ==
  ASSUME RoundInv, [RoundNext]_roundVars
  PROVE  RoundInv'
<1>1. ScopeInv' BY RoundStep, ScopeStep DEF RoundInv
<1>2. ASSUME NEW p, Remembered(p) PROVE Remembered(p)'
  <2>1. DOMAIN p.files \subseteq Attachment BY <1>2 DEF Remembered
  <2>2. ASSUME NEW x \in DOMAIN p.files
        PROVE  /\ attachment'[x].state \in {"ACTIVE", "INACTIVE"}
               /\ attachment'[x].requirement = p.files[x]
    BY <1>2, <2>1, RoundStep, RowsKept DEF Remembered, RoundInv
  <2> QED BY <2>1, <2>2 DEF Remembered
<1>3. (page \cup snapshot)' \subseteq page \cup snapshot \cup {Contents}
  BY DEF RoundNext, roundVars, UpdateRequirement, OpenPage, SubmitSnapshot, CancelRound
<1>4. \A p \in page \cup snapshot \cup {Contents} : Remembered(p)
  BY PresentRemembered DEF RoundInv, ScopeInv
<1>5. \A p \in (page \cup snapshot)' : Remembered(p)'
  BY <1>2, <1>3, <1>4
<1> QED BY <1>1, <1>5 DEF RoundInv

LEMMA RoundInvHolds == RoundSpec => []RoundInv
<1>1. RoundInv /\ [RoundNext]_roundVars => RoundInv' BY RoundInvStep
<1> QED BY <1>1, RoundInvInit, PTL DEF RoundSpec

(***************************************************************************)
(* The two comparisons.                                                    *)
(***************************************************************************)

(* How the commission groups the files of a picture c whose opinion is not *)
(* filed under a requirement.                                              *)
LEMMA CollectionsOf ==
  ASSUME NEW c, Remembered(c), TypeOK, ~OpinionMisfiled(c)
  PROVE  /\ Collection(c, "HUFCOWY_PRESENCE") = OpinionFile(c)
         /\ Collection(c, NoRequirement) = GeneralFiles(c)
         /\ \A q \in Requirement : Collection(c, q) = FilesOf(c, q)
<1>1. \A x \in DOMAIN c.files : c.files[x] \in Requirement \cup {NoRequirement}
  BY DEF Remembered, TypeOK, AttachmentRow
<1>2. c.opinion \in DOMAIN c.files => c.files[c.opinion] = NoRequirement
  BY <1>1 DEF OpinionMisfiled, FilesOf
<1>3. "HUFCOWY_PRESENCE" \notin Requirement \cup {NoRequirement} BY RoundAssumption
<1>4. Collection(c, "HUFCOWY_PRESENCE") = OpinionFile(c)
  BY <1>1, <1>2, <1>3 DEF Collection, Owner, OpinionFile, FilesOf
<1>5. Collection(c, NoRequirement) = GeneralFiles(c)
  BY <1>3 DEF Collection, Owner, GeneralFiles, FilesOf
<1>6. \A q \in Requirement : Collection(c, q) = FilesOf(c, q)
  BY <1>2, <1>3, ScopeAssumption DEF Collection, Owner, FilesOf
<1> QED BY <1>4, <1>5, <1>6

(* Of an attachment that the page remembers both sides say the same.       *)
LEMMA SameAnswer ==
  ASSUME NEW p, Remembered(p), TypeOK, OpinionLinked,
         ~OpinionMisfiled(p), ~OpinionMisfiled(Contents), NEW x \in DOMAIN p.files
  PROVE  AttachmentsChanged(p, x) <=>
           Collection(p, Owner(p, x)) # Collection(Contents, Owner(p, x))
<1> DEFINE c == Contents
<1>1. Remembered(c) BY PresentRemembered
<1>2. x \in DOMAIN c.files => c.files[x] = p.files[x] BY <1>1 DEF Remembered
<1>3. p.files[x] \in Requirement \cup {NoRequirement}
  BY DEF Remembered, TypeOK, AttachmentRow
<1>4. /\ Collection(p, "HUFCOWY_PRESENCE") = OpinionFile(p)
      /\ Collection(p, NoRequirement) = GeneralFiles(p)
      /\ \A q \in Requirement : Collection(p, q) = FilesOf(p, q)
  BY CollectionsOf
<1>5. /\ Collection(c, "HUFCOWY_PRESENCE") = OpinionFile(c)
      /\ Collection(c, NoRequirement) = GeneralFiles(c)
      /\ \A q \in Requirement : Collection(c, q) = FilesOf(c, q)
  BY <1>1, CollectionsOf
<1> HIDE DEF c
<1>6. Owners(p, x) = {q \in Requirement : q = p.files[x]}
  BY <1>2 DEF Owners, FilesOf, c
<1>7. CASE p.files[x] \in Requirement
  <2>1. x # p.opinion BY <1>7 DEF OpinionMisfiled, FilesOf
  <2>2. Owner(p, x) = p.files[x] BY <2>1 DEF Owner
  <2>3. Owners(p, x) = {p.files[x]} BY <1>6, <1>7
  <2>4. AttachmentsChanged(p, x) <=> FilesOf(p, p.files[x]) # FilesOf(c, p.files[x])
    BY <2>3 DEF AttachmentsChanged, c
  <2> QED BY <1>4, <1>5, <1>7, <2>2, <2>4 DEF c
<1>8. CASE p.files[x] = NoRequirement
  <2>1. Owners(p, x) = {} BY <1>6, <1>8, ScopeAssumption
  <2>2. CASE x = p.opinion
    <3>1. AttachmentsChanged(p, x) <=> OpinionFile(p) # OpinionFile(c)
      BY <2>1, <2>2 DEF AttachmentsChanged, c
    <3> QED BY <1>4, <1>5, <2>2, <3>1 DEF Owner, c
  <2>3. CASE x # p.opinion /\ x = c.opinion
    <3>1. AttachmentsChanged(p, x) <=> OpinionFile(p) # OpinionFile(c)
      BY <2>1, <2>3 DEF AttachmentsChanged, c
    <3>2. x \in GeneralFiles(p) /\ x \notin OpinionFile(p) /\ x \notin GeneralFiles(c)
      BY <1>8, <2>3 DEF GeneralFiles, OpinionFile, FilesOf
    <3>3. Owner(p, x) = NoRequirement BY <1>8, <2>3 DEF Owner
    <3>4. x \in DOMAIN c.files BY <2>3, ScopeAssumption DEF c, Contents, OpinionLinked, Remembered
    <3>5. x \in OpinionFile(c) BY <1>2, <1>8, <2>3, <3>4 DEF OpinionFile, FilesOf
    <3> QED BY <1>4, <1>5, <3>1, <3>2, <3>3, <3>5 DEF c
  <2>4. CASE x # p.opinion /\ x # c.opinion
    <3>1. AttachmentsChanged(p, x) <=> GeneralFiles(p) # GeneralFiles(c)
      BY <2>1, <2>4 DEF AttachmentsChanged, c
    <3> QED BY <1>4, <1>5, <1>8, <2>4, <3>1 DEF Owner, c
  <2> QED BY <2>2, <2>3, <2>4
<1> QED BY <1>3, <1>7, <1>8

(* The candidate's editor and the commission's comparison tell the same of *)
(* each annotation, whatever the candidate did in the round                *)
(* (edit-application-progress.ts, commission-review-change-audit.service). *)
THEOREM SidesAlwaysAgree == RoundSpec => []SidesAgree
<1>1. RoundInv => SidesAgree
  <2> SUFFICES ASSUME RoundInv, status = "TO_FIX", ~OpinionMisfiled(Contents),
                      NEW p \in page \cap snapshot, ~OpinionMisfiled(p)
               PROVE  [Pending(p) EXCEPT !.attachments = @ \ NotComparable(p)]
                        = Unchanged(p, Contents)
    BY DEF SidesAgree
  <2>1. Remembered(p) /\ TypeOK BY DEF RoundInv, ScopeInv
  <2>2. \A x \in published.attachments \cap DOMAIN p.files :
          ~AttachmentsChanged(p, x) <=>
            Collection(p, Owner(p, x)) = Collection(Contents, Owner(p, x))
    BY <2>1, SameAnswer DEF RoundInv, ScopeInv
  <2>3. Pending(p).attachments \ NotComparable(p) = Unchanged(p, Contents).attachments
    BY <2>2 DEF Pending, NotComparable, Unchanged, FilesChanged
  <2>4. Pending(p).presence = Unchanged(p, Contents).presence
    BY DEF Pending, PresenceChanged, Unchanged, ScalarChanged
  <2>5. Pending(p).requirements = Unchanged(p, Contents).requirements
    BY DEF Pending, TextChanged, Unchanged, ScalarChanged
  <2> QED BY <2>3, <2>4, <2>5 DEF Pending, Unchanged
<1> QED BY <1>1, RoundInvHolds, PTL

(***************************************************************************)
(* The fixes that can be made.                                             *)
(***************************************************************************)

(* The API unlocks what the editor leads to, because both find the same    *)
(* owner: an attachment that still waits for its change is still there.    *)
LEMMA ReachedAttachment ==
  ASSUME NEW p, Remembered(p), TypeOK, OpinionLinked, status = "TO_FIX",
         ~OpinionMisfiled(p), ~OpinionMisfiled(Contents),
         opinion # NoAttachment => presence = "ATTACHMENT_OPINION",
         NEW a \in published.attachments, a \in DOMAIN p.files, ~AttachmentsChanged(p, a)
  PROVE  /\ StepOf(p, a) \in Steps
         /\ InputShown(p, a) \/ UploaderHidden(p, a)
<1> DEFINE c == Contents
<1>1. Remembered(c) BY PresentRemembered
<1>2. a \in Attachment /\ a \notin Requirement /\ a # PresenceField
  BY RoundAssumption DEF Remembered, PresenceField
<1>3. attachment[a].requirement = p.files[a] BY DEF Remembered
<1>4. p.files[a] \in Requirement \cup {NoRequirement}
  BY DEF Remembered, TypeOK, AttachmentRow
<1>5. Owners(p, a) = {q \in Requirement : q = p.files[a]}
  BY <1>1 DEF Owners, FilesOf, Remembered
<1>6. CASE p.files[a] \in Requirement
  <2> DEFINE q == p.files[a]
  <2>1. Owners(p, a) = {q} BY <1>5, <1>6
  <2>2. StepOf(p, a) = "requirements" BY <1>2, <2>1 DEF StepOf
  <2>3. FilesOf(p, q) = FilesOf(c, q) BY <2>1 DEF AttachmentsChanged
  <2>4. a \in FilesOf(c, q) BY <2>3 DEF FilesOf
  <2>5. a # opinion BY <1>6, <2>4 DEF OpinionMisfiled, Contents
  <2>6. q \in Scope.files
    BY <1>3, <1>6, <2>5, ScopeAssumption DEF Scope, ScopeOf, AttachmentRequirement
  <2>7. FilesInput(q) \/ UploaderHidden(p, a)
    BY <1>2, <1>6, <2>1, <2>6 DEF FilesInput, UploaderHidden
  <2>8. FilesInput(q) => InputShown(p, a)
    BY <1>2, <2>1, <2>2 DEF InputShown
  <2> QED BY <2>2, <2>7, <2>8 DEF Steps
<1>7. CASE p.files[a] = NoRequirement
  <2>1. Owners(p, a) = {} BY <1>5, <1>7, ScopeAssumption
  <2>2. CASE a \in {c.opinion, p.opinion}
    <3>1. OpinionFile(p) = OpinionFile(c) BY <2>1, <2>2 DEF AttachmentsChanged
    <3>2. a = opinion
      <4>1. CASE a = c.opinion BY <4>1 DEF Contents
      <4>2. CASE a = p.opinion
        <5>1. a \in OpinionFile(p) BY <1>7, <4>2 DEF OpinionFile, FilesOf
        <5> QED BY <3>1, <5>1 DEF OpinionFile, Contents
      <4> QED BY <2>2, <4>1, <4>2
    <3>3. OpinionInput
      BY <1>2, <3>2, ScopeAssumption DEF OpinionInput, Scope, ScopeOf
    <3>4. StepOf(p, a) = "basicInfo" BY <1>2, <2>1, <2>2 DEF StepOf
    <3> QED BY <1>2, <3>3, <3>4 DEF InputShown, Steps
  <2>3. CASE a \notin {c.opinion, p.opinion}
    <3>1. a # opinion BY <2>3 DEF Contents
    <3>2. GeneralInput
      BY <1>3, <1>7, <3>1 DEF GeneralInput, Scope, ScopeOf, AttachmentRequirement
    <3>3. StepOf(p, a) = "summary" BY <1>2, <2>1, <2>3 DEF StepOf
    <3> QED BY <1>2, <3>2, <3>3 DEF InputShown, Steps
  <2> QED BY <2>2, <2>3
<1> QED BY <1>4, <1>6, <1>7

(* Likewise the presence field and the requirements.                       *)
LEMMA ReachedOther ==
  ASSUME NEW p, TypeOK, NEW a,
         \/ a = PresenceField /\ Pending(p).presence
         \/ a \in Pending(p).requirements
  PROVE  StepOf(p, a) \in Steps /\ InputShown(p, a)
<1>1. CASE a = PresenceField /\ Pending(p).presence
  <2>1. a \notin Requirement BY <1>1, RoundAssumption DEF PresenceField
  <2>2. StepOf(p, a) = "basicInfo" \/ StepOf(p, a) = "requirements" BY <1>1, <2>1 DEF StepOf
  <2>3. PresenceInput BY <1>1 DEF PresenceInput, Pending, Scope, ScopeOf
  <2> QED BY <1>1, <2>2, <2>3 DEF InputShown, Steps
<1>2. CASE a \in Pending(p).requirements
  <2>1. a \in published.requirements /\ a \in Requirement
    BY <1>2 DEF Pending, TypeOK, Annotations
  <2>2. StepOf(p, a) = "requirements" BY <2>1 DEF StepOf
  <2>3. TextInput(a) BY <2>1 DEF TextInput, Scope, ScopeOf
  <2> QED BY <2>1, <2>2, <2>3 DEF InputShown, Steps
<1> QED BY <1>1, <1>2

(* What is pending is among what was published.                            *)
LEMMA PendingPublished ==
  ASSUME NEW p, NEW a \in Anchors(Pending(p))
  PROVE  a \in Anchors(published)
BY DEF Anchors, Pending

(* On a page that knew all the annotated attachments every pending fix can *)
(* be made, for any number of requirements and attachments.                *)
THEOREM FixesReachable == RoundSpec => []FixReachable
<1>1. ASSUME RoundInv, status = "TO_FIX", ~OpinionMisfiled(Contents),
             opinion # NoAttachment => presence = "ATTACHMENT_OPINION",
             NEW p \in page, published.attachments \subseteq DOMAIN p.files, ~OpinionMisfiled(p),
             NEW a \in Anchors(Pending(p))
      PROVE  /\ StepOf(p, a) \in PanelGroups(p) /\ ~BadgeDone(p, StepOf(p, a))
             /\ InputShown(p, a) \/ UploaderHidden(p, a)
  <2>1. Remembered(p) /\ TypeOK /\ OpinionLinked BY <1>1 DEF RoundInv, ScopeInv
  <2>2. /\ StepOf(p, a) \in Steps
        /\ InputShown(p, a) \/ UploaderHidden(p, a)
    <3>1. CASE a \in Pending(p).attachments
      <4>1. a \in published.attachments /\ ~AttachmentsChanged(p, a) BY <3>1 DEF Pending
      <4> QED BY <1>1, <2>1, <4>1, ReachedAttachment
    <3>2. CASE a \notin Pending(p).attachments
      <4>1. \/ a = PresenceField /\ Pending(p).presence
            \/ a \in Pending(p).requirements
        BY <3>2 DEF Anchors
      <4> QED BY <2>1, <4>1, ReachedOther
    <3> QED BY <3>1, <3>2
  <2>3. a \in Cards(p, StepOf(p, a)) BY PendingPublished DEF Cards
  <2>4. a \notin ChangedCards(p, StepOf(p, a)) BY DEF ChangedCards
  <2> QED BY <2>2, <2>3, <2>4 DEF PanelGroups, BadgeDone
<1>2. RoundInv => FixReachable BY <1>1 DEF FixReachable
<1> QED BY <1>2, RoundInvHolds, PTL
=============================================================================
