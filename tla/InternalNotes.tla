---------------------------- MODULE InternalNotes ----------------------------
(***************************************************************************)
(* The notes that the members of the commission write for each other on    *)
(* the application of ReviewWorkflow.  Their handlers take the same lock   *)
(* on its row as those of the review and read its status under it.         *)
(***************************************************************************)
EXTENDS ReviewWorkflow

CONSTANT Note  \* identities of internal notes

VARIABLE note  \* the author of each note, NoMember while it does not exist

deskVars == <<vars, note>>

(* ensureInternalNoteStatusAllowsMutation, under the lock.                 *)
NotesOpen == status = "UNDER_REVIEW"

CreateInternalNote(m, n) ==
  /\ NotesOpen
  /\ note[n] = NoMember
  /\ note' = [note EXCEPT ![n] = m]
  /\ UNCHANGED vars

(* Only its author, not even a moderator.                                  *)
OwnNote(m, n) == note[n] = m

MayChangeNote(m, n) == NotesOpen /\ OwnNote(m, n)

(* The body of a note is not modelled.                                     *)
UpdateInternalNote(m, n) ==
  /\ MayChangeNote(m, n)
  /\ UNCHANGED deskVars

DeleteInternalNote(m, n) ==
  /\ MayChangeNote(m, n)
  /\ note' = [note EXCEPT ![n] = NoMember]
  /\ UNCHANGED vars

(* The notes go with the row of their application.                         *)
NotesCascade == note' = IF status' = "DELETED" THEN [n \in Note |-> NoMember] ELSE note

DeskInit == Init /\ note = [n \in Note |-> NoMember]

DeskNext ==
  \/ Next /\ NotesCascade
  \/ \E m \in Member : \E n \in Note :
       \/ CreateInternalNote(m, n)
       \/ UpdateInternalNote(m, n)
       \/ DeleteInternalNote(m, n)

DeskSpec == DeskInit /\ [][DeskNext]_deskVars
DeskFairSpec == DeskSpec /\ CleanupFairness
=============================================================================
