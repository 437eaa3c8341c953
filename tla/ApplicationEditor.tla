-------------------------- MODULE ApplicationEditor --------------------------
(***************************************************************************)
(* The form in which a candidate writes an application: what they typed,   *)
(* the draft and the row of a requirement that the page shows, what the    *)
(* page believes to be saved, and what the server holds.                   *)
(*                                                                         *)
(* Leaving a step saves its fields, asks the server for the application    *)
(* where the code does, validates and only then moves.  A row saves itself *)
(* while one types, and once more when it goes.  Every answer of the       *)
(* server is a step of its own, and the page can be used while it waits.   *)
(*                                                                         *)
(* The fields are in step 0 or in step 1 (and step 2, which works like it, *)
(* is left out); the requirement is one, because each row saves only       *)
(* itself.  Any of them may have to be filled.  One field of step 0 may be *)
(* the presence of the hufcowy, which an upload of his opinion saves too.  *)
(***************************************************************************)
EXTENDS Naturals, Functions

CONSTANTS
  Field,     \* the fields of steps 0 and 1
  Required,  \* what must not be blank: of them, and of the requirement, "row"
  FieldText, \* what one may fill in, in a field ...
  Opinion,   \* (the presence for which an opinion is attached, ATTACHMENT_OPINION)
  RowText    \* ... and in the row

ASSUME EditorAssumption == "row" \notin Field /\ Opinion \in FieldText

VARIABLES
  form,    \* what each field is: one of step 0, the presence there, or one of step 1
  server,  \* the fields and the requirement, as the API last stored them
  app,     \* the draft: appRef, the state of the page
  saved,   \* persistedAppRef
  row,     \* the mounted row of the requirement
  patches, \* the row's PATCH requests that are under way
  upload,  \* where uploads and deletions of attachments are
  nav,     \* the step and what navigateTo is waiting for
  typed    \* what the candidate typed last, or "any" once that met a case
           \* which the code does not handle

vars == <<form, server, app, saved, row, patches, upload, nav, typed>>
-----------------------------------------------------------------------------
Texts(f) == {"blank"} \cup (IF f = "row" THEN RowText ELSE FieldText)
Value == {"blank"} \cup FieldText \cup RowText
Input == Field \cup {"row"}
Step  == {0, 1, 3, 4}
Presence == {f \in Field : form[f] = "presence"}
StepOf(f) == CASE f = "row" -> 3
               [] f \in Field /\ form[f] = "history" -> 1
               [] OTHER -> 0
Application == [Input -> Value]

(* The text, whether it was typed in since the focus came to it, pendingRef *)
(* with its payload, which is always the text, and the timer of the        *)
(* debounce.  Without the row it is blank.                                 *)
Row == [local: Value, typing: BOOLEAN, pending: BOOLEAN, timer: BOOLEAN]
Phase == {"still", "patch", "patched", "flush", "fetch", "land", "submit", "submitted"}
(* The step that is shown, and the call of navigateTo under way: the step  *)
(* it started from, its target, the data it sends or received, the fields  *)
(* that it sends, and those that were typed in since it began.             *)
Navigation == [step: Step, phase: Phase, from: Step, target: Step, skip: BOOLEAN,
               data: Application, sent: SUBSET Field, late: SUBSET Field]
Nothing == [f \in Input |-> "blank"]
Still(step) == [step |-> step, phase |-> "still", from |-> step, target |-> step, skip |-> FALSE,
                data |-> Nothing, sent |-> {}, late |-> {}]

Mount(text) == [local |-> text, typing |-> FALSE, pending |-> FALSE, timer |-> FALSE]
RowIn(step, text) == Mount(IF step = 3 THEN text ELSE "blank")

(* The page opens on the first step, or on the one that ?step= names.      *)
Init ==
  /\ form \in [Field -> {"basic", "presence", "history"}]
  /\ \A f, g \in Presence : f = g
  /\ server \in {a \in Application : \A f \in Input : a[f] \in Texts(f)}
  /\ app = server /\ saved = Restrict(server, Field) /\ typed = server
  /\ patches = {} /\ upload = {}
  /\ \E step \in Step : nav = Still(step) /\ row = RowIn(step, server.row)

FieldsOf(step) == {f \in Field : StepOf(f) = step}
With(a, b, F) == [f \in DOMAIN a |-> IF f \in F THEN b[f] ELSE a[f]]
Lose(F) == [f \in DOMAIN typed |-> IF f \in F THEN "any" ELSE typed[f]]
Refused(f, v) == f \in Required /\ v = "blank"
Saving == nav.phase # "still"
Open   == nav.phase \notin {"submit", "submitted"}
-----------------------------------------------------------------------------
(* What the page takes the server to have of a field, or will when the     *)
(* answer to the PATCH that stored it comes.                               *)
Believed(f) == IF nav.phase = "patched" /\ f \in nav.sent THEN nav.data[f] ELSE saved[f]

(* updateDraft: a field of the step that is shown.  A text that the page   *)
(* believes to be saved is not sent, though the server may have another.   *)
TypeField ==
  /\ Open
  /\ \E f \in FieldsOf(nav.step) :
       /\ \E v \in Texts(f) \ {app[f]} :
            /\ app' = [app EXCEPT ![f] = v]
            /\ typed' = [typed EXCEPT ![f] = IF v = Believed(f) /\ v # server[f] THEN "any" ELSE v]
       /\ nav' = [nav EXCEPT !.late = IF Saving THEN @ \cup {f} ELSE @]
  /\ UNCHANGED <<form, server, saved, row, patches, upload>>

(* Mutant: only what save has noted is sent.                               *)
PendingPatch(pending, local, req) == IF ~Refused("row", local) /\ pending THEN {local} ELSE {}

(* flush in its lenient mode, with the closure of a rendering that had the *)
(* text local and the stored text req: PATCH what is pending or differs,   *)
(* unless a blank is refused.                                              *)
LenientPatch(pending, local, req) ==
  IF ~Refused("row", local) /\ (pending \/ local # req) THEN {local} ELSE {}

(* What the row will still send: on leaving the text, or as it is.         *)
Unsent(step, r, d) == step = 3 /\ ~Refused("row", r.local) /\ (r.typing \/ r.pending \/ r.local # d.row)

(* The text typed last is lost when the server has another, no request is  *)
(* under way, and nothing is left to send.                                 *)
Settled(last, s, under, unsent) ==
  IF under = {} /\ s.row # last.row /\ ~unsent THEN [last EXCEPT !.row = "any"] ELSE last

(* Every change of the text replaces the row's flush; the cleanup of the   *)
(* old one saves the text as it was before.                                *)
TypeRow ==
  /\ Open /\ nav.step = 3
  /\ \E v \in Texts("row") \ {row.local} :
       /\ row' = [Mount(v) EXCEPT !.typing = TRUE]
       /\ patches' = patches \cup LenientPatch(row.pending, row.local, app.row)
       /\ typed' = [typed EXCEPT !.row = IF Refused("row", v) THEN "any" ELSE v]
  /\ UNCHANGED <<form, server, app, saved, upload, nav>>

(* The select saves the new value first, so the old flush finds it         *)
(* pending, unless a text is missing.                                      *)
SelectRow ==
  /\ Open /\ nav.step = 3 /\ ~row.typing
  /\ \E v \in Texts("row") \ {row.local} :
       /\ ~Refused("row", row.local) /\ ~Refused("row", v)
       /\ row' = Mount(v)
       /\ patches' = patches \cup {v}
       /\ typed' = [typed EXCEPT !.row = v]
  /\ UNCHANGED <<form, server, app, saved, upload, nav>>

Blur ==
  /\ Open /\ nav.step = 3
  /\ row' = [row EXCEPT !.typing = FALSE, !.pending = TRUE, !.timer = TRUE]
  /\ UNCHANGED <<form, server, app, saved, patches, upload, nav, typed>>

Debounce ==
  /\ nav.step = 3 /\ row.timer
  /\ row' = [row EXCEPT !.pending = FALSE, !.timer = FALSE]
  /\ patches' = patches \cup {row.local}
  /\ UNCHANGED <<form, server, app, saved, upload, nav, typed>>

(* A PATCH of the row arrives, in any order, or fails; a submitted         *)
(* application refuses it.  Nothing repeats the one that failed or was     *)
(* overtaken.                                                              *)
PatchArrives ==
  \E v \in patches :
    /\ patches' = patches \ {v}
    /\ \/ /\ nav.phase # "submitted"
          /\ server' = [server EXCEPT !.row = v]
       \/ UNCHANGED server
    /\ typed' = Settled(typed, server', patches', nav.phase = "flush" \/ Unsent(nav.step, row, app))
    /\ UNCHANGED <<form, app, saved, row, upload, nav>>
-----------------------------------------------------------------------------
(* What was typed while navigateTo waited, and is not what the draft d and *)
(* the server have.                                                        *)
Overtaken(d) == {f \in nav.late : d[f] # app[f] \/ d[f] # server[f]}

(* The row is mounted with another text than the one typed last, which the *)
(* draft does not have.                                                    *)
Shown(last, text) == [last EXCEPT !.row = IF last.row = text THEN text ELSE "any"]

(* The page goes to a step with the draft d.  The rows go with their step: *)
(* what is pending is dropped, and the text sent where it differs from the *)
(* draft, which has not seen what the row saved by itself.  What was typed *)
(* since navigateTo began is not sent with its step.                       *)
Show(step, d) ==
  /\ nav' = Still(step)
  /\ app' = d
  /\ row' = RowIn(step, d.row)
  /\ patches' = patches \cup (IF nav.step = 3 THEN LenientPatch(FALSE, row.local, app.row) ELSE {})
  /\ LET last == Lose(Overtaken(d))
     IN typed' = IF step = 3 THEN Shown(last, d.row)
                 ELSE Settled(last, server, patches', ~row.pending /\ ~row.typing)

(* The page stays with the draft d.  Only what the server sent replaces    *)
(* what was typed since; and a new stored text resets the row, after the   *)
(* cleanups of its flush have sent what was there.                         *)
Stay(d) ==
  LET last == IF nav.phase = "land" THEN Lose(Overtaken(d)) ELSE typed IN
  /\ nav' = Still(nav.step)
  /\ app' = d
  /\ IF nav.step = 3 /\ d.row # app.row
     THEN /\ patches' = patches \cup LenientPatch(row.pending, row.local, app.row)
                                \cup LenientPatch(FALSE, row.local, d.row)
          /\ row' = Mount(d.row) /\ typed' = Shown(last, d.row)
     ELSE typed' = last /\ UNCHANGED <<patches, row>>

(* getMissingFieldsForStep and findFirstInvalidStepInRange.                *)
Missing(step, d) == {f \in DOMAIN d : StepOf(f) = step /\ Refused(f, d[f])}
(* The opinion itself may be missing as well, which is an attachment.      *)
Lacking(d) == {{}} \cup {{0} : f \in {g \in Presence : d[g] = Opinion}}
InvalidSteps(from, to, d, lacking) ==
  {s \in Step : from <= s /\ s < to /\ (Missing(s, d) # {} \/ s \in lacking)}

(* Mutant: an off-by-one in the target.                                    *)
FinishOneFurther(from, target, skip, d) ==
  IF from < target /\ ~skip /\ InvalidSteps(from, target, d, {}) # {} THEN Stay(d) ELSE Show(target + 1, d)

(* The end of navigateTo with the draft d: validate when going forward,    *)
(* and move to the target or to the first invalid step.                    *)
Finish(from, target, skip, d) ==
  \E lacking \in Lacking(d) :
    LET invalid == IF from < target /\ ~skip THEN InvalidSteps(from, target, d, lacking) ELSE {}
        goal == IF invalid = {} THEN target
                ELSE CHOOSE s \in invalid : \A t \in invalid : s <= t
    IN IF goal = nav.step THEN Stay(d) ELSE Show(goal, d)

(* Mutant: persistedAppRef follows the draft.                              *)
ChangedFromDraft(F) == {f \in F : app[f] # app[f]}

(* getChangedPatchData: what differs from what the page believes saved.    *)
Changed(F) == {f \in F : app[f] # saved[f]}

(* The wait of navigateTo for an answer.                                   *)
Await(phase, target, skip) ==
  nav' = [nav EXCEPT !.phase = phase, !.from = nav.step, !.target = target, !.skip = skip,
                     !.data = IF phase = "fetch" THEN Nothing ELSE [app EXCEPT !.row = row.local],
                     !.sent = IF phase = "patch" THEN Changed(FieldsOf(nav.step)) ELSE {}]
Fetches(from, target) == from = 3 \/ (from = 0 /\ target > 0)
Fetch == nav' = [nav EXCEPT !.phase = "fetch", !.data = Nothing, !.sent = {}]

(* navigateTo from a step of fields: PATCH what has changed.               *)
LeaveFields(target, skip) ==
  /\ nav.step <= 1
  /\ IF Changed(FieldsOf(nav.step)) # {}
     THEN Await("patch", target, skip) /\ UNCHANGED <<app, row, patches, typed>>
     ELSE IF Fetches(nav.step, target)
     THEN Await("fetch", target, skip) /\ UNCHANGED <<app, row, patches, typed>>
     ELSE Finish(nav.step, target, skip, app)

(* ... from the requirements: flush the row, strictly when going forward   *)
(* and leniently when going back.                                          *)
LeaveRows(target) ==
  /\ nav.step = 3
  /\ UNCHANGED <<app, patches, typed>>
  /\ IF Refused("row", row.local) /\ target > 3          \* RequirementValidationError
     THEN row' = [row EXCEPT !.timer = FALSE] /\ UNCHANGED nav
     ELSE /\ row' = Mount(row.local)
          /\ Await(IF LenientPatch(row.pending, row.local, app.row) # {} THEN "flush" ELSE "fetch",
                   target, FALSE)

(* ... and from where there is nothing to save, or with the panel of fixes *)
(* that asks not to.                                                       *)
LeaveAtOnce(target, skip) ==
  /\ nav.step = 4 \/ (nav.step = 3 /\ skip)
  /\ Finish(nav.step, target, skip, app)

NavigateTo ==
  /\ nav.phase = "still" /\ ~row.typing     \* a click takes the focus from the text
  /\ \E target \in Step \ {nav.step}, skip \in BOOLEAN :
       \/ LeaveFields(target, skip) \/ LeaveAtOnce(target, skip)
       \/ ~skip /\ LeaveRows(target)
  /\ UNCHANGED <<form, server, saved, upload>>

(* The server stores the PATCH of the fields, and then the page learns it. *)
PatchStored ==
  /\ nav.phase = "patch"
  /\ server' = With(server, nav.data, nav.sent)
  /\ nav' = [nav EXCEPT !.phase = "patched"]
  /\ UNCHANGED <<form, app, saved, row, patches, upload, typed>>

PatchAnswered ==
  /\ nav.phase = "patched"
  /\ saved' = With(saved, nav.data, nav.sent)
  /\ IF Fetches(nav.from, nav.target)
     THEN Fetch /\ UNCHANGED <<app, row, patches, typed>>
     ELSE Finish(nav.from, nav.target, nav.skip, app)
  /\ UNCHANGED <<form, server, upload>>

(* The answer to the PATCH of the row; an error is thrown when the flush   *)
(* was strict only.  A text that the draft has is not sent again.          *)
FlushAnswered ==
  /\ nav.phase = "flush"
  /\ \/ /\ server' = [server EXCEPT !.row = nav.data.row]
        /\ Fetch
        /\ typed' = IF nav.step = 3 /\ row.local = nav.data.row THEN typed
                    ELSE Settled(typed, server', patches, Unsent(nav.step, row, app))
     \/ /\ server' \in {server, [server EXCEPT !.row = nav.data.row]}
        /\ IF nav.target > 3 THEN nav' = Still(nav.step) ELSE Fetch
        /\ typed' = Settled(typed, server', patches, Unsent(nav.step, row, app))
  /\ UNCHANGED <<form, app, saved, row, patches, upload>>

(* The GET of the application: the server reads it, then the page replaces *)
(* its draft by it.                                                        *)
FetchRead ==
  /\ nav.phase = "fetch"
  /\ nav' = [nav EXCEPT !.phase = "land", !.data = server]
  /\ UNCHANGED <<form, server, app, saved, row, patches, upload, typed>>

FetchLands ==
  /\ nav.phase = "land"
  /\ saved' = Restrict(nav.data, Field)
  /\ Finish(nav.from, nav.target, nav.skip, nav.data)
  /\ UNCHANGED <<form, server, upload>>

(* The draft of these has what the page believes saved, and the server     *)
(* something else.                                                         *)
Strayed(believed) == {f \in Field : app[f] = believed[f] /\ app[f] # server[f]}

(* A request of navigateTo fails, before or after it took effect: the page *)
(* shows an error and stays.                                               *)
SaveFails ==
  /\ nav.phase \in {"patch", "patched", "fetch", "land"}
  /\ nav' = Still(nav.step)
  /\ typed' = Lose(Strayed(saved))
  /\ UNCHANGED <<form, server, app, saved, row, patches, upload>>

(* The step of the URL wins over the step of the page, and saves nothing.  *)
UrlChanges ==
  /\ Open
  /\ \E step \in Step \ {nav.step} :
       /\ nav' = IF Saving THEN [nav EXCEPT !.step = step] ELSE Still(step)
       /\ patches' = patches \cup (IF nav.step = 3 THEN LenientPatch(FALSE, row.local, app.row) ELSE {})
       /\ row' = RowIn(step, app.row)
       /\ LET left == Lose({f \in Field : app[f] # server[f]} \cup nav.late
                           \cup (IF nav.step = 3 /\ row.local # server.row THEN {"row"} ELSE {}))
          IN typed' = IF step = 3 THEN Shown(left, app.row) ELSE left
  /\ UNCHANGED <<form, server, app, saved, upload>>
-----------------------------------------------------------------------------
(* handleUpload and handleDelete of an attachment: of a requirement, a     *)
(* general one, or the opinion, whose uploader is there while the draft    *)
(* has the presence for it.  Each stands for one or more under way, also   *)
(* after their step is left.                                               *)
StartUpload ==
  /\ Open /\ nav.step # 1
  /\ nav.step = 0 => \A f \in Presence : app[f] = Opinion
  /\ upload' = upload \cup {"file"}
  /\ UNCHANGED <<form, server, app, saved, row, patches, nav, typed>>

(* handleBeforeHufcowyPresenceUpload and persistDraftPatch: an upload of   *)
(* the opinion first sends the presence, if it is not believed saved.      *)
StartOpinion ==
  /\ Open /\ nav.step = 0
  /\ \E f \in Presence : app[f] = Opinion /\ saved[f] # Opinion
  /\ upload' = upload \cup {"sent"}
  /\ UNCHANGED <<form, server, app, saved, row, patches, nav, typed>>

(* One of the uploads at "from" goes on to "to".                           *)
Moves(from, to) ==
  /\ from \in upload
  /\ \E rest \in {upload, upload \ {from}} : upload' = rest \cup to

(* The server stores the presence, though another may have been chosen by  *)
(* then; a submitted application refuses it.                               *)
OpinionStored ==
  /\ Moves("sent", {"stored"}) /\ nav.phase # "submitted"
  /\ server' = [f \in DOMAIN server |-> IF f \in Presence THEN Opinion ELSE server[f]]
  /\ typed' = Lose({f \in Presence : app[f] # Opinion})
  /\ UNCHANGED <<form, app, saved, row, patches, nav>>

(* Its answer comes: the page believes it saved, and uploads the file.     *)
OpinionAnswered ==
  /\ Moves("stored", {"file"})
  /\ saved' = [f \in Field |-> IF f \in Presence THEN Opinion ELSE saved[f]]
  /\ typed' = Lose(Presence \cap Strayed(saved'))
  /\ UNCHANGED <<form, server, app, row, patches, nav>>

(* The request fails, or its answer is lost: an error, and no upload.      *)
OpinionFails ==
  /\ Moves("sent", {}) \/ Moves("stored", {})
  /\ UNCHANGED <<form, server, app, saved, row, patches, nav, typed>>

(* replaceHufcowyPresenceAttachments and its likes: the new list goes into *)
(* the draft, and the whole draft counts as saved.                         *)
AttachmentsReplaced(draft) == Restrict(draft, Field)

FinishUpload ==
  /\ Moves("file", {})
  /\ \/ /\ saved' = AttachmentsReplaced(app)
        /\ typed' = Lose({f \in Field : app[f] # server[f]})
     \/ UNCHANGED <<saved, typed>>
  /\ UNCHANGED <<form, server, app, row, patches, nav>>

(* The dialog of the button covers the page until the answer, which is     *)
(* positive when nothing is missing.                                       *)
Submit ==
  /\ nav.phase = "still" /\ nav.step = 4
  /\ nav' = [nav EXCEPT !.phase = "submit"]
  /\ UNCHANGED <<form, server, app, saved, row, patches, upload, typed>>

SubmitAnswered ==
  /\ nav.phase = "submit"
  /\ \/ /\ \A f \in DOMAIN server : ~Refused(f, server[f])
        /\ nav' = [nav EXCEPT !.phase = "submitted"]
        /\ typed' = IF patches # {} THEN Lose({"row"}) ELSE typed
     \/ /\ nav' = Still(nav.step)
        /\ UNCHANGED typed
  /\ UNCHANGED <<form, server, app, saved, row, patches, upload>>
-----------------------------------------------------------------------------
Next ==
  \/ TypeField \/ TypeRow \/ SelectRow \/ Blur \/ Debounce \/ PatchArrives
  \/ NavigateTo \/ UrlChanges
  \/ PatchStored \/ PatchAnswered \/ FlushAnswered \/ FetchRead \/ FetchLands \/ SaveFails
  \/ StartUpload \/ StartOpinion \/ OpinionStored \/ OpinionAnswered \/ OpinionFails \/ FinishUpload
  \/ Submit \/ SubmitAnswered

Spec == Init /\ [][Next]_vars
-----------------------------------------------------------------------------
TypeOK ==
  /\ form \in [Field -> {"basic", "presence", "history"}]
  /\ {server, app} \subseteq Application
  /\ saved \in [Field -> Value]
  /\ typed \in [Input -> Value \cup {"any"}]
  /\ row \in Row /\ patches \subseteq Value
  /\ upload \subseteq {"sent", "stored", "file"}
  /\ nav \in Navigation

(* What the candidate typed last is what they submit, but for the cases    *)
(* the code does not handle.                                               *)
SubmittedAsTyped ==
  nav.phase = "submitted" => \A f \in DOMAIN server : typed[f] \in {server[f], "any"}

(* What a field shows is what was typed last: no answer of the server      *)
(* brings an older text back.                                              *)
ShownAsTyped == \A f \in Field : typed[f] \in {app[f], "any"}
=============================================================================
