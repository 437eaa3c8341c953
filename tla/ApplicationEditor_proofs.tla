---------------------- MODULE ApplicationEditor_proofs ----------------------
(***************************************************************************)
(* What a candidate typed is what the page shows and what they submit, for *)
(* any fields and any texts, outside the cases the code does not handle.   *)
(*                                                                         *)
(* The argument for a field: what differs from what the page believes      *)
(* saved is sent on leaving its step, so a field that is not on the page,  *)
(* or of which the page believes that it is saved, is on the server; a     *)
(* draft that an answer brings is what the server had, and a field changes *)
(* there while it is under way only where the candidate typed meanwhile or *)
(* chose another presence than an upload sends.  For the row: when no      *)
(* request of its own is under way, the server has its text or the row     *)
(* still has something to send.                                            *)
(***************************************************************************)
EXTENDS ApplicationEditor, TLAPS

Typed == [Input -> Value \cup {"any"}]
Forms == [Field -> {"basic", "presence", "history"}]

(* The fields that the page is done with: not shown, or not being sent,    *)
(* and not typed in since navigateTo began.                                *)
Done(f) ==
  \/ nav.phase = "still" /\ StepOf(f) # nav.step
  \/ nav.phase = "patch" /\ f \notin nav.late /\ (f \notin nav.sent \/ StepOf(f) # nav.step)
  \/ nav.phase \notin {"still", "patch"} /\ f \notin nav.late

FieldKept(f) ==
  /\ typed[f] \in {app[f], "any"}
  /\ app[f] = Believed(f) \/ Done(f) => typed[f] \in {server[f], "any"}
  /\ nav.phase \in {"patch", "patched"} /\ f \in nav.sent /\ f \notin nav.late => nav.data[f] = app[f]
  /\ nav.phase = "land" /\ f \notin nav.late => typed[f] \in {nav.data[f], "any"}
  /\ f \in nav.late => StepOf(f) = nav.step \/ typed[f] = "any"

RowKept ==
  /\ nav.step = 3 => typed.row \in {row.local, "any"}
  /\ nav.step # 3 => row = Mount("blank")
  /\ nav.step = 3 /\ Refused("row", row.local) => typed.row = "any" \/ row.local = app.row
  /\ patches = {} =>
       typed.row \in {server.row, "any"} \/ nav.phase = "flush" \/ Unsent(nav.step, row, app)

NavKept ==
  /\ nav.phase \in {"submit", "submitted"} => nav.step = 4
  /\ nav.phase \in {"still", "submit", "submitted"} => nav.late = {}
  /\ nav.phase = "submitted" => typed.row \in {server.row, "any"}

Inv == TypeOK /\ (\A f \in Field : FieldKept(f)) /\ RowKept /\ NavKept
-----------------------------------------------------------------------------
(* The operators of the model.                                             *)

LEMMA InputFacts ==
  /\ "row" \in Input /\ "row" \notin Field
  /\ \A f \in Field : f \in Input /\ f # "row"
  /\ "blank" \in Value /\ Texts("row") \subseteq Value
  /\ \A f \in Field : Texts(f) \subseteq Value
BY EditorAssumption DEF Input, Value, Texts

LEMMA RowSet ==
  ASSUME NEW a \in Application, NEW v \in Value
  PROVE  /\ [a EXCEPT !.row = v] \in Application
         /\ [a EXCEPT !.row = v].row = v
         /\ \A f \in Field : [a EXCEPT !.row = v][f] = a[f]
BY InputFacts DEF Application

LEMMA RowTyped ==
  ASSUME NEW a \in Typed, NEW v \in Value \cup {"any"}
  PROVE  /\ [a EXCEPT !.row = v] \in Typed
         /\ [a EXCEPT !.row = v].row = v
         /\ \A f \in Field : [a EXCEPT !.row = v][f] = a[f]
BY InputFacts DEF Typed

LEMMA StillTyped ==
  ASSUME NEW step \in Step
  PROVE  /\ Still(step) \in Navigation /\ Still(step).phase = "still" /\ Still(step).step = step
         /\ Still(step).late = {}
BY InputFacts DEF Still, Nothing, Navigation, Phase, Application

LEMMA MountTyped ==
  ASSUME NEW text \in Value
  PROVE  /\ Mount(text) \in Row /\ Mount(text).local = text
         /\ Mount(text).typing = FALSE /\ Mount(text).pending = FALSE
BY DEF Mount, Row

LEMMA RowInTyped == ASSUME NEW step, NEW text \in Value PROVE RowIn(step, text) \in Row
BY InputFacts, MountTyped DEF RowIn

LEMMA LoseTyped ==
  ASSUME typed \in Typed, NEW F \in SUBSET Input
  PROVE  /\ Lose(F) \in Typed
         /\ \A f \in Input : Lose(F)[f] = IF f \in F THEN "any" ELSE typed[f]
         /\ Lose(F).row = IF "row" \in F THEN "any" ELSE typed.row
BY InputFacts DEF Lose, Typed

LEMMA SettledTyped ==
  ASSUME NEW last \in Typed, NEW s, NEW under, NEW unsent \in BOOLEAN
  PROVE  LET t == Settled(last, s, under, unsent) IN
         /\ t \in Typed /\ t.row \in {last.row, "any"}
         /\ unsent \/ under # {} => t = last
         /\ under = {} /\ ~unsent => t.row \in {s.row, "any"}
         /\ \A f \in Field : t[f] = last[f]
<1>1. CASE under = {} /\ s.row # last.row /\ ~unsent
  <2> DEFINE t == [last EXCEPT !.row = "any"]
  <2>1. Settled(last, s, under, unsent) = t BY <1>1 DEF Settled
  <2>2. t \in Typed /\ t.row = "any" /\ \A f \in Field : t[f] = last[f] BY RowTyped
  <2> HIDE DEF t
  <2> QED BY <1>1, <2>1, <2>2
<1>2. CASE ~(under = {} /\ s.row # last.row /\ ~unsent)
  <2>1. Settled(last, s, under, unsent) = last BY <1>2 DEF Settled
  <2> QED BY <1>2, <2>1
<1> QED BY <1>1, <1>2

LEMMA ShownTyped ==
  ASSUME NEW last \in Typed, NEW text
  PROVE  LET t == Shown(last, text) IN
         /\ t \in Typed /\ t.row \in {text, "any"} /\ t.row \in {last.row, "any"}
         /\ \A f \in Field : t[f] = last[f]
<1> DEFINE v == IF last.row = text THEN text ELSE "any"
<1>1. v \in Value \cup {"any"} /\ v \in {text, "any"} /\ v \in {last.row, "any"}
  BY InputFacts DEF Typed
<1>2. Shown(last, text) = [last EXCEPT !.row = v] BY DEF Shown
<1> HIDE DEF v
<1> QED BY <1>1, <1>2, RowTyped

LEMMA WithTyped ==
  ASSUME NEW D, NEW a \in [D -> Value], NEW b, NEW F, \A f \in F : b[f] \in Value
  PROVE  /\ With(a, b, F) \in [D -> Value]
         /\ \A f \in D : With(a, b, F)[f] = IF f \in F THEN b[f] ELSE a[f]
BY DEF With

LEMMA RestrictTyped ==
  ASSUME NEW a \in Application
  PROVE  /\ Restrict(a, Field) \in [Field -> Value]
         /\ \A f \in Field : Restrict(a, Field)[f] = a[f]
BY InputFacts DEF Restrict, Application

LEMMA PatchTyped ==
  ASSUME NEW pending, NEW local \in Value, NEW req
  PROVE  /\ LenientPatch(pending, local, req) \subseteq Value
         /\ LenientPatch(pending, local, req) = {} =>
              Refused("row", local) \/ (~pending /\ local = req)
         /\ local # req /\ ~Refused("row", local) => local \in LenientPatch(pending, local, req)
BY DEF LenientPatch

LEMMA UnsentBoolean == ASSUME NEW step, NEW r, NEW d PROVE Unsent(step, r, d) \in BOOLEAN
BY DEF Unsent

(* What becomes of the fields that are lost.                               *)
LEMMA LoseFields ==
  ASSUME typed \in Typed, NEW F \in SUBSET Field
  PROVE  /\ Lose(F) \in Typed /\ Lose(F).row = typed.row
         /\ \A f \in Field : Lose(F)[f] = IF f \in F THEN "any" ELSE typed[f]
BY LoseTyped, InputFacts DEF Input

LEMMA StepOfTyped == \A f \in Field : StepOf(f) \in {0, 1}
BY InputFacts DEF StepOf

(* The first step with something missing is a step.                        *)
LEMMA FirstInvalid ==
  ASSUME NEW S \in SUBSET Step, S # {}
  PROVE  (CHOOSE s \in S : \A t \in S : s <= t) \in Step
<1>1. \E s \in S : \A t \in S : s <= t
  <2>1. CASE 0 \in S BY <2>1 DEF Step
  <2>2. CASE 0 \notin S /\ 1 \in S BY <2>2 DEF Step
  <2>3. CASE 0 \notin S /\ 1 \notin S /\ 3 \in S BY <2>3 DEF Step
  <2>4. CASE 0 \notin S /\ 1 \notin S /\ 3 \notin S
    <3>1. \A t \in S : t = 4 BY <2>4 DEF Step
    <3> QED BY <3>1
  <2> QED BY <2>1, <2>2, <2>3, <2>4
<1>2. (CHOOSE s \in S : \A t \in S : s <= t) \in S BY <1>1
<1> QED BY <1>2
-----------------------------------------------------------------------------
(* The end of navigateTo.                                                  *)

LEMMA Facts ==
  ASSUME Inv
  PROVE  /\ form \in Forms /\ server \in Application /\ app \in Application
         /\ saved \in [Field -> Value] /\ typed \in Typed /\ row \in Row
         /\ patches \subseteq Value /\ nav \in Navigation /\ upload \subseteq {"sent", "stored", "file"}
         /\ row.local \in Value /\ server.row \in Value /\ app.row \in Value
         /\ nav.step \in Step /\ nav.data \in Application /\ nav.data.row \in Value
         /\ nav.from \in Step /\ nav.target \in Step /\ nav.skip \in BOOLEAN
         /\ nav.sent \subseteq Field /\ nav.late \subseteq Field /\ nav.phase \in Phase
<1>1. /\ form \in Forms /\ server \in Application /\ app \in Application
      /\ saved \in [Field -> Value] /\ typed \in Typed /\ row \in Row
      /\ patches \subseteq Value /\ nav \in Navigation /\ upload \subseteq {"sent", "stored", "file"}
  BY DEF Inv, TypeOK, Typed, Forms
<1>2. /\ nav.step \in Step /\ nav.data \in Application /\ nav.phase \in Phase
      /\ nav.from \in Step /\ nav.target \in Step /\ nav.skip \in BOOLEAN
      /\ nav.sent \subseteq Field /\ nav.late \subseteq Field
  BY <1>1 DEF Navigation
<1>3. row.local \in Value BY <1>1 DEF Row
<1>4. \A a \in Application : a.row \in Value BY InputFacts DEF Application
<1> QED BY <1>1, <1>2, <1>3, <1>4

(* Where the page stays or shows another step, the row is kept; of what    *)
(* was typed since navigateTo began, what the draft does not have is lost  *)
(* where it is not shown any more.                                         *)
Placed(d) ==
  /\ \E step \in Step : nav' = Still(step)
  /\ app' = d
  /\ row' \in Row /\ patches' \subseteq Value /\ typed' \in Typed
  /\ \A f \in Field : typed'[f] \in {typed[f], "any"}
  /\ nav.phase = "land" \/ nav'.step # nav.step => \A f \in Overtaken(d) : typed'[f] = "any"
  /\ RowKept'

LEMMA OvertakenTyped ==
  ASSUME Inv, NEW d
  PROVE  /\ Lose(Overtaken(d)) \in Typed /\ Lose(Overtaken(d)).row = typed.row
         /\ \A f \in Field : Lose(Overtaken(d))[f] \in {typed[f], "any"}
         /\ \A f \in Overtaken(d) : f \in Field /\ Lose(Overtaken(d))[f] = "any"
<1>1. Overtaken(d) \in SUBSET Field BY Facts DEF Overtaken
<1> QED BY <1>1, Facts, LoseFields

LEMMA StayPlaces ==
  ASSUME Inv, NEW d \in Application, Stay(d), server' = server, nav.phase # "flush"
  PROVE  Placed(d)
<1> DEFINE last == IF nav.phase = "land" THEN Lose(Overtaken(d)) ELSE typed
<1>1. nav' = Still(nav.step) /\ nav.step \in Step /\ app' = d /\ nav'.phase = "still"
      /\ nav'.step = nav.step
  BY Facts, StillTyped DEF Stay
<1>2. d.row \in Value BY InputFacts DEF Application
<1>3. /\ last \in Typed /\ last.row = typed.row
      /\ \A f \in Field : last[f] \in {typed[f], "any"}
      /\ nav.phase = "land" => \A f \in Overtaken(d) : f \in Field /\ last[f] = "any"
  BY OvertakenTyped, Facts
<1>4. IF nav.step = 3 /\ d.row # app.row
      THEN /\ patches' = (patches \cup LenientPatch(row.pending, row.local, app.row))
                           \cup LenientPatch(FALSE, row.local, d.row)
           /\ row' = Mount(d.row) /\ typed' = Shown(last, d.row)
      ELSE typed' = last /\ UNCHANGED <<patches, row>>
  BY DEF Stay
<1> HIDE DEF last
<1>5. CASE nav.step = 3 /\ d.row # app.row
  <2>1. /\ patches' = (patches \cup LenientPatch(row.pending, row.local, app.row))
                        \cup LenientPatch(FALSE, row.local, d.row)
        /\ row' = Mount(d.row) /\ typed' = Shown(last, d.row)
    BY <1>4, <1>5
  <2>2. row' \in Row /\ row'.local = d.row BY <1>2, <2>1, MountTyped
  <2>3. patches' \subseteq Value
    <3>1. /\ LenientPatch(row.pending, row.local, app.row) \subseteq Value
          /\ LenientPatch(FALSE, row.local, d.row) \subseteq Value
      BY Facts DEF LenientPatch
    <3> QED BY <2>1, <3>1, Facts
  <2>4. /\ typed' \in Typed /\ typed'.row \in {d.row, "any"} /\ typed'.row \in {typed.row, "any"}
        /\ \A f \in Field : typed'[f] = last[f]
    BY <1>3, <2>1, ShownTyped
  <2>5. ASSUME patches' = {} PROVE typed'.row \in {server'.row, "any"}
    <3>1. LenientPatch(row.pending, row.local, app.row) = {} /\ patches = {}
          /\ LenientPatch(FALSE, row.local, d.row) = {}
      BY <2>1, <2>5
    <3>2. /\ Refused("row", row.local) \/ (~row.pending /\ row.local = app.row)
          /\ Refused("row", row.local) \/ row.local = d.row
      BY <3>1, Facts, PatchTyped
    <3>3. Refused("row", row.local) BY <1>5, <3>2
    <3>4. typed.row \in {server.row, "any"} BY <3>1, <3>3 DEF Inv, RowKept, Unsent
    <3> QED BY <2>4, <3>4
  <2>6. RowKept' BY <1>1, <1>5, <2>2, <2>4, <2>5 DEF RowKept
  <2> QED BY <1>1, <1>3, <2>2, <2>3, <2>4, <2>6 DEF Placed
<1>6. CASE ~(nav.step = 3 /\ d.row # app.row)
  <2>1. typed' = last /\ UNCHANGED <<patches, row>> BY <1>4, <1>6
  <2>2. RowKept' BY <1>1, <1>3, <1>6, <2>1 DEF Inv, RowKept, Unsent, Refused
  <2> QED BY <1>1, <1>3, <2>1, <2>2, Facts DEF Placed
<1> QED BY <1>5, <1>6

LEMMA ShowPlaces ==
  ASSUME Inv, NEW d \in Application, NEW step \in Step, step # nav.step, Show(step, d),
         server' = server, nav.phase # "flush"
  PROVE  Placed(d)
<1> DEFINE last == Lose(Overtaken(d))
           kept == ~row.pending /\ ~row.typing
<1>1. nav' = Still(step) /\ app' = d /\ nav'.phase = "still" /\ nav'.step = step
  BY StillTyped DEF Show
<1>2. d.row \in Value BY InputFacts DEF Application
<1>3. row' = RowIn(step, d.row) /\ row' \in Row BY <1>2, RowInTyped DEF Show
<1>4. (step = 3 => row'.local = d.row) /\ (step # 3 => row' = Mount("blank"))
  BY <1>2, <1>3, InputFacts, MountTyped DEF RowIn
<1>5. /\ last \in Typed /\ last.row = typed.row
      /\ \A f \in Field : last[f] \in {typed[f], "any"}
      /\ \A f \in Overtaken(d) : f \in Field /\ last[f] = "any"
  BY OvertakenTyped
<1>6. /\ typed' = IF step = 3 THEN Shown(last, d.row) ELSE Settled(last, server, patches', kept)
      /\ kept \in BOOLEAN /\ (kept <=> ~row.pending /\ ~row.typing)
  BY DEF Show
<1> HIDE DEF last, kept
<1>7. CASE step = 3
  <2>1. patches' = patches /\ typed' = Shown(last, d.row) BY <1>6, <1>7 DEF Show
  <2>2. /\ typed' \in Typed /\ typed'.row \in {d.row, "any"} /\ typed'.row \in {typed.row, "any"}
        /\ \A f \in Field : typed'[f] = last[f]
    BY <1>5, <2>1, ShownTyped
  <2>3. patches = {} => typed.row \in {server.row, "any"} BY <1>7 DEF Inv, RowKept, Unsent
  <2>4. RowKept' BY <1>1, <1>4, <1>7, <2>1, <2>2, <2>3 DEF RowKept
  <2> QED BY <1>1, <1>3, <1>5, <2>1, <2>2, <2>4, Facts DEF Placed
<1>8. CASE step # 3
  <2>1. typed' = Settled(last, server, patches', kept) BY <1>6, <1>8
  <2>2. /\ typed' \in Typed /\ typed'.row \in {typed.row, "any"}
        /\ \A f \in Field : typed'[f] = last[f]
        /\ patches' = {} /\ ~kept => typed'.row \in {server.row, "any"}
    BY <1>5, <1>6, <2>1, SettledTyped
  <2>3. patches \subseteq patches' /\ patches' \subseteq Value
    <3>1. patches' = patches \cup (IF nav.step = 3 THEN LenientPatch(FALSE, row.local, app.row) ELSE {})
      BY DEF Show
    <3>2. LenientPatch(FALSE, row.local, app.row) \subseteq Value BY Facts DEF LenientPatch
    <3> QED BY <3>1, <3>2, Facts
  <2>4. ASSUME patches' = {} PROVE typed'.row \in {server'.row, "any"}
    <3>1. CASE ~kept BY <2>2, <2>4, <3>1
    <3>2. CASE kept /\ nav.step = 3
      <4>1. LenientPatch(FALSE, row.local, app.row) = {} BY <2>4, <3>2 DEF Show
      <4>2. Refused("row", row.local) \/ row.local = app.row BY <4>1, Facts, PatchTyped
      <4>3. patches = {} BY <2>3, <2>4
      <4>4. typed.row \in {server.row, "any"} BY <1>6, <3>2, <4>2, <4>3 DEF Inv, RowKept, Unsent
      <4> QED BY <2>2, <4>4
    <3>3. CASE nav.step # 3
      <4>1. patches = {} BY <2>3, <2>4
      <4>2. typed.row \in {server.row, "any"} BY <3>3, <4>1 DEF Inv, RowKept, Unsent
      <4> QED BY <2>2, <4>2
    <3> QED BY <1>6, <3>1, <3>2, <3>3
  <2>5. RowKept' BY <1>1, <1>4, <1>8, <2>4 DEF RowKept
  <2> QED BY <1>1, <1>3, <1>5, <2>2, <2>3, <2>5 DEF Placed
<1> QED BY <1>7, <1>8

LEMMA FinishPlaces ==
  ASSUME Inv, NEW d \in Application, NEW from \in Step, NEW target \in Step, NEW skip \in BOOLEAN,
         Finish(from, target, skip, d), server' = server, nav.phase # "flush"
  PROVE  Placed(d)
<1>1. PICK lacking \in Lacking(d) :
        LET invalid == IF from < target /\ ~skip THEN InvalidSteps(from, target, d, lacking) ELSE {}
            goal == IF invalid = {} THEN target
                    ELSE CHOOSE s \in invalid : \A t \in invalid : s <= t
        IN IF goal = nav.step THEN Stay(d) ELSE Show(goal, d)
  BY DEF Finish
<1> DEFINE invalid == IF from < target /\ ~skip THEN InvalidSteps(from, target, d, lacking) ELSE {}
           goal == IF invalid = {} THEN target
                   ELSE CHOOSE s \in invalid : \A t \in invalid : s <= t
<1>2. invalid \in SUBSET Step BY DEF InvalidSteps
<1>3. goal \in Step
  <2> HIDE DEF invalid
  <2> QED BY <1>2, FirstInvalid
<1>4. IF goal = nav.step THEN Stay(d) ELSE Show(goal, d) BY <1>1
<1> HIDE DEF goal
<1> QED BY <1>3, <1>4, StayPlaces, ShowPlaces

(* A page that comes to rest keeps the fields, when those not typed in     *)
(* since are on the server as they were typed, and the others are in the   *)
(* draft unless it comes from the server.                                  *)
LEMMA PlacedInv ==
  ASSUME Inv, NEW d \in Application, Placed(d), form' = form, server' = server,
         upload' = upload, saved' \in [Field -> Value],
         \A f \in Field : f \notin nav.late =>
           typed[f] \in {d[f], "any"} /\ typed[f] \in {server[f], "any"},
         nav.phase = "land" \/ d = app,
         nav.phase # "land" =>
           \A f \in Field : d[f] = saved'[f] => typed[f] \in {server[f], "any"}
  PROVE  Inv'
<1>1. PICK step \in Step : nav' = Still(step) BY DEF Placed
<1>2. nav' \in Navigation /\ nav'.phase = "still" /\ nav'.late = {} /\ nav'.step = step
  BY <1>1, StillTyped
<1>3. TypeOK' BY <1>2, Facts DEF Placed, TypeOK, Typed, Forms
<1>4. ASSUME NEW f \in Field PROVE FieldKept(f)'
  <2>1. /\ app' = d /\ typed'[f] \in {typed[f], "any"} /\ typed[f] \in {app[f], "any"}
        /\ f \in nav.late => StepOf(f) = nav.step \/ typed[f] = "any"
    BY DEF Placed, Inv, FieldKept
  <2>2. StepOf(f)' = StepOf(f) BY DEF StepOf
  <2>3. Believed(f)' = saved'[f] BY <1>2 DEF Believed
  <2>4. Done(f)' <=> StepOf(f) # step BY <1>2, <2>2 DEF Done
  <2>5. CASE f \notin nav.late BY <1>2, <2>1, <2>5 DEF FieldKept
  <2>6. CASE f \in nav.late /\ f \notin Overtaken(d)
    <3>1. d[f] = app[f] /\ d[f] = server[f] BY <2>6 DEF Overtaken
    <3> QED BY <1>2, <2>1, <3>1 DEF FieldKept
  <2>7. CASE f \in Overtaken(d) /\ (nav.phase = "land" \/ step # nav.step)
    <3>1. typed'[f] = "any" BY <1>2, <2>7 DEF Placed
    <3> QED BY <1>2, <3>1 DEF FieldKept
  <2>8. CASE f \in nav.late /\ nav.phase # "land" /\ step = nav.step
    <3>1. d[f] = saved'[f] => typed'[f] \in {server'[f], "any"} BY <2>1, <2>8
    <3>2. StepOf(f) # step => typed'[f] = "any" BY <2>1, <2>8
    <3>3. typed'[f] \in {d[f], "any"} BY <2>1, <2>8
    <3> QED BY <1>2, <2>1, <2>3, <2>4, <3>1, <3>2, <3>3 DEF FieldKept
  <2> QED BY <2>5, <2>6, <2>7, <2>8
<1>5. NavKept' BY <1>2 DEF NavKept
<1> QED BY <1>3, <1>4, <1>5 DEF Inv, Placed
-----------------------------------------------------------------------------
(* Typing, and the requests of the row.                                    *)

LEMMA TypeFieldInv == ASSUME Inv, TypeField PROVE Inv'
<1>1. PICK g \in FieldsOf(nav.step) :
         /\ \E v \in Texts(g) \ {app[g]} :
              /\ app' = [app EXCEPT ![g] = v]
              /\ typed' = [typed EXCEPT ![g] = IF v = Believed(g) /\ v # server[g] THEN "any" ELSE v]
         /\ nav' = [nav EXCEPT !.late = IF Saving THEN nav.late \cup {g} ELSE nav.late]
  BY DEF TypeField
<1>2. PICK v \in Texts(g) \ {app[g]} :
         /\ app' = [app EXCEPT ![g] = v]
         /\ typed' = [typed EXCEPT ![g] = IF v = Believed(g) /\ v # server[g] THEN "any" ELSE v]
  BY <1>1
<1> DEFINE w == IF v = Believed(g) /\ v # server[g] THEN "any" ELSE v
<1>3. g \in Field /\ StepOf(g) = nav.step BY DEF FieldsOf
<1>4. /\ v \in Value /\ w \in Value \cup {"any"} /\ w \in {v, "any"}
      /\ v = Believed(g) => w \in {server[g], "any"}
  BY <1>3, InputFacts
<1>5. /\ app' \in Application /\ app'[g] = v /\ app'.row = app.row
      /\ \A f \in Field : f # g => app'[f] = app[f]
  BY <1>2, <1>3, <1>4, Facts, InputFacts DEF Application
<1>6. /\ typed' \in Typed /\ typed'[g] = w /\ typed'.row = typed.row
      /\ \A f \in Field : f # g => typed'[f] = typed[f]
  <2>1. typed' = [typed EXCEPT ![g] = w] BY <1>2
  <2> HIDE DEF w
  <2> QED BY <1>3, <1>4, <2>1, Facts, InputFacts DEF Typed
<1>7. UNCHANGED <<form, server, saved, row, patches, upload>> /\ Open BY DEF TypeField
<1>8. /\ nav' \in Navigation /\ nav'.step = nav.step /\ nav'.phase = nav.phase
      /\ nav'.data = nav.data /\ nav'.sent = nav.sent
      /\ nav'.late = IF Saving THEN nav.late \cup {g} ELSE nav.late
  <2> DEFINE late == IF Saving THEN nav.late \cup {g} ELSE nav.late
  <2>1. late \in SUBSET Field BY <1>3, Facts
  <2>2. nav' = [nav EXCEPT !.late = late] BY <1>1
  <2> HIDE DEF late
  <2>3. nav'.late = late BY <2>2, Facts DEF Navigation
  <2>4. /\ nav' \in Navigation /\ nav'.step = nav.step /\ nav'.phase = nav.phase
        /\ nav'.data = nav.data /\ nav'.sent = nav.sent
    BY <2>1, <2>2, Facts DEF Navigation
  <2> QED BY <2>3, <2>4 DEF late
<1> HIDE DEF w
<1>9. TypeOK' BY <1>5, <1>6, <1>7, <1>8 DEF Inv, TypeOK, Typed
<1>10. ASSUME NEW f \in Field PROVE FieldKept(f)'
  <2>1. StepOf(f)' = StepOf(f) BY <1>7 DEF StepOf
  <2>2. Believed(f)' = Believed(f) BY <1>7, <1>8 DEF Believed
  <2>3. CASE f # g
    <3>1. f \in nav'.late <=> f \in nav.late BY <1>8, <2>3
    <3>2. Done(f)' <=> Done(f) BY <1>8, <2>1, <3>1 DEF Done
    <3>3. FieldKept(f) BY DEF Inv
    <3> QED BY <1>5, <1>6, <1>7, <1>8, <2>1, <2>2, <2>3, <3>1, <3>2, <3>3 DEF FieldKept
  <2>4. CASE f = g
    <3>1. StepOf(f)' = nav'.step BY <1>3, <1>8, <2>1, <2>4
    <3>2. nav'.phase # "still" => f \in nav'.late BY <1>8, <2>4 DEF Saving
    <3>3. ~Done(f)' BY <3>1, <3>2 DEF Done
    <3>4. typed'[f] \in {app'[f], "any"}
          /\ (app'[f] = Believed(f)' => typed'[f] \in {server'[f], "any"})
      BY <1>4, <1>5, <1>6, <1>7, <2>2, <2>4
    <3> QED BY <3>1, <3>2, <3>3, <3>4 DEF FieldKept
  <2> QED BY <2>3, <2>4
<1>11. RowKept' BY <1>5, <1>6, <1>7, <1>8 DEF Inv, RowKept, Unsent, Refused
<1>12. NavKept' BY <1>7, <1>8 DEF Inv, NavKept, Open, Saving
<1> QED BY <1>9, <1>10, <1>11, <1>12 DEF Inv

(* Whatever becomes of the row, the fields are kept.                       *)
LEMMA FieldsFrame ==
  ASSUME Inv, UNCHANGED <<form, app, saved, nav>>,
         \A f \in Field : server'[f] = server[f] /\ typed'[f] \in {typed[f], "any"}
  PROVE  \A f \in Field : FieldKept(f)'
BY DEF Inv, FieldKept, Done, StepOf, Believed

LEMMA TypeRowInv == ASSUME Inv, TypeRow PROVE Inv'
<1>1. PICK v \in Texts("row") \ {row.local} :
         /\ row' = [Mount(v) EXCEPT !.typing = TRUE]
         /\ patches' = patches \cup LenientPatch(row.pending, row.local, app.row)
         /\ typed' = [typed EXCEPT !.row = IF Refused("row", v) THEN "any" ELSE v]
  BY DEF TypeRow
<1> DEFINE w == IF Refused("row", v) THEN "any" ELSE v
<1>2. v \in Value /\ w \in Value \cup {"any"} BY InputFacts
<1>3. row' \in Row /\ row'.local = v /\ row'.typing = TRUE BY <1>1, <1>2 DEF Mount, Row
<1>4. typed' \in Typed /\ typed'.row = w /\ \A f \in Field : typed'[f] = typed[f]
  <2>1. typed' = [typed EXCEPT !.row = w] BY <1>1
  <2> HIDE DEF w
  <2> QED BY <1>2, <2>1, Facts, RowTyped
<1>5. nav.step = 3 /\ UNCHANGED <<form, server, app, saved, upload, nav>> BY DEF TypeRow
<1>6. patches' \subseteq Value BY <1>1, Facts DEF LenientPatch
<1>7. TypeOK' BY <1>3, <1>4, <1>5, <1>6 DEF Inv, TypeOK, Typed
<1>8. \A f \in Field : FieldKept(f)' BY <1>4, <1>5, FieldsFrame
<1>9. RowKept'
  <2>1. CASE Refused("row", v)
    <3>1. typed'.row = "any" BY <1>4, <2>1
    <3> QED BY <1>3, <1>5, <3>1 DEF RowKept
  <2>2. CASE ~Refused("row", v)
    <3>1. typed'.row = v BY <1>4, <2>2
    <3>2. Unsent(nav.step, row, app)' BY <1>3, <1>5, <2>2 DEF Unsent, Refused
    <3> QED BY <1>3, <1>5, <2>2, <3>1, <3>2 DEF RowKept, Refused
  <2> QED BY <2>1, <2>2
<1>10. NavKept' BY <1>5 DEF Inv, NavKept
<1> QED BY <1>7, <1>8, <1>9, <1>10 DEF Inv

LEMMA SelectRowInv == ASSUME Inv, SelectRow PROVE Inv'
<1>1. PICK v \in Texts("row") \ {row.local} :
         /\ ~Refused("row", v) /\ row' = Mount(v) /\ patches' = patches \cup {v}
         /\ typed' = [typed EXCEPT !.row = v]
  BY DEF SelectRow
<1>2. v \in Value BY InputFacts
<1>3. row' \in Row /\ row'.local = v BY <1>1, <1>2, MountTyped
<1>4. typed' \in Typed /\ typed'.row = v /\ \A f \in Field : typed'[f] = typed[f]
  BY <1>1, <1>2, Facts, RowTyped
<1>5. nav.step = 3 /\ UNCHANGED <<form, server, app, saved, upload, nav>> BY DEF SelectRow
<1>6. patches' \subseteq Value /\ patches' # {} BY <1>1, <1>2, Facts
<1>7. TypeOK' BY <1>3, <1>4, <1>5, <1>6 DEF Inv, TypeOK, Typed
<1>8. \A f \in Field : FieldKept(f)' BY <1>4, <1>5, FieldsFrame
<1>9. RowKept'
  <2>1. ~Refused("row", row'.local) BY <1>1, <1>3
  <2> QED BY <1>3, <1>4, <1>5, <1>6, <2>1 DEF RowKept, Refused
<1>10. NavKept' BY <1>5 DEF Inv, NavKept
<1> QED BY <1>7, <1>8, <1>9, <1>10 DEF Inv

LEMMA BlurInv == ASSUME Inv, Blur PROVE Inv'
<1>1. /\ nav.step = 3 /\ UNCHANGED <<form, server, app, saved, patches, upload, nav, typed>>
      /\ row' = [row EXCEPT !.typing = FALSE, !.pending = TRUE, !.timer = TRUE]
  BY DEF Blur
<1>2. row' \in Row /\ row'.local = row.local /\ row'.typing = FALSE /\ row'.pending = TRUE
  BY <1>1, Facts DEF Row
<1>3. TypeOK' BY <1>1, <1>2 DEF Inv, TypeOK
<1>4. \A f \in Field : FieldKept(f)' BY <1>1, FieldsFrame
<1>5. Unsent(nav.step, row, app) => Unsent(nav.step, row, app)'
  BY <1>1, <1>2 DEF Unsent, Refused
<1>6. RowKept' BY <1>1, <1>2, <1>5 DEF Inv, RowKept, Refused
<1> QED BY <1>1, <1>3, <1>4, <1>6 DEF Inv, NavKept

LEMMA DebounceInv == ASSUME Inv, Debounce PROVE Inv'
<1>1. /\ nav.step = 3 /\ UNCHANGED <<form, server, app, saved, upload, nav, typed>>
      /\ row' = [row EXCEPT !.pending = FALSE, !.timer = FALSE]
      /\ patches' = patches \cup {row.local}
  BY DEF Debounce
<1>2. row' \in Row /\ row'.local = row.local /\ row'.typing = row.typing BY <1>1, Facts DEF Row
<1>3. patches' \subseteq Value /\ patches' # {} BY <1>1, Facts
<1>4. TypeOK' BY <1>1, <1>2, <1>3 DEF Inv, TypeOK
<1>5. \A f \in Field : FieldKept(f)' BY <1>1, FieldsFrame
<1>6. RowKept' BY <1>1, <1>2, <1>3 DEF Inv, RowKept, Refused
<1> QED BY <1>1, <1>4, <1>5, <1>6 DEF Inv, NavKept

LEMMA PatchArrivesInv == ASSUME Inv, PatchArrives PROVE Inv'
<1>1. PICK v \in patches :
    /\ patches' = patches \ {v}
    /\ \/ nav.phase # "submitted" /\ server' = [server EXCEPT !.row = v]
       \/ UNCHANGED server
    /\ typed' = Settled(typed, server', patches', nav.phase = "flush" \/ Unsent(nav.step, row, app))
    /\ UNCHANGED <<form, app, saved, row, upload, nav>>
  BY DEF PatchArrives
<1> DEFINE kept == nav.phase = "flush" \/ Unsent(nav.step, row, app)
<1>2. kept \in BOOLEAN BY UnsentBoolean
<1>3. v \in Value BY <1>1, Facts
<1>4. server' \in Application /\ \A f \in Field : server'[f] = server[f]
  BY <1>1, <1>3, Facts, RowSet
<1>5. /\ typed' \in Typed /\ typed'.row \in {typed.row, "any"}
      /\ patches' = {} /\ ~kept => typed'.row \in {server'.row, "any"}
      /\ \A f \in Field : typed'[f] = typed[f]
  <2>1. typed' = Settled(typed, server', patches', kept) BY <1>1
  <2> HIDE DEF kept
  <2> QED BY <1>2, <2>1, Facts, SettledTyped
<1>6. TypeOK' BY <1>1, <1>4, <1>5 DEF Inv, TypeOK, Typed
<1>7. \A f \in Field : FieldKept(f)' BY <1>1, <1>4, <1>5, FieldsFrame
<1>8. RowKept'
  <2>1. kept => nav'.phase = "flush" \/ Unsent(nav.step, row, app)' BY <1>1 DEF Unsent, Refused
  <2> HIDE DEF kept
  <2> QED BY <1>1, <1>5, <2>1 DEF Inv, RowKept, Refused
<1>9. NavKept' BY <1>1, <1>5 DEF Inv, NavKept
<1> QED BY <1>6, <1>7, <1>8, <1>9 DEF Inv
-----------------------------------------------------------------------------
(* Navigation.                                                             *)

LEMMA AwaitTyped ==
  ASSUME Inv, NEW phase \in Phase, NEW target \in Step, NEW skip \in BOOLEAN,
         Await(phase, target, skip)
  PROVE  /\ nav' \in Navigation /\ nav'.phase = phase /\ nav'.step = nav.step
         /\ nav'.sent = IF phase = "patch" THEN Changed(FieldsOf(nav.step)) ELSE {}
         /\ nav'.late = nav.late
         /\ phase # "fetch" =>
              nav'.data.row = row.local /\ \A f \in Field : nav'.data[f] = app[f]
<1> DEFINE sent == IF phase = "patch" THEN Changed(FieldsOf(nav.step)) ELSE {}
           typing == [app EXCEPT !.row = row.local]
           data == IF phase = "fetch" THEN Nothing ELSE typing
<1>1. sent \subseteq Field BY DEF Changed, FieldsOf
<1>2. typing \in Application /\ typing.row = row.local /\ \A f \in Field : typing[f] = app[f]
  BY Facts, RowSet
<1>3. Nothing \in Application BY InputFacts DEF Nothing, Application
<1>4. data \in Application BY <1>2, <1>3
<1>5. nav' = [nav EXCEPT !.phase = phase, !.from = nav.step, !.target = target, !.skip = skip,
                         !.data = data, !.sent = sent]
  BY DEF Await
<1>6. phase # "fetch" => data = typing OBVIOUS
<1> HIDE DEF sent, data, typing
<1>7. /\ nav' \in Navigation /\ nav'.phase = phase /\ nav'.step = nav.step
      /\ nav'.sent = sent /\ nav'.data = data /\ nav'.late = nav.late
  BY <1>1, <1>4, <1>5, Facts DEF Navigation
<1> QED BY <1>2, <1>6, <1>7 DEF sent

LEMMA FetchTyped ==
  ASSUME Inv, Fetch
  PROVE  /\ nav' \in Navigation /\ nav'.phase = "fetch" /\ nav'.step = nav.step
         /\ nav'.late = nav.late
<1>1. Nothing \in Application BY InputFacts DEF Nothing, Application
<1> QED BY <1>1, Facts DEF Fetch, Navigation, Phase

(* A page that goes on to ask for the application.                         *)
LEMMA FetchingInv ==
  ASSUME Inv, nav' \in Navigation, nav'.phase = "fetch", nav'.step = nav.step, nav'.late = nav.late,
         UNCHANGED <<form, app, patches, upload>>, typed' \in Typed,
         \A f \in Field : typed'[f] = typed[f] /\ server'[f] = server[f],
         server' \in Application, saved' \in [Field -> Value],
         \A f \in Field : app[f] = saved'[f] \/ f \notin nav.late => typed[f] \in {server[f], "any"},
         row' \in Row, RowKept'
  PROVE  Inv'
<1>1. TypeOK' BY DEF Inv, TypeOK, Typed
<1>2. ASSUME NEW f \in Field PROVE FieldKept(f)'
  <2>1. StepOf(f)' = StepOf(f) BY DEF StepOf
  <2>2. Believed(f)' = saved'[f] BY DEF Believed
  <2>3. Done(f)' <=> f \notin nav.late BY DEF Done
  <2>4. FieldKept(f) BY DEF Inv
  <2> QED BY <2>1, <2>2, <2>3, <2>4 DEF FieldKept
<1>3. NavKept' BY DEF NavKept
<1> QED BY <1>1, <1>2, <1>3 DEF Inv

LEMMA StepFacts ==
  ASSUME Inv, nav.phase = "still"
  PROVE  /\ nav.late = {}
         /\ nav.step > 1 => \A f \in Field : typed[f] \in {server[f], "any"}
         /\ \A f \in Field : f \notin FieldsOf(nav.step) => typed[f] \in {server[f], "any"}
         /\ \A f \in Field : f \notin Changed(FieldsOf(nav.step)) =>
              typed[f] \in {server[f], "any"}
<1>1. \A f \in Field : StepOf(f) \in {0, 1} BY StepOfTyped
<1>2. \A f \in Field : f \in FieldsOf(nav.step) <=> StepOf(f) = nav.step BY DEF FieldsOf
<1>3. \A f \in Field : StepOf(f) # nav.step \/ app[f] = saved[f] => typed[f] \in {server[f], "any"}
  BY DEF Inv, FieldKept, Done, Believed
<1>4. nav.late = {} BY DEF Inv, NavKept
<1> QED BY <1>1, <1>2, <1>3, <1>4 DEF Changed

LEMMA LeaveFieldsInv ==
  ASSUME Inv, nav.phase = "still", NEW target \in Step, NEW skip \in BOOLEAN,
         LeaveFields(target, skip), UNCHANGED <<form, server, saved, upload>>
  PROVE  Inv'
<1> DEFINE sent == Changed(FieldsOf(nav.step))
<1>1. CASE sent # {}
  <2>1. Await("patch", target, skip) /\ UNCHANGED <<app, row, patches, typed>>
    BY <1>1 DEF LeaveFields
  <2>2. /\ nav' \in Navigation /\ nav'.phase = "patch" /\ nav'.step = nav.step
        /\ nav'.sent = sent /\ nav'.late = {} /\ \A f \in Field : nav'.data[f] = app[f]
    BY <2>1, AwaitTyped, StepFacts DEF Phase
  <2>3. TypeOK' BY <2>1, <2>2 DEF Inv, TypeOK
  <2>4. ASSUME NEW f \in Field PROVE FieldKept(f)'
    <3>1. f \notin sent \/ StepOf(f) # nav.step => typed[f] \in {server[f], "any"}
      BY StepFacts DEF FieldsOf
    <3>2. /\ typed[f] \in {app[f], "any"}
          /\ app[f] = saved[f] => typed[f] \in {server[f], "any"}
      BY DEF Inv, FieldKept, Believed
    <3> HIDE DEF sent
    <3>3. Believed(f)' = saved[f] BY <2>2 DEF Believed
    <3>4. Done(f)' => f \notin sent \/ StepOf(f) # nav.step BY <2>2 DEF Done, StepOf
    <3> QED BY <2>1, <2>2, <3>1, <3>2, <3>3, <3>4 DEF FieldKept
  <2>5. RowKept' BY <2>1, <2>2 DEF Inv, RowKept, Unsent, Refused
  <2> QED BY <2>2, <2>3, <2>4, <2>5 DEF Inv, NavKept
<1>2. CASE sent = {}
  <2>1. \A f \in Field : typed[f] \in {server[f], "any"} /\ typed[f] \in {app[f], "any"}
    BY <1>2, StepFacts DEF Inv, FieldKept
  <2>2. CASE Fetches(nav.step, target)
    <3>1. Await("fetch", target, skip) /\ UNCHANGED <<app, row, patches, typed>>
      BY <1>2, <2>2 DEF LeaveFields
    <3>2. nav' \in Navigation /\ nav'.phase = "fetch" /\ nav'.step = nav.step /\ nav'.late = nav.late
      BY <3>1, AwaitTyped DEF Phase
    <3>3. RowKept' BY <3>1, <3>2 DEF Inv, RowKept, Unsent, Refused
    <3> QED BY <2>1, <3>1, <3>2, <3>3, FetchingInv, Facts
  <2>3. CASE ~Fetches(nav.step, target)
    <3>1. Finish(nav.step, target, skip, app) BY <1>2, <2>3 DEF LeaveFields
    <3>2. Placed(app) BY <3>1, FinishPlaces, Facts
    <3> QED BY <2>1, <3>2, PlacedInv, Facts
  <2> QED BY <2>2, <2>3
<1> QED BY <1>1, <1>2

LEMMA LeaveAtOnceInv ==
  ASSUME Inv, nav.phase = "still", NEW target \in Step, NEW skip \in BOOLEAN,
         LeaveAtOnce(target, skip), UNCHANGED <<form, server, saved, upload>>
  PROVE  Inv'
<1>1. nav.step > 1 /\ Finish(nav.step, target, skip, app) BY DEF LeaveAtOnce
<1>2. \A f \in Field : typed[f] \in {server[f], "any"} /\ typed[f] \in {app[f], "any"}
  BY <1>1, StepFacts DEF Inv, FieldKept
<1>3. Placed(app) BY <1>1, FinishPlaces, Facts
<1> QED BY <1>2, <1>3, PlacedInv, Facts

LEMMA LeaveRowsInv ==
  ASSUME Inv, nav.phase = "still", ~row.typing, NEW target \in Step,
         LeaveRows(target), UNCHANGED <<form, server, saved, upload>>
  PROVE  Inv'
<1>1. nav.step = 3 /\ UNCHANGED <<app, patches, typed>> BY DEF LeaveRows
<1>2. \A f \in Field : typed[f] \in {server[f], "any"} /\ typed[f] \in {app[f], "any"}
  BY <1>1, StepFacts DEF Inv, FieldKept
<1>3. CASE Refused("row", row.local) /\ target > 3
  <2>1. row' = [row EXCEPT !.timer = FALSE] /\ UNCHANGED nav BY <1>3 DEF LeaveRows
  <2>2. row' \in Row /\ row'.local = row.local /\ row'.typing = row.typing BY <2>1, Facts DEF Row
  <2>3. TypeOK' BY <1>1, <2>1, <2>2 DEF Inv, TypeOK
  <2>4. \A f \in Field : FieldKept(f)' BY <1>1, <2>1, FieldsFrame
  <2>5. ~Unsent(nav.step, row, app) BY <1>3 DEF Unsent
  <2>6. RowKept' BY <1>1, <2>1, <2>2, <2>5 DEF Inv, RowKept, Refused
  <2> QED BY <1>1, <2>1, <2>3, <2>4, <2>6 DEF Inv, NavKept
<1>4. CASE ~(Refused("row", row.local) /\ target > 3)
  <2> DEFINE patch == LenientPatch(row.pending, row.local, app.row)
             phase == IF patch # {} THEN "flush" ELSE "fetch"
  <2>1. row' = Mount(row.local) /\ Await(phase, target, FALSE) BY <1>4 DEF LeaveRows
  <2>2. row' \in Row /\ row'.local = row.local /\ row'.typing = FALSE BY <2>1, Facts, MountTyped
  <2>3. phase \in Phase BY DEF Phase
  <2>4. /\ nav' \in Navigation /\ nav'.phase = phase /\ nav'.step = nav.step
        /\ nav'.late = nav.late
    <3> HIDE DEF phase
    <3> QED BY <2>1, <2>3, AwaitTyped
  <2>5. phase = "fetch" /\ patches = {} => typed.row \in {server.row, "any"}
    <3> SUFFICES ASSUME phase = "fetch", patches = {} PROVE typed.row \in {server.row, "any"}
      OBVIOUS
    <3>1. patch = {} OBVIOUS
    <3>2. Refused("row", row.local) \/ (~row.pending /\ row.local = app.row)
      BY <3>1, Facts, PatchTyped
    <3>3. ~Unsent(nav.step, row, app) BY <3>2 DEF Unsent
    <3> QED BY <3>3 DEF Inv, RowKept
  <2>6. RowKept'
    <3>1. phase \in {"flush", "fetch"} OBVIOUS
    <3> HIDE DEF phase
    <3> QED BY <1>1, <2>2, <2>4, <2>5, <3>1 DEF Inv, RowKept, Refused
  <2>7. CASE phase = "fetch" BY <1>1, <1>2, <2>2, <2>4, <2>6, <2>7, FetchingInv, Facts
  <2>8. CASE phase = "flush"
    <3>1. nav'.phase = "flush" BY <2>4, <2>8
    <3>2. TypeOK' BY <1>1, <2>2, <2>4 DEF Inv, TypeOK
    <3>3. nav'.late = {} BY <2>4, StepFacts
    <3>4. \A f \in Field : FieldKept(f)' BY <1>1, <1>2, <3>1, <3>3 DEF FieldKept
    <3> QED BY <2>6, <3>1, <3>2, <3>4 DEF Inv, NavKept
  <2> QED BY <2>7, <2>8
<1> QED BY <1>3, <1>4

LEMMA NavigateToInv == ASSUME Inv, NavigateTo PROVE Inv'
<1>1. PICK target \in Step \ {nav.step}, skip \in BOOLEAN :
         \/ LeaveFields(target, skip) \/ LeaveAtOnce(target, skip)
         \/ ~skip /\ LeaveRows(target)
  BY DEF NavigateTo
<1>2. nav.phase = "still" /\ ~row.typing /\ UNCHANGED <<form, server, saved, upload>>
  BY DEF NavigateTo
<1>3. target \in Step OBVIOUS
<1> QED BY <1>1, <1>2, <1>3, LeaveFieldsInv, LeaveAtOnceInv, LeaveRowsInv
-----------------------------------------------------------------------------
(* The answers.                                                            *)

(* What a PATCH of the fields writes, on the server or in what the page    *)
(* believes.                                                               *)
LEMMA PatchWrites ==
  ASSUME Inv
  PROVE  LET stored == With(server, nav.data, nav.sent)
             believed == With(saved, nav.data, nav.sent) IN
         /\ stored \in Application /\ stored.row = server.row
         /\ \A f \in Field : stored[f] = IF f \in nav.sent THEN nav.data[f] ELSE server[f]
         /\ believed \in [Field -> Value]
         /\ \A f \in Field : believed[f] = IF f \in nav.sent THEN nav.data[f] ELSE saved[f]
<1> DEFINE stored == With(server, nav.data, nav.sent)
           believed == With(saved, nav.data, nav.sent)
<1>1. \A f \in nav.sent : nav.data[f] \in Value BY Facts, InputFacts DEF Application
<1>2. /\ stored \in [Input -> Value]
      /\ \A f \in Input : stored[f] = IF f \in nav.sent THEN nav.data[f] ELSE server[f]
  BY <1>1, Facts, WithTyped DEF Application
<1>3. /\ believed \in [Field -> Value]
      /\ \A f \in Field : believed[f] = IF f \in nav.sent THEN nav.data[f] ELSE saved[f]
  BY <1>1, Facts, WithTyped
<1>4. \A f \in Field : stored[f] = IF f \in nav.sent THEN nav.data[f] ELSE server[f]
  BY <1>2, InputFacts
<1>5. stored["row"] = server["row"] BY <1>2, InputFacts, Facts
<1> HIDE DEF stored, believed
<1>6. stored.row = server.row BY <1>2, <1>5, Facts DEF Application
<1> QED BY <1>2, <1>3, <1>4, <1>6 DEF stored, believed, Application

LEMMA PatchStoredInv == ASSUME Inv, PatchStored PROVE Inv'
<1>1. /\ nav.phase = "patch" /\ nav' = [nav EXCEPT !.phase = "patched"]
      /\ server' = With(server, nav.data, nav.sent)
      /\ UNCHANGED <<form, app, saved, row, patches, upload, typed>>
  BY DEF PatchStored
<1>2. /\ nav' \in Navigation /\ nav'.phase = "patched" /\ nav'.step = nav.step
      /\ nav'.data = nav.data /\ nav'.sent = nav.sent /\ nav'.late = nav.late
  BY <1>1, Facts DEF Navigation, Phase
<1>3. /\ server' \in Application /\ server'.row = server.row
      /\ \A f \in Field : server'[f] = IF f \in nav.sent THEN nav.data[f] ELSE server[f]
  BY <1>1, PatchWrites
<1>4. TypeOK' BY <1>1, <1>2, <1>3 DEF Inv, TypeOK
<1>5. ASSUME NEW f \in Field PROVE FieldKept(f)'
  <2>1. StepOf(f)' = StepOf(f) BY <1>1 DEF StepOf
  <2>2. Believed(f)' = IF f \in nav.sent THEN nav.data[f] ELSE saved[f] BY <1>1, <1>2 DEF Believed
  <2>3. Believed(f) = saved[f] BY <1>1 DEF Believed
  <2>4. Done(f)' <=> f \notin nav.late BY <1>2 DEF Done
  <2>5. f \notin nav.sent /\ f \notin nav.late => Done(f) BY <1>1 DEF Done
  <2>6. FieldKept(f) BY DEF Inv
  <2>7. CASE f \in nav.sent
    <3>1. server'[f] = nav.data[f] /\ Believed(f)' = nav.data[f] BY <1>3, <2>2, <2>7
    <3>2. f \notin nav.late => nav.data[f] = app[f] BY <1>1, <2>6, <2>7 DEF FieldKept
    <3> QED BY <1>1, <1>2, <2>1, <2>4, <2>6, <3>1, <3>2 DEF FieldKept
  <2>8. CASE f \notin nav.sent
    <3>1. server'[f] = server[f] /\ Believed(f)' = Believed(f) BY <1>3, <2>2, <2>3, <2>8
    <3> QED BY <1>1, <1>2, <2>1, <2>4, <2>5, <2>6, <2>8, <3>1 DEF FieldKept
  <2> QED BY <2>7, <2>8
<1>6. RowKept' BY <1>1, <1>2, <1>3 DEF Inv, RowKept, Unsent, Refused
<1> QED BY <1>2, <1>4, <1>5, <1>6 DEF Inv, NavKept

LEMMA PatchAnsweredInv == ASSUME Inv, PatchAnswered PROVE Inv'
<1>1. /\ nav.phase = "patched" /\ UNCHANGED <<form, server, upload>>
      /\ saved' = With(saved, nav.data, nav.sent)
  BY DEF PatchAnswered
<1>2. saved' \in [Field -> Value] /\ \A f \in Field : saved'[f] = Believed(f)
  BY <1>1, PatchWrites DEF Believed
<1>3. \A f \in Field :
        /\ typed[f] \in {app[f], "any"}
        /\ app[f] = saved'[f] \/ f \notin nav.late => typed[f] \in {server[f], "any"}
  BY <1>1, <1>2 DEF Inv, FieldKept, Done
<1>4. CASE Fetches(nav.from, nav.target)
  <2>1. Fetch /\ UNCHANGED <<app, row, patches, typed>> BY <1>4 DEF PatchAnswered
  <2>2. nav' \in Navigation /\ nav'.phase = "fetch" /\ nav'.step = nav.step /\ nav'.late = nav.late
    BY <2>1, FetchTyped
  <2>3. RowKept' BY <1>1, <2>1, <2>2 DEF Inv, RowKept, Unsent, Refused
  <2> QED BY <1>1, <1>2, <1>3, <2>1, <2>2, <2>3, FetchingInv, Facts
<1>5. CASE ~Fetches(nav.from, nav.target)
  <2>1. Finish(nav.from, nav.target, nav.skip, app) BY <1>5 DEF PatchAnswered
  <2>2. Placed(app) BY <1>1, <2>1, FinishPlaces, Facts
  <2> QED BY <1>1, <1>2, <1>3, <2>2, PlacedInv, Facts
<1> QED BY <1>4, <1>5

LEMMA FlushAnsweredInv == ASSUME Inv, FlushAnswered PROVE Inv'
<1> DEFINE stored == [server EXCEPT !.row = nav.data.row]
           lost == Settled(typed, server', patches, Unsent(nav.step, row, app))
           same == nav.step = 3 /\ row.local = nav.data.row
<1>1. /\ nav.phase = "flush"
      /\ \/ server' = stored /\ Fetch /\ typed' = IF same THEN typed ELSE lost
         \/ /\ server' \in {server, stored}
            /\ IF nav.target > 3 THEN nav' = Still(nav.step) ELSE Fetch
            /\ typed' = lost
      /\ UNCHANGED <<form, app, saved, row, patches, upload>>
  BY DEF FlushAnswered
<1>2. stored \in Application /\ stored.row = nav.data.row /\ \A f \in Field : stored[f] = server[f]
  BY Facts, RowSet
<1>3. /\ lost \in Typed /\ lost.row \in {typed.row, "any"}
      /\ patches = {} /\ ~Unsent(nav.step, row, app) => lost.row \in {server'.row, "any"}
      /\ \A f \in Field : lost[f] = typed[f]
  BY Facts, UnsentBoolean, SettledTyped
<1>4. same => typed.row \in {nav.data.row, "any"} BY DEF Inv, RowKept
<1> HIDE DEF stored, lost, same
<1>5. server' \in Application /\ \A f \in Field : server'[f] = server[f] BY <1>1, <1>2, Facts
<1>6. /\ typed' \in Typed /\ typed'.row \in {typed.row, "any"}
      /\ patches = {} /\ ~Unsent(nav.step, row, app) => typed'.row \in {server'.row, "any"}
      /\ \A f \in Field : typed'[f] = typed[f]
  BY <1>1, <1>2, <1>3, <1>4, Facts
<1>7. /\ nav' \in Navigation /\ nav'.step = nav.step /\ nav'.phase \in {"still", "fetch"}
      /\ nav'.phase = "fetch" => nav'.late = nav.late
      /\ nav'.phase = "still" => nav'.late = {}
  BY <1>1, Facts, FetchTyped, StillTyped
<1>8. TypeOK' BY <1>1, <1>5, <1>6, <1>7 DEF Inv, TypeOK, Typed
<1>9. ASSUME NEW f \in Field PROVE FieldKept(f)'
  <2>1. StepOf(f)' = StepOf(f) BY <1>1 DEF StepOf
  <2>2. Believed(f)' = saved[f] /\ Believed(f) = saved[f] BY <1>1, <1>7 DEF Believed
  <2>3. FieldKept(f) /\ (f \notin nav.late => Done(f)) BY <1>1 DEF Inv, Done
  <2>4. typed'[f] = typed[f] /\ server'[f] = server[f] BY <1>5, <1>6
  <2>5. CASE nav'.phase = "fetch"
    <3>1. Done(f)' => f \notin nav.late BY <1>7, <2>5 DEF Done
    <3> QED BY <1>1, <1>7, <2>1, <2>2, <2>3, <2>4, <2>5, <3>1 DEF FieldKept
  <2>6. CASE nav'.phase = "still"
    <3>1. Done(f)' => StepOf(f) # nav.step BY <1>7, <2>1, <2>6 DEF Done
    <3>2. f \in nav.late /\ StepOf(f) # nav.step => typed[f] = "any" BY <2>3 DEF FieldKept
    <3> QED BY <1>1, <1>7, <2>1, <2>2, <2>3, <2>4, <2>6, <3>1, <3>2 DEF FieldKept
  <2> QED BY <1>7, <2>5, <2>6
<1>10. RowKept' BY <1>1, <1>6, <1>7 DEF Inv, RowKept, Unsent, Refused
<1> QED BY <1>7, <1>8, <1>9, <1>10 DEF Inv, NavKept

LEMMA FetchReadInv == ASSUME Inv, FetchRead PROVE Inv'
<1>1. /\ nav.phase = "fetch" /\ nav' = [nav EXCEPT !.phase = "land", !.data = server]
      /\ UNCHANGED <<form, server, app, saved, row, patches, upload, typed>>
  BY DEF FetchRead
<1>2. /\ nav' \in Navigation /\ nav'.phase = "land" /\ nav'.step = nav.step /\ nav'.data = server
      /\ nav'.late = nav.late
  BY <1>1, Facts DEF Navigation, Phase
<1>3. TypeOK' BY <1>1, <1>2 DEF Inv, TypeOK
<1>4. \A f \in Field : FieldKept(f)' BY <1>1, <1>2 DEF Inv, FieldKept, Done, Believed, StepOf
<1>5. RowKept' BY <1>1, <1>2 DEF Inv, RowKept, Unsent, Refused
<1> QED BY <1>2, <1>3, <1>4, <1>5 DEF Inv, NavKept

LEMMA FetchLandsInv == ASSUME Inv, FetchLands PROVE Inv'
<1>1. /\ nav.phase = "land" /\ UNCHANGED <<form, server, upload>>
      /\ saved' = Restrict(nav.data, Field)
      /\ Finish(nav.from, nav.target, nav.skip, nav.data)
  BY DEF FetchLands
<1>2. Placed(nav.data) BY <1>1, FinishPlaces, Facts
<1>3. saved' \in [Field -> Value] BY <1>1, Facts, RestrictTyped
<1>4. \A f \in Field : f \notin nav.late =>
        typed[f] \in {nav.data[f], "any"} /\ typed[f] \in {server[f], "any"}
  BY <1>1 DEF Inv, FieldKept, Done
<1> QED BY <1>1, <1>2, <1>3, <1>4, PlacedInv, Facts

(* What is lost where the page takes something for saved that the server   *)
(* does not have.                                                          *)
LEMMA StrayedTyped ==
  ASSUME Inv, NEW believed, NEW F
  PROVE  /\ Lose(F \cap Strayed(believed)) \in Typed
         /\ Lose(F \cap Strayed(believed)).row = typed.row
         /\ \A f \in Field :
              /\ Lose(F \cap Strayed(believed))[f] \in {typed[f], "any"}
              /\ f \in F /\ app[f] = believed[f] =>
                   Lose(F \cap Strayed(believed))[f] \in {server[f], "any"}
<1> DEFINE G == F \cap Strayed(believed)
<1>1. G \in SUBSET Field BY DEF Strayed
<1>2. \A f \in Field : f \in F /\ app[f] = believed[f] /\ f \notin G => app[f] = server[f]
  BY DEF Strayed
<1>3. \A f \in Field : typed[f] \in {app[f], "any"} BY DEF Inv, FieldKept
<1> HIDE DEF G
<1>4. /\ Lose(G) \in Typed /\ Lose(G).row = typed.row
      /\ \A f \in Field : Lose(G)[f] = IF f \in G THEN "any" ELSE typed[f]
  BY <1>1, Facts, LoseFields
<1> QED BY <1>2, <1>3, <1>4 DEF G

LEMMA SaveFailsInv == ASSUME Inv, SaveFails PROVE Inv'
<1>1. /\ nav.phase \in {"patch", "patched", "fetch", "land"}
      /\ nav' = Still(nav.step) /\ typed' = Lose(Strayed(saved))
      /\ UNCHANGED <<form, server, app, saved, row, patches, upload>>
  BY DEF SaveFails
<1>2. nav' \in Navigation /\ nav'.phase = "still" /\ nav'.step = nav.step /\ nav'.late = {}
  BY <1>1, Facts, StillTyped
<1>3. /\ typed' \in Typed /\ typed'.row = typed.row
      /\ \A f \in Field : /\ typed'[f] \in {typed[f], "any"}
                          /\ app[f] = saved[f] => typed'[f] \in {server[f], "any"}
  <2>1. Field \cap Strayed(saved) = Strayed(saved) BY DEF Strayed
  <2>2. typed' = Lose(Field \cap Strayed(saved)) BY <1>1, <2>1
  <2> QED BY <2>2, StrayedTyped
<1>4. TypeOK' BY <1>1, <1>2, <1>3 DEF Inv, TypeOK, Typed
<1>5. ASSUME NEW f \in Field PROVE FieldKept(f)'
  <2>1. StepOf(f)' = StepOf(f) BY <1>1 DEF StepOf
  <2>2. Believed(f)' = saved[f] BY <1>1, <1>2 DEF Believed
  <2>3. Done(f)' => f \in nav.late \/ Done(f) BY <1>1, <1>2, <2>1 DEF Done
  <2>4. Done(f)' => StepOf(f) # nav.step BY <1>2, <2>1 DEF Done
  <2>5. FieldKept(f) BY DEF Inv
  <2>6. Done(f)' => typed[f] \in {server[f], "any"} BY <2>3, <2>4, <2>5 DEF FieldKept
  <2>7. typed[f] \in {app[f], "any"} BY <2>5 DEF FieldKept
  <2>8. /\ typed'[f] \in {app'[f], "any"}
        /\ app'[f] = Believed(f)' \/ Done(f)' => typed'[f] \in {server'[f], "any"}
    BY <1>1, <1>3, <2>2, <2>6, <2>7
  <2> QED BY <1>2, <2>8 DEF FieldKept
<1>6. RowKept' BY <1>1, <1>2, <1>3 DEF Inv, RowKept, Unsent, Refused
<1> QED BY <1>2, <1>4, <1>5, <1>6 DEF Inv, NavKept

LEMMA UrlChangesInv == ASSUME Inv, UrlChanges PROVE Inv'
<1>1. PICK step \in Step \ {nav.step} :
       /\ nav' = IF Saving THEN [nav EXCEPT !.step = step] ELSE Still(step)
       /\ patches' = patches \cup (IF nav.step = 3 THEN LenientPatch(FALSE, row.local, app.row) ELSE {})
       /\ row' = RowIn(step, app.row)
       /\ LET left == Lose({f \in Field : app[f] # server[f]} \cup nav.late
                           \cup (IF nav.step = 3 /\ row.local # server.row THEN {"row"} ELSE {}))
          IN typed' = IF step = 3 THEN Shown(left, app.row) ELSE left
  BY DEF UrlChanges
<1> DEFINE F == {f \in Field : app[f] # server[f]} \cup nav.late
                  \cup (IF nav.step = 3 /\ row.local # server.row THEN {"row"} ELSE {})
           left == Lose(F)
<1>2. Open /\ UNCHANGED <<form, server, app, saved, upload>> BY DEF UrlChanges
<1>3. step \in Step /\ step # nav.step OBVIOUS
<1>4. /\ nav' \in Navigation /\ nav'.step = step /\ nav'.phase = nav.phase
      /\ nav.phase # "still" =>
           nav'.data = nav.data /\ nav'.sent = nav.sent /\ nav'.late = nav.late
      /\ nav.phase = "still" => nav'.late = {}
  BY <1>1, <1>3, Facts, StillTyped DEF Saving, Navigation
<1>5. F \in SUBSET Input BY InputFacts, Facts
<1>6. /\ left \in Typed /\ left.row = IF "row" \in F THEN "any" ELSE typed.row
      /\ \A f \in Field : left[f] = IF f \in F THEN "any" ELSE typed[f]
  <2> HIDE DEF F
  <2> QED BY <1>5, Facts, LoseTyped, InputFacts
<1>7. \A f \in Field : /\ left[f] \in {typed[f], "any"} /\ left[f] \in {server[f], "any"}
                       /\ f \in nav.late => left[f] = "any"
  BY <1>6 DEF Inv, FieldKept
<1>8. "row" \in F <=> nav.step = 3 /\ row.local # server.row BY InputFacts, Facts
<1>9. left.row \in {typed.row, "any"} /\ (nav.step = 3 => left.row \in {server.row, "any"})
  BY <1>6, <1>8 DEF Inv, RowKept
<1> HIDE DEF left, F
<1>10. typed' = IF step = 3 THEN Shown(left, app.row) ELSE left BY <1>1 DEF left, F
<1>11. /\ typed' \in Typed /\ typed'.row \in {left.row, "any"}
       /\ step = 3 => typed'.row \in {app.row, "any"}
       /\ \A f \in Field : typed'[f] = left[f]
  BY <1>6, <1>10, ShownTyped
<1>12. /\ row' \in Row /\ (step = 3 => row'.local = app.row)
       /\ step # 3 => row' = Mount("blank")
  BY <1>1, Facts, InputFacts, MountTyped DEF RowIn
<1>13. patches' \subseteq Value /\ patches \subseteq patches'
  BY <1>1, Facts DEF LenientPatch
<1>14. TypeOK' BY <1>2, <1>4, <1>11, <1>12, <1>13 DEF Inv, TypeOK, Typed
<1>15. ASSUME NEW f \in Field PROVE FieldKept(f)'
  <2>1. /\ typed'[f] \in {app[f], "any"} /\ typed'[f] \in {server[f], "any"}
        /\ typed'[f] \in {typed[f], "any"} /\ (f \in nav.late => typed'[f] = "any")
    BY <1>7, <1>11 DEF Inv, FieldKept
  <2>2. FieldKept(f) BY DEF Inv
  <2>3. nav'.phase # "still" => nav'.data = nav.data /\ nav'.sent = nav.sent /\ nav'.late = nav.late
    BY <1>4
  <2>4. nav'.phase = "still" => nav'.late = {} BY <1>4
  <2> QED BY <1>2, <1>4, <2>1, <2>2, <2>3, <2>4 DEF FieldKept
<1>16. RowKept'
  <2>1. ASSUME patches' = {}, nav.phase # "flush" PROVE typed'.row \in {server.row, "any"}
    <3>1. patches = {} BY <1>13, <2>1
    <3>2. CASE nav.step = 3 BY <1>9, <1>11, <3>2
    <3>3. CASE nav.step # 3
      <4>1. typed.row \in {server.row, "any"} BY <2>1, <3>1, <3>3 DEF Inv, RowKept, Unsent
      <4> QED BY <1>9, <1>11, <4>1
    <3> QED BY <3>2, <3>3
  <2> QED BY <1>2, <1>4, <1>11, <1>12, <2>1 DEF RowKept
<1>17. NavKept' BY <1>2, <1>4 DEF Open, NavKept
<1> QED BY <1>14, <1>15, <1>16, <1>17 DEF Inv

(* The uploads.                                                            *)

LEMMA MovesTyped ==
  ASSUME Inv, NEW from, NEW to \in SUBSET {"sent", "stored", "file"}, Moves(from, to)
  PROVE  upload' \subseteq {"sent", "stored", "file"}
<1>1. PICK rest \in {upload, upload \ {from}} : upload' = rest \cup to BY DEF Moves
<1>2. rest \subseteq upload BY <1>1
<1> QED BY <1>1, <1>2, Facts

LEMMA OpinionStoredInv == ASSUME Inv, OpinionStored PROVE Inv'
<1> DEFINE F == {f \in Presence : app[f] # Opinion}
<1>1. /\ Moves("sent", {"stored"}) /\ nav.phase # "submitted"
      /\ server' = [f \in DOMAIN server |-> IF f \in Presence THEN Opinion ELSE server[f]]
      /\ typed' = Lose(F)
      /\ UNCHANGED <<form, app, saved, row, patches, nav>>
  BY DEF OpinionStored
<1>2. Presence \subseteq Field /\ Opinion \in Value /\ F \in SUBSET Field
  BY EditorAssumption DEF Presence, Value
<1>3. "row" \notin Presence BY <1>2, InputFacts
<1>4. /\ server' \in Application /\ server'.row = server.row
      /\ \A f \in Field : server'[f] = IF f \in Presence THEN Opinion ELSE server[f]
  BY <1>1, <1>2, <1>3, Facts, InputFacts DEF Application
<1>5. \A f \in Field : f \in F <=> f \in Presence /\ app[f] # Opinion BY <1>2
<1> HIDE DEF F
<1>6. /\ typed' \in Typed /\ typed'.row = typed.row
      /\ \A f \in Field : typed'[f] = IF f \in F THEN "any" ELSE typed[f]
  BY <1>1, <1>2, Facts, LoseFields
<1>7. upload' \subseteq {"sent", "stored", "file"} BY <1>1, MovesTyped
<1>8. TypeOK' BY <1>1, <1>4, <1>6, <1>7 DEF Inv, TypeOK, Typed
<1>9. ASSUME NEW f \in Field PROVE FieldKept(f)'
  <2>1. FieldKept(f) BY DEF Inv
  <2>2. StepOf(f)' = StepOf(f) /\ Believed(f)' = Believed(f) /\ (Done(f)' <=> Done(f))
    BY <1>1 DEF StepOf, Believed, Done
  <2>3. typed'[f] \in {typed[f], "any"} BY <1>6
  <2>4. CASE f \in Presence
    <3>1. typed'[f] \in {server'[f], "any"} BY <1>4, <1>5, <1>6, <2>1, <2>4 DEF FieldKept
    <3> QED BY <1>1, <2>1, <2>2, <2>3, <3>1 DEF FieldKept
  <2>5. CASE f \notin Presence
    <3>1. server'[f] = server[f] BY <1>4, <2>5
    <3> QED BY <1>1, <2>1, <2>2, <2>3, <3>1 DEF FieldKept
  <2> QED BY <2>4, <2>5
<1>10. RowKept' /\ NavKept' BY <1>1, <1>4, <1>6 DEF Inv, RowKept, NavKept, Unsent, Refused
<1> QED BY <1>8, <1>9, <1>10 DEF Inv

LEMMA OpinionAnsweredInv == ASSUME Inv, OpinionAnswered PROVE Inv'
<1>1. /\ Moves("stored", {"file"})
      /\ saved' = [f \in Field |-> IF f \in Presence THEN Opinion ELSE saved[f]]
      /\ typed' = Lose(Presence \cap Strayed(saved'))
      /\ UNCHANGED <<form, server, app, row, patches, nav>>
  BY DEF OpinionAnswered
<1>2. Opinion \in Value BY EditorAssumption DEF Value
<1>3. /\ saved' \in [Field -> Value]
      /\ \A f \in Field : f \notin Presence => saved'[f] = saved[f]
  BY <1>1, <1>2, Facts
<1>4. /\ typed' \in Typed /\ typed'.row = typed.row
      /\ \A f \in Field : /\ typed'[f] \in {typed[f], "any"}
                          /\ f \in Presence /\ app[f] = saved'[f] => typed'[f] \in {server[f], "any"}
  <2> DEFINE believed == saved'
  <2>1. typed' = Lose(Presence \cap Strayed(believed)) BY <1>1
  <2> HIDE DEF believed
  <2>2. /\ typed' \in Typed /\ typed'.row = typed.row
        /\ \A f \in Field : /\ typed'[f] \in {typed[f], "any"}
                            /\ f \in Presence /\ app[f] = believed[f] => typed'[f] \in {server[f], "any"}
    BY <2>1, StrayedTyped
  <2> QED BY <2>2 DEF believed
<1>5. upload' \subseteq {"sent", "stored", "file"} BY <1>1, MovesTyped
<1>6. TypeOK' BY <1>1, <1>3, <1>4, <1>5 DEF Inv, TypeOK, Typed
<1>7. ASSUME NEW f \in Field PROVE FieldKept(f)'
  <2>1. FieldKept(f) BY DEF Inv
  <2>2. StepOf(f)' = StepOf(f) /\ (Done(f)' <=> Done(f)) BY <1>1 DEF StepOf, Done
  <2>3. Believed(f)' = Believed(f) \/ (f \in Presence /\ Believed(f)' = saved'[f])
    BY <1>1, <1>3 DEF Believed
  <2>4. app[f] = Believed(f)' \/ Done(f) => typed'[f] \in {server[f], "any"}
    <3>1. app[f] = Believed(f) \/ Done(f) => typed[f] \in {server[f], "any"}
      BY <2>1 DEF FieldKept
    <3>2. typed'[f] \in {typed[f], "any"} BY <1>4
    <3> QED BY <1>4, <2>3, <3>1, <3>2
  <2> QED BY <1>1, <1>4, <2>1, <2>2, <2>4 DEF FieldKept
<1>8. RowKept' /\ NavKept' BY <1>1, <1>4 DEF Inv, RowKept, NavKept, Unsent, Refused
<1> QED BY <1>6, <1>7, <1>8 DEF Inv

LEMMA FinishUploadInv == ASSUME Inv, FinishUpload PROVE Inv'
<1>1. Moves("file", {}) /\ UNCHANGED <<form, server, app, row, patches, nav>> BY DEF FinishUpload
<1>2. upload' \subseteq {"sent", "stored", "file"} BY <1>1, MovesTyped
<1>3. CASE UNCHANGED <<saved, typed>>
  BY <1>1, <1>2, <1>3
  DEF Inv, TypeOK, FieldKept, Done, RowKept, NavKept, Unsent, Refused, Believed, StepOf
<1>4. CASE saved' = AttachmentsReplaced(app) /\ typed' = Lose({f \in Field : app[f] # server[f]})
  <2> DEFINE F == {f \in Field : app[f] # server[f]}
  <2>1. F \in SUBSET Field OBVIOUS
  <2>2. /\ typed' \in Typed /\ typed'.row = typed.row
        /\ \A f \in Field : typed'[f] = IF f \in F THEN "any" ELSE typed[f]
    <3> HIDE DEF F
    <3>1. typed' = Lose(F) BY <1>4 DEF F
    <3> QED BY <2>1, <3>1, Facts, LoseFields
  <2>3. saved' \in [Field -> Value] BY <1>4, Facts, RestrictTyped DEF AttachmentsReplaced
  <2>4. TypeOK' BY <1>1, <1>2, <2>2, <2>3 DEF Inv, TypeOK, Typed
  <2>5. ASSUME NEW f \in Field PROVE FieldKept(f)'
    <3>1. FieldKept(f) /\ StepOf(f)' = StepOf(f) BY <1>1 DEF Inv, StepOf
    <3>2. typed'[f] \in {typed[f], "any"} /\ typed'[f] \in {server[f], "any"}
      BY <2>2, <3>1 DEF FieldKept
    <3> QED BY <1>1, <3>1, <3>2 DEF FieldKept
  <2>6. RowKept' /\ NavKept' BY <1>1, <2>2 DEF Inv, RowKept, NavKept, Unsent, Refused
  <2> QED BY <2>4, <2>5, <2>6 DEF Inv
<1> QED BY <1>3, <1>4 DEF FinishUpload

(* An upload that begins, or whose request for the presence fails.         *)
LEMMA UploadFrame ==
  ASSUME Inv, upload' \subseteq {"sent", "stored", "file"},
         UNCHANGED <<form, server, app, saved, row, patches, nav, typed>>
  PROVE  Inv'
BY DEF Inv, TypeOK, FieldKept, Done, RowKept, NavKept, Unsent, Refused, Believed, StepOf

LEMMA StartsInv == ASSUME Inv, StartUpload \/ StartOpinion PROVE Inv'
<1>1. /\ upload' \in {upload \cup {"file"}, upload \cup {"sent"}}
      /\ UNCHANGED <<form, server, app, saved, row, patches, nav, typed>>
  BY DEF StartUpload, StartOpinion
<1>2. upload' \subseteq {"sent", "stored", "file"} BY <1>1, Facts
<1> QED BY <1>1, <1>2, UploadFrame

LEMMA OpinionFailsInv == ASSUME Inv, OpinionFails PROVE Inv'
<1>1. /\ Moves("sent", {}) \/ Moves("stored", {})
      /\ UNCHANGED <<form, server, app, saved, row, patches, nav, typed>>
  BY DEF OpinionFails
<1>2. upload' \subseteq {"sent", "stored", "file"} BY <1>1, MovesTyped
<1> QED BY <1>1, <1>2, UploadFrame
-----------------------------------------------------------------------------
(* Submission.                                                             *)

LEMMA SubmitInv == ASSUME Inv, Submit PROVE Inv'
<1>1. /\ nav.phase = "still" /\ nav.step = 4 /\ nav' = [nav EXCEPT !.phase = "submit"]
      /\ UNCHANGED <<form, server, app, saved, row, patches, upload, typed>>
  BY DEF Submit
<1>2. nav' \in Navigation /\ nav'.phase = "submit" /\ nav'.step = 4 /\ nav'.late = {}
  BY <1>1, StepFacts, Facts DEF Navigation, Phase
<1>3. TypeOK' BY <1>1, <1>2 DEF Inv, TypeOK
<1>4. \A f \in Field : FieldKept(f)' BY <1>1, <1>2, StepFacts DEF Inv, FieldKept
<1>5. row = Mount("blank") BY <1>1 DEF Inv, RowKept
<1>6. RowKept' BY <1>1, <1>2, <1>5 DEF Inv, RowKept, Unsent
<1> QED BY <1>2, <1>3, <1>4, <1>6 DEF Inv, NavKept

LEMMA SubmitAnsweredInv == ASSUME Inv, SubmitAnswered PROVE Inv'
<1>1. /\ nav.phase = "submit" /\ UNCHANGED <<form, server, app, saved, row, patches, upload>>
      /\ \/ /\ nav' = [nav EXCEPT !.phase = "submitted"]
            /\ typed' = IF patches # {} THEN Lose({"row"}) ELSE typed
         \/ nav' = Still(nav.step) /\ UNCHANGED typed
  BY DEF SubmitAnswered
<1>2. nav.step = 4 /\ row = Mount("blank") /\ nav.late = {}
  <2>1. nav.step = 4 /\ nav.late = {} BY <1>1 DEF Inv, NavKept
  <2>2. row = Mount("blank") BY <2>1 DEF Inv, RowKept
  <2> QED BY <2>1, <2>2
<1>3. patches = {} => typed.row \in {server.row, "any"} BY <1>1, <1>2 DEF Inv, RowKept, Unsent
<1>4. \A f \in Field : typed[f] \in {server[f], "any"} /\ typed[f] \in {app[f], "any"}
  BY <1>1, <1>2 DEF Inv, FieldKept, Done
<1>5. CASE /\ nav' = [nav EXCEPT !.phase = "submitted"]
           /\ typed' = IF patches # {} THEN Lose({"row"}) ELSE typed
  <2>1. nav' \in Navigation /\ nav'.phase = "submitted" /\ nav'.step = 4 /\ nav'.late = {}
    BY <1>2, <1>5, Facts DEF Navigation, Phase
  <2>2. /\ typed' \in Typed /\ typed'.row \in {server.row, "any"}
        /\ \A f \in Field : typed'[f] = typed[f]
    BY <1>3, <1>5, Facts, LoseTyped, InputFacts
  <2>3. TypeOK' BY <1>1, <2>1, <2>2 DEF Inv, TypeOK, Typed
  <2>4. \A f \in Field : FieldKept(f)' BY <1>1, <1>4, <2>1, <2>2 DEF FieldKept
  <2>5. RowKept' BY <1>1, <1>2, <2>1, <2>2 DEF RowKept
  <2> QED BY <1>1, <2>1, <2>2, <2>3, <2>4, <2>5 DEF Inv, NavKept
<1>6. CASE nav' = Still(nav.step) /\ UNCHANGED typed
  <2>1. nav' \in Navigation /\ nav'.phase = "still" /\ nav'.step = 4 /\ nav'.late = {}
    BY <1>2, <1>6, Facts, StillTyped
  <2>2. TypeOK' BY <1>1, <1>6, <2>1 DEF Inv, TypeOK
  <2>3. \A f \in Field : FieldKept(f)' BY <1>1, <1>4, <1>6, <2>1 DEF FieldKept
  <2>4. RowKept' BY <1>1, <1>2, <1>3, <1>6, <2>1 DEF RowKept
  <2> QED BY <2>1, <2>2, <2>3, <2>4 DEF Inv, NavKept
<1> QED BY <1>1, <1>5, <1>6
-----------------------------------------------------------------------------
LEMMA InitInv == Init => Inv
<1> SUFFICES ASSUME Init PROVE Inv OBVIOUS
<1>1. PICK step \in Step : nav = Still(step) /\ row = RowIn(step, server.row) BY DEF Init
<1>2. /\ form \in Forms /\ server \in Application /\ app = server /\ typed = server
      /\ saved = Restrict(server, Field) /\ patches = {} /\ upload = {}
  BY DEF Init, Forms
<1>3. server.row \in Value /\ typed \in Typed BY <1>2, InputFacts DEF Application, Typed
<1>4. nav \in Navigation /\ nav.phase = "still" /\ nav.step = step /\ nav.late = {}
  BY <1>1, StillTyped
<1>5. /\ row \in Row /\ (step = 3 => row.local = server.row)
      /\ step # 3 => row = Mount("blank")
  BY <1>1, <1>3, InputFacts, MountTyped DEF RowIn
<1>6. saved \in [Field -> Value] BY <1>2, RestrictTyped
<1>7. TypeOK BY <1>2, <1>3, <1>4, <1>5, <1>6 DEF TypeOK, Typed, Forms
<1>8. \A f \in Field : FieldKept(f) BY <1>2, <1>4 DEF FieldKept
<1>9. RowKept /\ NavKept BY <1>2, <1>4, <1>5 DEF RowKept, NavKept
<1> QED BY <1>7, <1>8, <1>9 DEF Inv

LEMMA NextInv == Inv /\ [Next]_vars => Inv'
<1> SUFFICES ASSUME Inv, [Next]_vars PROVE Inv' OBVIOUS
<1>1. CASE UNCHANGED vars
  BY <1>1 DEF vars, Inv, TypeOK, FieldKept, Done, RowKept, NavKept, Unsent, Refused, Believed, StepOf
<1> QED
  BY <1>1, TypeFieldInv, TypeRowInv, SelectRowInv, BlurInv, DebounceInv, PatchArrivesInv,
     NavigateToInv, UrlChangesInv, PatchStoredInv, PatchAnsweredInv, FlushAnsweredInv, FetchReadInv,
     FetchLandsInv, SaveFailsInv, StartsInv, OpinionStoredInv, OpinionAnsweredInv, OpinionFailsInv,
     FinishUploadInv, SubmitInv, SubmitAnsweredInv
  DEF Next

LEMMA InvHolds == Spec => []Inv
BY InitInv, NextInv, PTL DEF Spec

(* The variables keep their types, for any fields and texts.               *)
THEOREM TypeCorrect == Spec => []TypeOK
<1>1. Inv => TypeOK BY DEF Inv
<1> QED BY <1>1, InvHolds, PTL

(* What the candidate typed last is what they submit, whatever the order   *)
(* of the answers, outside the cases the code does not handle.             *)
THEOREM WorkSubmitted == Spec => []SubmittedAsTyped
<1>1. Inv => SubmittedAsTyped
  <2> SUFFICES ASSUME Inv, nav.phase = "submitted", NEW f \in DOMAIN server
               PROVE  typed[f] \in {server[f], "any"}
    BY DEF SubmittedAsTyped
  <2>1. f \in Input BY Facts DEF Application
  <2>2. CASE f \in Field BY <2>2 DEF Inv, FieldKept, Done, NavKept
  <2>3. CASE f = "row" BY <2>3, Facts, InputFacts DEF Inv, NavKept, Typed, Application
  <2> QED BY <2>1, <2>2, <2>3 DEF Input
<1> QED BY <1>1, InvHolds, PTL

(* No answer of the server brings an older text of a field back.           *)
THEOREM WorkShown == Spec => []ShownAsTyped
<1>1. Inv => ShownAsTyped BY DEF Inv, FieldKept, ShownAsTyped
<1> QED BY <1>1, InvHolds, PTL
=============================================================================
