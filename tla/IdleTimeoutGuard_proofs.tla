----------------------- MODULE IdleTimeoutGuard_proofs -----------------------
(***************************************************************************)
(* The absolute deadline in the browser, for any number of tabs, any       *)
(* extensions and any delay of answers and messages.                       *)
(*                                                                         *)
(* The argument: the server never gives more than the absolute deadline,   *)
(* so neither does an answer, however late, nor a message that one tab     *)
(* makes of it for the others.  Only what a tab assumes by itself may be   *)
(* more, and it forgets that it heard from the server whenever the guard   *)
(* stops: nothing may then be under way to it, or a late answer would be   *)
(* taken for one to the page that comes next.                              *)
(***************************************************************************)
EXTENDS IdleTimeoutGuard, TLAPS

(* What a deadline may promise, and a message, which was cut at the clock. *)
Within(deadline) == deadline <= Later(Absolute, now)

(* Nothing is under way to a tab in which the guard does not run.          *)
Quiet(t) == tab[t].heard = FALSE /\ inbox[t] = {} /\ To(t) = {}

Inv ==
  /\ TypeOK
  /\ session <= Absolute
  /\ \A f \in flight : f.deadline <= Absolute
  /\ \A t \in Tab : \A message \in inbox[t] : Within(message)
  /\ \A t \in Tab : ~Open(t) => Quiet(t)
  /\ ClockWithinAbsolute

LEMMA ConstantsTyped ==
  /\ Idle \in Nat /\ Absolute \in Nat /\ MaxTime \in Nat
  /\ \A extension \in Extension : extension \in Nat
BY GuardAssumption

LEMMA LaterTyped ==
  ASSUME NEW a \in Nat, NEW b \in Nat
  PROVE  /\ Later(a, b) \in Nat /\ a <= Later(a, b) /\ b <= Later(a, b)
         /\ \A c \in Nat : a <= c => Later(a, b) <= Later(c, b)
         /\ \A c \in Nat : a <= Later(c, b) => Later(a, b) <= Later(c, b)
         /\ \A c \in Nat : b <= c => Later(a, b) <= Later(a, c)
BY DEF Later

LEMMA TouchedBounded ==
  ASSUME now \in Nat, session \in Nat, session <= Absolute,
         NEW extension \in Extension \cup {0}, NEW d \in Touched(extension)
  PROVE  d \in Nat /\ d <= Absolute
BY ConstantsTyped DEF Touched, Earlier

LEMMA InitInv == Init => Inv
<1> SUFFICES ASSUME Init PROVE Inv OBVIOUS
<1>1. session \in Nat /\ session <= Absolute BY ConstantsTyped DEF Init, Earlier
<1>2. TypeOK BY <1>1, ConstantsTyped DEF Init, TypeOK, State
<1> QED BY <1>1, <1>2 DEF Init, Inv, ClockWithinAbsolute, Quiet, To, Open

(* A step that leaves the clock, the tabs and the messages alone, with     *)
(* answers for open tabs only.                                             *)
LEMMA AnswersStep ==
  ASSUME Inv, now' = now, tab' = tab, inbox' = inbox,
         session' \in Nat, session' <= Absolute,
         NEW new \in SUBSET Answer, flight' \subseteq flight \cup new,
         \A f \in new : f.deadline <= Absolute /\ Open(f.tab)
  PROVE  Inv'
<1>1. TypeOK' BY DEF Inv, TypeOK
<1>2. \A t \in Tab : ~Open(t)' => Quiet(t)' BY DEF Inv, Quiet, Open, To
<1> QED BY <1>1, <1>2 DEF Inv, Within, ClockWithinAbsolute

(* A tab stops, and what was under way to it is gone.                      *)
LEMMA StopStep ==
  ASSUME Inv, NEW t \in Tab, NEW s \in State, s.heard = FALSE, s.phase # "open",
         tab' = [tab EXCEPT ![t] = s], flight' = flight \ To(t),
         inbox' \in [Tab -> SUBSET Nat], inbox'[t] = {},
         \A v \in Tab : inbox'[v] \subseteq inbox[v] \cup {Ended},
         \A v \in Tab : ~Open(v) => inbox'[v] = {},
         UNCHANGED <<now, session>>
  PROVE  Inv'
<1>1. TypeOK' BY DEF Inv, TypeOK
<1>2. \A v \in Tab : tab'[v] = IF v = t THEN s ELSE tab[v] BY DEF Inv, TypeOK
<1>3. \A v \in Tab : To(v)' \subseteq To(v) BY DEF To
<1>4. To(t)' = {} BY DEF To
<1>5. \A v \in Tab : ~Open(v)' => Quiet(v)' BY <1>2, <1>3, <1>4 DEF Inv, Quiet, Open
<1>6. 0 <= Later(Absolute, now) BY ConstantsTyped, LaterTyped DEF Inv, TypeOK
<1>7. \A v \in Tab : \A message \in inbox'[v] : Within(message)'
  BY <1>6 DEF Inv, Within, Ended
<1>8. ClockWithinAbsolute' BY <1>2 DEF Inv, ClockWithinAbsolute
<1> QED BY <1>1, <1>5, <1>7, <1>8 DEF Inv

LEMMA LoadPageInv ==
  ASSUME Inv, NEW t \in Tab, LoadPage(t), UNCHANGED <<now, session>>
  PROVE  Inv'
<1> DEFINE s == [tab[t] EXCEPT !.phase = IF session = Ended THEN "away" ELSE "loading",
                               !.heard = FALSE]
<1>1. s \in State /\ s.heard = FALSE /\ s.phase # "open" BY DEF Inv, TypeOK, State
<1>2. tab' = [tab EXCEPT ![t] = s] BY DEF Inv, TypeOK, LoadPage
<1>3. /\ inbox' \in [Tab -> SUBSET Nat] /\ inbox'[t] = {}
      /\ \A v \in Tab : inbox'[v] \subseteq inbox[v]
  BY DEF Inv, TypeOK, LoadPage
<1>4. \A v \in Tab : ~Open(v) => inbox'[v] = {} BY <1>3 DEF Inv, Quiet
<1> HIDE DEF s
<1> QED BY <1>1, <1>2, <1>3, <1>4, StopStep DEF LoadPage

LEMMA LogoutInv ==
  ASSUME Inv, NEW t \in Tab, doLogout(t), UNCHANGED <<now, session>>
  PROVE  Inv'
<1> DEFINE s == [phase |-> "leaving", clock |-> 0, heard |-> FALSE]
<1>1. s \in State /\ s.heard = FALSE /\ s.phase # "open" BY DEF State
<1>2. tab' = [tab EXCEPT ![t] = s] /\ flight' = flight \ To(t) BY DEF doLogout
<1>3. /\ inbox' \in [Tab -> SUBSET Nat] /\ inbox'[t] = {}
      /\ \A v \in Tab : inbox'[v] \subseteq inbox[v] \cup {Ended}
      /\ \A v \in Tab : ~Open(v) => inbox'[v] \subseteq inbox[v]
  BY DEF Inv, TypeOK, doLogout, Ended
<1>4. \A v \in Tab : ~Open(v) => inbox'[v] = {} BY <1>3 DEF Inv, Quiet
<1> HIDE DEF s
<1> QED BY <1>1, <1>2, <1>3, <1>4, StopStep

LEMMA MountInv == ASSUME Inv, NEW t \in Tab, Mount(t) PROVE Inv'
<1> DEFINE c == IF tab[t].clock > now THEN tab[t].clock ELSE now + Idle
           a == [tab |-> t, kind |-> "status", deadline |-> session]
<1>1. /\ now \in Nat /\ now <= MaxTime /\ tab \in [Tab -> State] /\ tab[t] \in State
      /\ tab[t].phase = "loading"
  BY ConstantsTyped DEF Inv, TypeOK, Mount
<1>2. c \in Nat BY <1>1, ConstantsTyped DEF State
<1>3. tab' = [tab EXCEPT ![t] = [tab[t] EXCEPT !.phase = "open", !.clock = c]]
  BY <1>1 DEF Mount
<1> HIDE DEF c
<1>4. /\ tab' \in [Tab -> State] /\ tab'[t].phase = "open" /\ tab'[t].heard = FALSE
      /\ \A v \in Tab : v # t => tab'[v] = tab[v]
  BY <1>1, <1>2, <1>3 DEF State, Inv, Quiet, Open
<1>5. a \in Answer /\ flight' = flight \cup {a} /\ a.deadline <= Absolute /\ a.tab = t
  BY DEF Inv, TypeOK, Answer, Mount, Status
<1> HIDE DEF a
<1>6. TypeOK' BY <1>4, <1>5 DEF Inv, TypeOK, Mount
<1>7. ASSUME NEW v \in Tab, ~Open(v)' PROVE Quiet(v)'
  <2>1. v # t /\ tab'[v] = tab[v] BY <1>4, <1>7 DEF Open
  <2>2. Quiet(v) BY <1>7, <2>1 DEF Inv, Open
  <2> QED BY <1>5, <2>1, <2>2 DEF Quiet, To, Mount
<1>8. ClockWithinAbsolute' BY <1>4 DEF Inv, ClockWithinAbsolute, Mount
<1>9. \A v \in Tab : \A message \in inbox'[v] : Within(message)' BY DEF Inv, Within, Mount
<1> QED BY <1>5, <1>6, <1>7, <1>8, <1>9 DEF Inv, Mount

(* An open tab applies a deadline, and may pass it on.                     *)
LEMMA ApplyStep ==
  ASSUME Inv, NEW t \in Tab, Open(t), NEW d \in Nat, Within(d), applyExpiry(t, d),
         flight' \subseteq flight, inbox' \in [Tab -> SUBSET Nat],
         \A v \in Tab : inbox'[v] \subseteq inbox[v] \cup {tab'[t].clock},
         \A v \in Tab : ~Open(v) => inbox'[v] = {},
         UNCHANGED <<now, session>>
  PROVE  Inv'
<1>1. now \in Nat /\ Absolute \in Nat /\ tab \in [Tab -> State] BY ConstantsTyped DEF Inv, TypeOK
<1>2. Later(d, now) \in Nat /\ Later(d, now) <= Later(Absolute, now)
  BY <1>1, LaterTyped DEF Within
<1>3. tab' = [tab EXCEPT ![t] = [tab[t] EXCEPT !.clock = Later(d, now), !.heard = TRUE]]
  BY <1>1 DEF applyExpiry
<1>4. /\ tab' \in [Tab -> State]
      /\ tab'[t].phase = "open" /\ tab'[t].clock = Later(d, now)
      /\ \A v \in Tab : v # t => tab'[v] = tab[v]
  BY <1>1, <1>2, <1>3 DEF State, Open
<1>5. TypeOK' BY <1>4 DEF Inv, TypeOK
<1>6. ASSUME NEW v \in Tab, ~Open(v)' PROVE Quiet(v)'
  <2>1. v # t /\ tab'[v] = tab[v] BY <1>4, <1>6 DEF Open
  <2>2. Quiet(v) /\ inbox'[v] = {} BY <1>6, <2>1 DEF Inv, Open
  <2> QED BY <2>1, <2>2 DEF Quiet, To
<1>7. \A v \in Tab : \A message \in inbox'[v] : Within(message)'
  BY <1>2, <1>4 DEF Inv, Within
<1>8. ClockWithinAbsolute' BY <1>2, <1>4 DEF Inv, ClockWithinAbsolute
<1> QED BY <1>5, <1>6, <1>7, <1>8 DEF Inv

LEMMA ReceiveInv == ASSUME Inv, NEW f \in flight, Receive(f) PROVE Inv'
<1>1. f \in Answer /\ f.tab \in Tab /\ f.deadline \in Nat /\ f.deadline <= Absolute
  BY DEF Inv, TypeOK, Answer
<1>2. Open(f.tab) BY <1>1 DEF Inv, Quiet, To
<1>3. CASE f.deadline = Ended BY <1>1, <1>3, LogoutInv DEF Receive
<1>4. CASE f.deadline # Ended
  <2>1. /\ applyExpiry(f.tab, f.deadline) /\ flight' \subseteq flight /\ UNCHANGED <<now, session>>
        /\ Broadcast(f.tab, tab'[f.tab].clock) \/ UNCHANGED inbox
    BY <1>4 DEF Receive
  <2>2. Within(f.deadline)
    <3>1. \A a, b, c \in Nat : a <= b /\ b <= c => a <= c OBVIOUS
    <3> QED BY <1>1, <3>1, ConstantsTyped, LaterTyped DEF Within, Inv, TypeOK
  <2>3. tab'[f.tab].clock \in Nat
    <3>1. tab'[f.tab].clock = Later(f.deadline, now)
      BY <1>1, <2>1 DEF applyExpiry, Inv, TypeOK, State
    <3>2. now \in Nat BY ConstantsTyped DEF Inv, TypeOK
    <3> QED BY <1>1, <3>1, <3>2 DEF Later
  <2>4. /\ inbox' \in [Tab -> SUBSET Nat]
        /\ \A v \in Tab : inbox'[v] \subseteq inbox[v] \cup {tab'[f.tab].clock}
        /\ \A v \in Tab : ~Open(v) => inbox'[v] = inbox[v]
    BY <2>1, <2>3 DEF Broadcast, Inv, TypeOK
  <2>5. \A v \in Tab : ~Open(v) => inbox'[v] = {} BY <2>4 DEF Inv, Quiet
  <2> QED BY <1>1, <1>2, <2>1, <2>2, <2>4, <2>5, ApplyStep
<1> QED BY <1>3, <1>4

LEMMA HearInv ==
  ASSUME Inv, NEW t \in Tab, NEW message \in inbox[t], Hear(t, message)
  PROVE  Inv'
<1>1. message \in Nat /\ Within(message) /\ Open(t) BY DEF Inv, TypeOK, Quiet
<1>2. CASE message = Ended BY <1>2, LogoutInv DEF Hear
<1>3. CASE message # Ended
  <2>1. /\ applyExpiry(t, message) /\ UNCHANGED <<now, session, flight>>
        /\ inbox' = [inbox EXCEPT ![t] = @ \ {message}]
    BY <1>3 DEF Hear
  <2>2. /\ inbox' \in [Tab -> SUBSET Nat] /\ \A v \in Tab : inbox'[v] \subseteq inbox[v]
    BY <2>1 DEF Inv, TypeOK
  <2>3. \A v \in Tab : ~Open(v) => inbox'[v] = {} BY <2>2 DEF Inv, Quiet
  <2> QED BY <1>1, <2>1, <2>2, <2>3, ApplyStep
<1> QED BY <1>2, <1>3

LEMMA TouchInv ==
  ASSUME Inv, NEW t \in Tab, NEW extension \in Extension \cup {0}, Touch(t, extension)
  PROVE  Inv'
<1>1. now \in Nat /\ session \in Nat /\ session <= Absolute BY ConstantsTyped DEF Inv, TypeOK
<1>2. session' \in Nat /\ session' <= Absolute
  BY <1>1, TouchedBounded DEF Touch, Ended
<1> DEFINE a == [tab |-> t, kind |-> "touch", deadline |-> session']
<1>3. a \in Answer /\ a.deadline <= Absolute /\ Open(a.tab)
  BY <1>2 DEF Answer, Touch, MayAsk
<1>4. flight' = flight \cup {a} /\ UNCHANGED <<now, tab, inbox>> BY DEF Touch
<1> HIDE DEF a
<1>5. {a} \in SUBSET Answer /\ \A f \in {a} : f.deadline <= Absolute /\ Open(f.tab) BY <1>3
<1>6. flight' \subseteq flight \cup {a} /\ now' = now /\ tab' = tab /\ inbox' = inbox BY <1>4
<1> QED BY <1>2, <1>5, <1>6, AnswersStep

LEMMA PollInv == ASSUME Inv, NEW t \in Tab, Poll(t) PROVE Inv'
<1> DEFINE a == [tab |-> t, kind |-> "status", deadline |-> session]
<1>1. a \in Answer /\ a.deadline <= Absolute /\ Open(a.tab)
  BY DEF Inv, TypeOK, Answer, Poll, MayAsk
<1>2. flight' = flight \cup {a} /\ UNCHANGED <<now, session, tab, inbox>> BY DEF Poll, Status
<1>3. session' \in Nat /\ session' <= Absolute BY <1>2 DEF Inv, TypeOK
<1> HIDE DEF a
<1>4. {a} \in SUBSET Answer /\ \A f \in {a} : f.deadline <= Absolute /\ Open(f.tab) BY <1>1
<1>5. flight' \subseteq flight \cup {a} /\ now' = now /\ tab' = tab /\ inbox' = inbox BY <1>2
<1> QED BY <1>3, <1>4, <1>5, AnswersStep

(* Steps that only lose answers or move the session.                       *)
LEMMA FewerAnswers ==
  ASSUME Inv, UNCHANGED <<now, tab, inbox>>, flight' \subseteq flight,
         session' \in Nat, session' <= Absolute
  PROVE  Inv'
<1>1. {} \in SUBSET Answer /\ flight' \subseteq flight \cup {} OBVIOUS
<1> QED BY <1>1, AnswersStep

LEMMA TickInv == ASSUME Inv, Tick PROVE Inv'
<1>1. now \in Nat /\ now + 1 \in Nat /\ now' = now + 1 /\ now' \in 0 .. MaxTime
      /\ Absolute \in Nat
  BY ConstantsTyped DEF Inv, TypeOK, Tick
<1>2. session' \in Nat /\ session' <= Absolute BY <1>1 DEF Inv, TypeOK, Tick, Ended
<1>3. TypeOK' BY <1>1, <1>2 DEF Inv, TypeOK, Tick
<1>4. /\ Later(Absolute, now) \in Nat /\ Later(Absolute, now') \in Nat
      /\ Later(Absolute, now) <= Later(Absolute, now')
  BY <1>1 DEF Later
<1>5. \A d \in Nat : d <= Later(Absolute, now) => d <= Later(Absolute, now') BY <1>4
<1>6. \A t \in Tab : \A message \in inbox'[t] : Within(message)'
  BY <1>5 DEF Inv, TypeOK, Within, Tick
<1>7. ClockWithinAbsolute'
  BY <1>5 DEF Inv, TypeOK, State, ClockWithinAbsolute, Tick
<1>8. \A t \in Tab : ~Open(t)' => Quiet(t)' BY DEF Inv, Quiet, Open, To, Tick
<1> QED BY <1>2, <1>3, <1>6, <1>7, <1>8 DEF Inv, Tick

LEMMA NextInv == Inv /\ [Next]_vars => Inv'
<1> SUFFICES ASSUME Inv, [Next]_vars PROVE Inv' OBVIOUS
<1>1. session \in Nat /\ session <= Absolute /\ Ended \in Nat /\ Ended <= Absolute
      /\ now \in Nat
  BY ConstantsTyped DEF Inv, TypeOK, Ended
<1>2. ASSUME NEW t \in Tab, Load(t) \/ Redirect(t) PROVE Inv'
  BY <1>2, LoadPageInv DEF Load, Redirect
<1>3. ASSUME NEW t \in Tab, Mount(t) PROVE Inv' BY <1>3, MountInv
<1>4. ASSUME NEW t \in Tab, Poll(t) PROVE Inv' BY <1>4, PollInv
<1>5. ASSUME NEW t \in Tab, Navigate(t) PROVE Inv' BY <1>5, TouchInv DEF Navigate
<1>6. ASSUME NEW t \in Tab, NEW extension \in Extension, Extend(t, extension) PROVE Inv'
  BY <1>6, TouchInv DEF Extend
<1>7. ASSUME NEW t \in Tab, LateTouch(t) PROVE Inv'
  <2>1. session' \in Nat /\ session' <= Absolute BY <1>1, <1>7, TouchedBounded DEF LateTouch
  <2> QED BY <1>7, <2>1, FewerAnswers DEF LateTouch
<1>8. ASSUME NEW t \in Tab, SignOut(t) PROVE Inv' BY <1>8, LogoutInv DEF SignOut
<1>9. ASSUME NEW t \in Tab, DestroySession(t) PROVE Inv'
  BY <1>1, <1>9, FewerAnswers DEF DestroySession
<1>10. ASSUME NEW t \in Tab, NEW message \in inbox[t], Hear(t, message) PROVE Inv'
  BY <1>10, HearInv
<1>11. ASSUME NEW f \in flight, Receive(f) PROVE Inv' BY <1>11, ReceiveInv
<1>12. ASSUME NEW f \in flight, Lose(f) PROVE Inv' BY <1>1, <1>12, FewerAnswers DEF Lose
<1>13. CASE Tick BY <1>13, TickInv
<1>14. CASE SessionEnds BY <1>1, <1>14, FewerAnswers DEF SessionEnds
<1>15. CASE UNCHANGED vars BY <1>1, <1>15, FewerAnswers DEF vars
<1> QED
  BY <1>2, <1>3, <1>4, <1>5, <1>6, <1>7, <1>8, <1>9, <1>10, <1>11, <1>12, <1>13, <1>14, <1>15
  DEF Next

LEMMA InvHolds == Spec => []Inv
BY InitInv, NextInv, PTL DEF Spec

(* The variables keep their types.                                         *)
THEOREM TypeCorrect == Spec => []TypeOK
<1>1. Inv => TypeOK BY DEF Inv
<1> QED BY <1>1, InvHolds, PTL

(* No clock that heard from the server promises more than the session can  *)
(* have, for any number of tabs, any extensions, and answers and messages  *)
(* that come as late as they like, in any order.                           *)
THEOREM ClocksBounded == Spec => []ClockWithinAbsolute
<1>1. Inv => ClockWithinAbsolute BY DEF Inv
<1> QED BY <1>1, InvHolds, PTL
=============================================================================
