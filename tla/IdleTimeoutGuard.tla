--------------------------- MODULE IdleTimeoutGuard ---------------------------
(***************************************************************************)
(* The browser's side of a session: the tabs in which the guard runs, each *)
(* with a clock of its own, the requests they have under way, and the      *)
(* channel through which they tell one another of a new deadline or of a   *)
(* logout.                                                                 *)
(*                                                                         *)
(* A request is sent and served in one step; its answer comes late, in any *)
(* order or never, and messages arrive in any order.  The session is only  *)
(* its idle deadline here; Session has what happens to its record.         *)
(***************************************************************************)
EXTENDS Naturals, FiniteSets

CONSTANTS
  Tab,
  Idle,      \* the idle timeout, of the client as of the server
  Absolute,  \* the absolute deadline; the session starts at 0
  Prompt,    \* how long before its deadline a tab offers to extend
  Extension, \* what it can ask for
  MaxTime,   \* a bound on the clock
  MaxFlight  \* a bound on the answers under way to a tab

ASSUME GuardAssumption ==
  /\ {Idle, Absolute, Prompt, MaxTime, MaxFlight} \subseteq Nat \ {0}
  /\ Extension \subseteq Nat \ {0}
  /\ Idle < Absolute

VARIABLES
  now,
  session,  \* the idle deadline, Ended when there is no session
  tab,      \* the tabs
  flight,   \* the answers under way
  inbox     \* messages on their way to a tab

vars == <<now, session, tab, flight, inbox>>
-----------------------------------------------------------------------------
Ended == 0

(* away: a page without the guard; loading: rendered by the server for a   *)
(* session, but not mounted; leaving: doLogout has begun.  While the guard *)
(* does not run, clock is what sessionStorage has.                         *)
State == [phase: {"away", "loading", "open", "leaving"}, clock: Nat,
          heard: BOOLEAN]   \* the clock is a deadline of the server's

(* An answer carries the deadline of the session, or Ended.  A message     *)
(* carries a deadline, or Ended for a logout.                              *)
Answer == [tab: Tab, kind: {"status", "touch"}, deadline: Nat]

Later(a, b)   == IF a < b THEN b ELSE a
Earlier(a, b) == IF a < b THEN a ELSE b

Open(t) == tab[t].phase = "open"
To(t)   == {f \in flight : f.tab = t}

Init ==
  /\ now = 0
  /\ session = Earlier(Idle, Absolute)
  /\ tab = [t \in Tab |-> [phase |-> "away", clock |-> 0, heard |-> FALSE]]
  /\ flight = {}
  /\ inbox = [t \in Tab |-> {}]
-----------------------------------------------------------------------------
(* What the callbacks of the component do to a tab.  Only an open tab      *)
(* listens: once its logout has begun it ignores what still arrives, which *)
(* is dropped here.                                                        *)

Broadcast(t, message) ==
  inbox' = [s \in Tab |-> IF s # t /\ Open(s) THEN inbox[s] \cup {message} ELSE inbox[s]]

applyExpiry(t, deadline) ==
  tab' = [tab EXCEPT ![t].clock = Later(deadline, now), ![t].heard = TRUE]

doLogout(t) ==
  /\ tab' = [tab EXCEPT ![t] = [phase |-> "leaving", clock |-> 0, heard |-> FALSE]]
  /\ flight' = flight \ To(t)
  /\ inbox' = [s \in Tab |-> IF s = t THEN {} ELSE IF Open(s) THEN inbox[s] \cup {Ended} ELSE inbox[s]]
-----------------------------------------------------------------------------
(* A page is loaded, again or for the first time.  The layout has the      *)
(* guard in it only when there is a session, and what was under way for    *)
(* the page before is lost.                                                *)
LoadPage(t) ==
  /\ tab' = [tab EXCEPT ![t].phase = IF session = Ended THEN "away" ELSE "loading",
                        ![t].heard = FALSE]
  /\ flight' = flight \ To(t)
  /\ inbox' = [inbox EXCEPT ![t] = {}]

Load(t) ==
  /\ tab[t].phase \in {"away", "open"}
  /\ LoadPage(t)
  /\ UNCHANGED <<now, session>>

Status(t) == flight' = flight \cup {[tab |-> t, kind |-> "status", deadline |-> session]}

(* Mutant: the first, assumed deadline is told to the other tabs.          *)
MountLoud(t) ==
  /\ tab[t].phase = "loading"
  /\ tab' = [tab EXCEPT ![t].phase = "open", ![t].clock = IF @ > now THEN @ ELSE now + Idle]
  /\ Status(t)
  /\ Broadcast(t, tab'[t].clock)
  /\ UNCHANGED <<now, session>>

(* The bootstrap: the deadline left in sessionStorage, or one assumed, and *)
(* then a question to the server.                                          *)
Mount(t) ==
  /\ tab[t].phase = "loading"
  /\ tab' = [tab EXCEPT ![t].phase = "open", ![t].clock = IF @ > now THEN @ ELSE now + Idle]
  /\ Status(t)
  /\ UNCHANGED <<now, session, inbox>>
-----------------------------------------------------------------------------
MayAsk(t) == Open(t) /\ Cardinality(To(t)) < MaxFlight

(* The interval asks for the status.                                       *)
Poll(t) ==
  /\ MayAsk(t)
  /\ Status(t)
  /\ UNCHANGED <<now, session, tab, inbox>>

(* POST /api/session/touch, with an extension or 0.  Soon after another    *)
(* touch one without an extension has no effect.                           *)
Touched(extension) ==
  IF extension = 0 THEN {session, Earlier(now + Idle, Absolute)}
  ELSE {Earlier(now + extension, Absolute)}

Touch(t, extension) ==
  /\ MayAsk(t)
  /\ IF session = Ended THEN session' = Ended ELSE session' \in Touched(extension)
  /\ flight' = flight \cup {[tab |-> t, kind |-> "touch", deadline |-> session']}
  /\ UNCHANGED <<now, tab, inbox>>

(* The user goes to another page of the application ...                    *)
Navigate(t) == Touch(t, 0)

(* ... or takes what the dialog offers, which shows only near the deadline *)
(* and closes whenever a deadline is applied.                              *)
Prompting(t) == tab[t].clock <= now + Prompt

Extend(t, extension) == Prompting(t) /\ Touch(t, extension)

(* The server comes to a touch when the page that sent it is being left.   *)
LateTouch(t) ==
  /\ tab[t].phase \in {"loading", "leaving"}
  /\ session # Ended
  /\ \E extension \in Extension \cup {0} : session' \in Touched(extension)
  /\ UNCHANGED <<now, tab, flight, inbox>>

(* Mutant: the interval only looks for the end of the session.             *)
ReceiveDeaf(f) ==
  /\ IF f.deadline = Ended THEN doLogout(f.tab)
     ELSE /\ IF f.kind = "touch" THEN applyExpiry(f.tab, f.deadline) ELSE tab' = tab
          /\ flight' = flight \ {f}
          /\ UNCHANGED inbox
  /\ UNCHANGED <<now, session>>

(* Mutant: an answer that says there is no session is taken for none.      *)
ReceiveTrusting(f) ==
  /\ IF f.deadline = Ended THEN tab' = tab ELSE applyExpiry(f.tab, f.deadline)
  /\ flight' = flight \ {f}
  /\ UNCHANGED <<now, session, inbox>>

(* An answer arrives.  That of a touch is told to the other tabs.          *)
Receive(f) ==
  /\ IF f.deadline = Ended THEN doLogout(f.tab)
     ELSE /\ applyExpiry(f.tab, f.deadline)
          /\ flight' = flight \ {f}
          /\ IF f.kind = "touch" THEN Broadcast(f.tab, tab'[f.tab].clock) ELSE UNCHANGED inbox
  /\ UNCHANGED <<now, session>>

(* A request or its answer is lost, the server is overloaded, or the       *)
(* answer makes no sense: the callers do nothing.                          *)
Lose(f) ==
  /\ flight' = flight \ {f}
  /\ UNCHANGED <<now, session, tab, inbox>>
-----------------------------------------------------------------------------
(* A message of another tab.                                               *)
Hear(t, message) ==
  /\ message \in inbox[t]
  /\ IF message = Ended THEN doLogout(t)
     ELSE /\ applyExpiry(t, message)
          /\ inbox' = [inbox EXCEPT ![t] = @ \ {message}]
          /\ UNCHANGED flight
  /\ UNCHANGED <<now, session>>

(* The clock has run out, or the user chooses to leave in the dialog.      *)
SignOut(t) ==
  /\ Open(t) /\ Prompting(t)
  /\ doLogout(t)
  /\ UNCHANGED <<now, session>>

ClockRunsOut(t) == tab[t].clock <= now /\ SignOut(t)

(* POST /api/auth/logout may reach the server, and may not ...             *)
DestroySession(t) ==
  /\ tab[t].phase = "leaving"
  /\ session' = Ended
  /\ UNCHANGED <<now, tab, flight, inbox>>

(* ... and in either case the tab goes to the first page.                  *)
Redirect(t) ==
  /\ tab[t].phase = "leaving"
  /\ LoadPage(t)
  /\ UNCHANGED <<now, session>>
-----------------------------------------------------------------------------
(* Time, and the other ends of a session: its tokens cannot be refreshed,  *)
(* or it is found invalid.                                                 *)
Tick ==
  /\ now < MaxTime
  /\ now' = now + 1
  /\ session' = IF session <= now' THEN Ended ELSE session
  /\ UNCHANGED <<tab, flight, inbox>>

SessionEnds ==
  /\ session' = Ended
  /\ UNCHANGED <<now, tab, flight, inbox>>

Next ==
  \/ \E t \in Tab :
       \/ Load(t) \/ Mount(t) \/ Poll(t) \/ Navigate(t) \/ LateTouch(t)
       \/ SignOut(t) \/ DestroySession(t) \/ Redirect(t)
       \/ \E extension \in Extension : Extend(t, extension)
       \/ \E message \in inbox[t] : Hear(t, message)
  \/ \E f \in flight : Receive(f) \/ Lose(f)
  \/ Tick \/ SessionEnds

Spec == Init /\ [][Next]_vars

(* Intervals fire, pages that load are mounted, what arrived is handled,   *)
(* and a tab that asks again and again gets some answer.  Nothing makes    *)
(* the user act, and no clock is pressed.                                  *)
Fairness ==
  /\ \A t \in Tab :
       /\ WF_vars(Mount(t)) /\ WF_vars(Redirect(t)) /\ WF_vars(ClockRunsOut(t))
       /\ WF_vars(Poll(t))
       /\ WF_vars(\E message \in inbox[t] : Hear(t, message))
       /\ SF_vars(\E f \in To(t) : Receive(f))

FairSpec == Spec /\ Fairness
-----------------------------------------------------------------------------
(* Every variable holds a value of its type.                               *)
TypeOK ==
  /\ now \in 0 .. MaxTime
  /\ session \in Nat
  /\ tab \in [Tab -> State]
  /\ flight \subseteq Answer
  /\ inbox \in [Tab -> SUBSET Nat]

(* Once a tab has heard from the server, itself or through another tab,    *)
(* its clock never promises more than the session can have: the absolute   *)
(* deadline holds for every clock, however late the news.                  *)
ClockWithinAbsolute ==
  \A t \in Tab : tab[t].heard => tab[t].clock <= Later(Absolute, now)

(* When the session has ended, by whichever tab or by itself, the guard of *)
(* every tab finds out and leaves the page.                                *)
EveryTabLeaves == \A t \in Tab : session = Ended ~> tab[t].phase = "away"

(* Stale answers and messages do not last: when the user rests, all clocks *)
(* come to show the deadline of the session (in the code, to 1.5 s).       *)
AtRest == /\ session # Ended
          /\ \A f \in flight : f.kind # "touch"
          /\ \A t \in Tab : tab[t].phase \in {"away", "open"}
ClocksAgree == <>[]AtRest => <>[](\A t \in Tab : tab[t].phase = "open" => tab[t].clock = session)
=============================================================================
