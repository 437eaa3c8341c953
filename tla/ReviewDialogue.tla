--------------------------- MODULE ReviewDialogue ---------------------------
(***************************************************************************)
(* What the review of ONE application promises: a dialogue in turns.  The  *)
(* candidate writes and hands in; the commission may give the application  *)
(* back with one question, some points about what was handed in last, and  *)
(* has the turn again when it is answered or taken back.  A question and   *)
(* its answer are kept as they were, and what was ever handed in is not    *)
(* deleted.                                                                *)
(*                                                                         *)
(* ReviewWorkflow.tla implements this with its statuses, requests,         *)
(* annotations and snapshots.                                              *)
(***************************************************************************)
EXTENDS Naturals

CONSTANT Point  \* what the commission may ask for

VARIABLES
  turn,         \* whose turn it is
  submissions,  \* how often the candidate handed in
  work,         \* as it was handed in last, or edited since
  question,     \* the open question, in a set
  rounds        \* the questions that were answered, with their answers

vars == <<turn, submissions, work, question, rounds>>
-----------------------------------------------------------------------------
Init ==
  /\ turn = "candidate"
  /\ submissions = 0
  /\ work = "edited"
  /\ question = {}
  /\ rounds = {}

Write ==
  /\ turn = "candidate"
  /\ work' = "edited"
  /\ UNCHANGED <<turn, submissions, question, rounds>>

(* What is handed in answers the open question.                            *)
HandIn ==
  /\ turn = "candidate"
  /\ turn' = "commission"
  /\ submissions' = submissions + 1
  /\ work' = "submitted"
  /\ question' = {}
  /\ rounds' = rounds \cup
       {[about |-> q.about, answer |-> submissions + 1, points |-> q.points] : q \in question}

Ask ==
  /\ turn = "commission" /\ submissions > 0
  /\ turn' = "candidate"
  /\ \E points \in SUBSET Point :
       points # {} /\ question' = {[about |-> submissions, points |-> points]}
  /\ UNCHANGED <<submissions, work, rounds>>

(* What the candidate wrote meanwhile stays.                               *)
TakeBack ==
  /\ question # {}
  /\ turn' = "commission"
  /\ question' = {}
  /\ UNCHANGED <<submissions, work, rounds>>

(* A draft that was left alone.                                            *)
PutAside ==
  /\ turn = "candidate" /\ submissions = 0
  /\ turn' = "commission"
  /\ UNCHANGED <<submissions, work, question, rounds>>

Delete ==
  /\ turn # "gone" /\ submissions = 0
  /\ turn' = "gone"
  /\ work' = "edited"
  /\ UNCHANGED <<submissions, question, rounds>>

Next == Write \/ HandIn \/ Ask \/ TakeBack \/ PutAside \/ Delete

Spec == Init /\ [][Next]_vars
=============================================================================
