------------------------------- MODULE TeamRun -------------------------------
(***************************************************************************)
(* What a Team Mode session promises, without the connections that watch,  *)
(* session records, checkpoints and the nodes of the graph: there is one   *)
(* run at a time; a run asks whoever started it, at most once and before   *)
(* any review; it reviews a bounded number of times; and the session says  *)
(* that it awaits input only while its run waits for an answer.            *)
(***************************************************************************)
EXTENDS Integers

CONSTANTS Conns, Limit

VARIABLES
  owner,    \* the connection whose run it is, or 0
  phase,    \* idle, working or asking
  asked,    \* the run has asked
  reviews,  \* the reviews it has made
  question  \* the session says that it awaits input

vars == <<owner, phase, asked, reviews, question>>

Idle == owner = 0 /\ phase = "idle" /\ asked = FALSE /\ reviews = 0 /\ question = FALSE

Start(c) ==
  /\ Idle /\ owner' = c /\ phase' = "working"
  /\ UNCHANGED <<asked, reviews, question>>

Question ==
  /\ phase = "working" /\ ~asked /\ reviews = 0
  /\ phase' = "asking" /\ asked' = TRUE /\ question' = TRUE
  /\ UNCHANGED <<owner, reviews>>

\* Someone else's answer is noted: the run goes on waiting.
Noted ==
  /\ phase = "asking" /\ question /\ question' = FALSE
  /\ UNCHANGED <<owner, phase, asked, reviews>>

Answered ==
  /\ phase = "asking" /\ phase' = "working" /\ question' = FALSE
  /\ UNCHANGED <<owner, asked, reviews>>

Review ==
  /\ phase = "working" /\ reviews < Limit /\ reviews' = reviews + 1
  /\ UNCHANGED <<owner, phase, asked, question>>

\* The run ends or fails, its client goes or does not answer, the server restarts.
Finish == phase # "idle" /\ Idle'

Next ==
  \/ \E c \in Conns : Start(c)
  \/ Question \/ Noted \/ Answered \/ Review \/ Finish

Spec == Idle /\ [][Next]_vars
==============================================================================
