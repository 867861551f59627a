----------------------------- MODULE TeamSession -----------------------------
(***************************************************************************)
(* One Team Mode session: the graph of roles that works on a task and the  *)
(* WebSocket connections that start it, answer its questions and watch it: *)
(* atoms_plus/team_mode/api.py, graph.py, router.py and nodes/.            *)
(*                                                                         *)
(* Handlers are coroutines of one event loop, which interleave at their    *)
(* awaits.  pc names where a connection's handler is.  The graph itself is *)
(* run by LangGraph: a node at a time, the next one when the handler asks  *)
(* for it, with checkpoints written behind its back.                       *)
(***************************************************************************)
EXTENDS Integers, Sequences

CONSTANTS
  MaxConns,      \* bound on connections, each of which comes once
  Recoverers,    \* POST /sessions/recover requests at the same time
  MaxIterations, \* max_iterations
  Execute,       \* should_handoff: the session is bound to a conversation
  MaxCrashes     \* bound on restarts of the server

ASSUME IterationsOK == MaxIterations \in 1 .. 10
ASSUME TeamOK == Execute \in BOOLEAN /\ MaxCrashes \in Nat /\ MaxConns \in Nat

\* Connections are numbered as they come.
Conns == 1 .. MaxConns

VARIABLES
  pc,       \* where the handler of each connection is
  left,     \* connections whose client has gone, which the handler has not seen
  run,      \* the run of the graph a handler executes
  mine,     \* the session record the handler holds: an index in sess
  sess,     \* every session record made since the server started
  table,    \* sessions[session_id]: an index in sess, or 0
  active,   \* session_id is in _active_executions
  db,       \* the state in the latest checkpoint                   (durable)
  rec,      \* where each request to recover is
  crashes   \* restarts so far

vars == <<pc, left, run, mine, sess, table, active, db, rec, crashes>>

\* What of TeamState decides where the graph goes.
NewState == [unclear |-> FALSE, code |-> FALSE, review |-> "none", iter |-> 0]
NoState == [NewState EXCEPT !.iter = -1]
NoRun == [at |-> "none", st |-> NoState, resumed |-> FALSE, reviews |-> 0]

Receiving == {"waiting", "helper", "observer"}
Working == {"starting", "running", "chunk", "ending", "failing", "hungup"}
Executing == {c \in Conns : pc[c] \in Working \cup {"waiting"}}

Init ==
  /\ pc = [c \in Conns |-> "new"] /\ left = {}
  /\ run = [c \in Conns |-> NoRun] /\ mine = [c \in Conns |-> 0]
  /\ sess = <<[state |-> NewState, status |-> "created"]>> /\ table = 1
  /\ active = FALSE /\ db = NoState
  /\ rec = [r \in Recoverers |-> "idle"]
  /\ crashes = 0

----------------------------------------------------------------------------
(* The graph                                                               *)

\* The architect reviews when there is code and plans when there is none, in
\* both of its nodes; a call of the LLM that fails changes nothing.
Design(st) ==
  {st} \cup {[st EXCEPT !.review = r] : r \in IF st.code THEN {"revise", "fine"} ELSE {}}

\* Mutant: reviews are not counted.
Uncounted(st) == st
Counted(st) == [st EXCEPT !.iter = @ + 1]

Outcomes(node, st) ==
  IF node = "detect" THEN {[st EXCEPT !.unclear = u] : u \in BOOLEAN}
  ELSE IF node = "architect" THEN Design(st)
  ELSE IF node = "engineer" THEN {st, [st EXCEPT !.code = TRUE]}
  ELSE IF node = "review" THEN Design(Counted(st))
  ELSE {st} \* refine, pm, handoff

\* Mutant: the limit is compared one too high.
RevisesOnceMore(st) == st.iter <= MaxIterations /\ st.review = "revise"
Revises(st) == st.iter < MaxIterations /\ st.review = "revise"

Following(node, st) ==
  IF node = "detect" THEN IF st.unclear THEN "await" ELSE "pm"
  ELSE IF node = "refine" THEN "pm"
  ELSE IF node = "pm" THEN "architect"
  ELSE IF node = "architect" THEN "engineer"
  ELSE IF node = "engineer" THEN "review"
  ELSE IF node = "review" /\ Revises(st) THEN "engineer"
  ELSE IF node = "review" /\ Execute THEN "handoff"
  ELSE "end"

----------------------------------------------------------------------------
(* A connection that executes the graph                                    *)

Status(c, s) == [sess EXCEPT ![mine[c]].status = s]
Gone(c) == pc' = [pc EXCEPT ![c] = "gone"] /\ mine' = [mine EXCEPT ![c] = 0]

\* The handler returns, through its finally block.
Returns(c, records) ==
  /\ Gone(c) /\ run' = [run EXCEPT ![c] = NoRun] /\ left' = left \ {c}
  /\ active' = FALSE /\ sess' = records

\* What is not WebSocketDisconnect makes it an error of the session, which the
\* client is told before the handler returns.
Fails(c, records) ==
  /\ sess' = [records EXCEPT ![mine[c]].status = "error"]
  /\ pc' = [pc EXCEPT ![c] = "failing"] /\ UNCHANGED <<left, run, mine, active>>

\* A send to a client that has gone may raise, WebSocketDisconnect or another
\* exception; records are the session records by then.
SendRaises(c, records) == c \in left /\ (Returns(c, records) \/ Fails(c, records))

\* Mutant: whoever connects may execute.
NeverBusy == FALSE
Busy == active

Connect(c) ==
  /\ pc[c] = "new" /\ \A d \in Conns : d < c => pc[d] # "new"
  /\ IF table = 0
     THEN Gone(c) /\ UNCHANGED active
     ELSE /\ mine' = [mine EXCEPT ![c] = table]
          /\ \/ /\ sess[table].status = "awaiting_input"
                /\ pc' = [pc EXCEPT ![c] = "helper"] /\ UNCHANGED active
             \/ /\ sess[table].status # "awaiting_input" /\ Busy
                /\ pc' = [pc EXCEPT ![c] = "observer"] /\ UNCHANGED active
             \/ /\ sess[table].status # "awaiting_input" /\ ~Busy
                /\ pc' = [pc EXCEPT ![c] = "starting"] /\ active' = TRUE
  /\ UNCHANGED <<left, run, sess, table, db, rec, crashes>>

\* The graph begins at its entry, whatever the checkpoint says.
StartRun(c) ==
  /\ pc[c] = "starting"
  /\ \/ /\ pc' = [pc EXCEPT ![c] = "running"]
        /\ run' = [run EXCEPT ![c] = [NoRun EXCEPT !.at = "detect",
                                                   !.st = sess[mine[c]].state]]
        /\ sess' = Status(c, "running") /\ UNCHANGED <<left, mine, active>>
     \/ SendRaises(c, Status(c, "running"))
  /\ UNCHANGED <<table, db, rec, crashes>>

\* History: the reviews of a run, counted to one more than are allowed.
Reviewed(r) ==
  IF r.at = "review" /\ r.reviews <= MaxIterations THEN r.reviews + 1 ELSE r.reviews

RunNode(c) ==
  /\ pc[c] = "running" /\ run[c].at \notin {"await", "end"}
  /\ \E st \in Outcomes(run[c].at, run[c].st) :
       run' = [run EXCEPT ![c].st = st, ![c].reviews = Reviewed(run[c])]
  /\ pc' = [pc EXCEPT ![c] = "chunk"]
  /\ UNCHANGED <<left, mine, sess, table, active, db, rec, crashes>>

\* The checkpointer cannot be opened, or astream raises: it again, or answers
\* the node cannot read.
GraphRaises(c) ==
  /\ pc[c] \in {"starting", "running"}
  /\ Fails(c, sess)
  /\ UNCHANGED <<table, db, rec, crashes>>

\* The thought goes out; what is streamed after a resumption stays out of the
\* session record.
HandleChunk(c) ==
  /\ pc[c] = "chunk"
  /\ \/ /\ sess' = IF run[c].resumed THEN sess
                   ELSE [sess EXCEPT ![mine[c]].state = run[c].st]
        /\ run' = [run EXCEPT ![c].at = Following(run[c].at, run[c].st)]
        /\ pc' = [pc EXCEPT ![c] = "running"] /\ UNCHANGED <<left, mine, active>>
     \/ SendRaises(c, sess)
  /\ UNCHANGED <<table, db, rec, crashes>>

\* interrupt(): the questions go to the client.
Ask(c) ==
  /\ pc[c] = "running" /\ run[c].at = "await"
  /\ \/ /\ sess' = Status(c, "awaiting_input")
        /\ pc' = [pc EXCEPT ![c] = "waiting"] /\ UNCHANGED <<left, run, mine, active>>
     \/ SendRaises(c, sess)
  /\ UNCHANGED <<table, db, rec, crashes>>

\* clarification:answer or :skip; the graph goes on behind the interrupt.
Answer(c) ==
  /\ pc[c] = "waiting" /\ c \notin left
  /\ sess' = Status(c, "running")
  /\ run' = [run EXCEPT ![c].at = "refine", ![c].resumed = TRUE]
  /\ pc' = [pc EXCEPT ![c] = "running"]
  /\ UNCHANGED <<left, mine, table, active, db, rec, crashes>>

Complete(c) ==
  /\ pc[c] = "running" /\ run[c].at = "end"
  /\ sess' = Status(c, "completed") /\ db' = run[c].st
  /\ pc' = [pc EXCEPT ![c] = "ending"]
  /\ UNCHANGED <<left, run, mine, table, active, rec, crashes>>

End(c) ==
  /\ pc[c] = "ending"
  /\ Returns(c, sess) \/ SendRaises(c, sess)
  /\ UNCHANGED <<table, db, rec, crashes>>

\* LangGraph writes its checkpoints while the graph goes on.
Checkpoint(c) ==
  /\ pc[c] \in {"running", "chunk", "waiting"} /\ db # run[c].st
  /\ db' = run[c].st
  /\ UNCHANGED <<pc, left, run, mine, sess, table, active, rec, crashes>>

----------------------------------------------------------------------------
(* Other connections, failures, recovery                                   *)

\* _handle_clarification_response: the answer is noted and acknowledged.
Acknowledge(c) ==
  /\ pc[c] = "helper"
  /\ sess' = Status(c, "ready_to_resume")
  /\ Gone(c)
  /\ UNCHANGED <<left, run, table, active, db, rec, crashes>>

\* A client goes; a handler that only receives is told by ReceiveRaises.
Leave(c) ==
  /\ c \in Executing \ left
  /\ left' = left \cup {c}
  /\ UNCHANGED <<pc, run, mine, sess, table, active, db, rec, crashes>>

\* Mutant: a session whose client has gone keeps waiting for an answer.
KeepsAwaiting(c) == sess
HungUp(c) == Status(c, "error")

\* receive_json raises: the client is gone, or what it sent is not JSON.
ReceiveRaises(c) ==
  /\ pc[c] \in Receiving
  /\ IF pc[c] = "waiting"
     THEN /\ sess' = HungUp(c) /\ pc' = [pc EXCEPT ![c] = "hungup"]
          /\ UNCHANGED mine
     ELSE Gone(c) /\ UNCHANGED sess
  /\ UNCHANGED <<left, run, active, table, db, rec, crashes>>

\* The error goes out.  That send may raise, too: it is ignored, unless it is
\* the one of a client that was waited for, which is an error once more.
Report(c) ==
  /\ pc[c] \in {"failing", "hungup"}
  /\ \/ Returns(c, sess)
     \/ /\ pc[c] = "hungup" /\ c \in left /\ sess' = HungUp(c)
        /\ UNCHANGED <<pc, left, run, mine, active>>
  /\ UNCHANGED <<table, db, rec, crashes>>

\* The server is restarted: everything in memory goes.
Crash ==
  /\ crashes < MaxCrashes /\ crashes' = crashes + 1
  /\ pc' = [c \in Conns |-> IF pc[c] = "new" THEN "new" ELSE "gone"]
  /\ run' = [c \in Conns |-> NoRun] /\ mine' = [c \in Conns |-> 0]
  /\ sess' = <<>> /\ table' = 0 /\ active' = FALSE
  /\ rec' = [r \in Recoverers |-> "idle"] /\ left' = {}
  /\ UNCHANGED db

\* recover_session: the session is looked for ...
Recover(r) ==
  /\ rec[r] = "idle" /\ table = 0
  /\ rec' = [rec EXCEPT ![r] = "loading"]
  /\ UNCHANGED <<pc, left, run, mine, sess, table, active, db, crashes>>

\* Mutant: a session without a checkpoint is entered too.
NeverMissing == FALSE
Missing == db = NoState

\* ... and entered when its checkpoint has been read, without another look.
Recovered(r) ==
  /\ rec[r] = "loading" /\ rec' = [rec EXCEPT ![r] = "idle"]
  /\ IF Missing THEN UNCHANGED <<sess, table>>
     ELSE /\ sess' = Append(sess, [state |-> db, status |-> "recovered"])
          /\ table' = Len(sess) + 1
  /\ UNCHANGED <<pc, left, run, mine, active, db, crashes>>

----------------------------------------------------------------------------
Work(c) ==
  \/ StartRun(c) \/ RunNode(c) \/ HandleChunk(c) \/ Ask(c) \/ Complete(c) \/ End(c)
  \/ Report(c)

Next ==
  \/ \E c \in Conns :
       \/ Connect(c) \/ Work(c) \/ GraphRaises(c) \/ Answer(c) \/ Checkpoint(c)
       \/ Acknowledge(c) \/ Leave(c) \/ ReceiveRaises(c)
  \/ Crash
  \/ \E r \in Recoverers : Recover(r) \/ Recovered(r)

Spec == Init /\ [][Next]_vars

\* Nodes end (the LLM client has a default timeout) and handlers go on; clients owe
\* nothing.
FairSpec == Spec /\ \A c \in Conns : WF_vars(Work(c))

----------------------------------------------------------------------------
(* Properties.                                                             *)

TeamState == [unclear : BOOLEAN, code : BOOLEAN,
              review : {"none", "revise", "fine"}, iter : Nat]
Statuses == {"created", "running", "awaiting_input", "ready_to_resume",
             "completed", "error", "recovered"}
Nodes == {"detect", "await", "refine", "pm", "architect", "engineer", "review",
          "handoff", "end"}

Run == [at : Nodes \cup {"none"}, st : TeamState \cup {NoState},
        resumed : BOOLEAN, reviews : Nat]
Record == [state : TeamState, status : Statuses]

HandlerType ==
  /\ pc \in [Conns -> {"new", "gone"} \cup Working \cup Receiving]
  /\ left \subseteq Executing
  /\ mine \in [Conns -> Nat] /\ run \in [Conns -> Run]
  /\ active \in BOOLEAN
RecordType ==
  /\ sess \in Seq(Record) /\ table \in 0 .. Len(sess)
  /\ db \in TeamState \cup {NoState}
  /\ rec \in [Recoverers -> {"idle", "loading"}] /\ crashes \in 0 .. MaxCrashes
HeldType ==
  \A c \in Conns :
    /\ pc[c] \in Working \cup Receiving => mine[c] \in 1 .. Len(sess)
    /\ pc[c] \in {"running", "chunk", "ending", "waiting"} =>
         run[c].at \in Nodes /\ run[c].st \in TeamState

\* The variables keep their types; a handler that executes holds a run, one that
\* is not over a session record.
TypeOK == HandlerType /\ RecordType /\ HeldType

\* "Only one execution per session is allowed at a time", whoever connects,
\* leaves, answers or recovers the session in between, and the mark of an
\* execution never outlives it (api.py 428-430, 478-502, 689-691).
OneExecution ==
  /\ \A c, d \in Executing : c = d
  /\ active <=> Executing # {}

\* No run reviews more often than max_iterations, also when the reviews fail and
\* leave the verdict of an earlier one, or of an earlier run, in the state
\* (router.py 37-44, graph.py 66).
ReviewsBounded == \A c \in Conns : run[c].reviews <= MaxIterations

\* Whose run it is, what it does, and what the session says of it.
Owner == IF Executing = {} THEN 0 ELSE CHOOSE c \in Executing : TRUE
Asking == {"waiting", "hungup"}
Phase ==
  IF Owner = 0 THEN "idle" ELSE IF pc[Owner] \in Asking THEN "asking" ELSE "working"
Asked == Owner # 0 /\ (pc[Owner] \in Asking \/ run[Owner].resumed)
Reviews == IF Owner = 0 THEN 0 ELSE run[Owner].reviews
Question == \E n \in DOMAIN sess : sess[n].status = "awaiting_input"

\* The session is one run at a time, which asks at most once and before any
\* review, and is over for all when it is over: no handler, restart or recovery
\* makes a run ask again or review on (api.py 426-691, graph.py, clarification.py).
Promise ==
  INSTANCE TeamRun WITH Limit <- MaxIterations, owner <- Owner, phase <- Phase,
                        asked <- Asked, reviews <- Reviews, question <- Question
RefinesRun == Promise!Spec

\* A session says awaiting_input only while the connection that asked is there
\* to resume it: none is left waiting with nobody able to go on
\* (api.py 547, 589-598).
AwaitingIsHeld ==
  \A n \in DOMAIN sess : sess[n].status = "awaiting_input" =>
    \E c \in Conns : pc[c] = "waiting" /\ mine[c] = n

\* A run comes to its end or to its questions, whatever the reviews say and
\* whoever leaves (route_after_review, stream_session).
RunEnds == \A c \in Conns : pc[c] \in Working ~> pc[c] \notin Working
==============================================================================
