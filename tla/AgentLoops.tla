------------------------------ MODULE AgentLoops ------------------------------
(***************************************************************************)
(* The agent loops and the client connections of one server:               *)
(* openhands/server/conversation_manager/standalone_conversation_manager.py*)
(*                                                                         *)
(* Requests and the cleanup are tasks of one event loop, which interleave  *)
(* at their awaits; what lies between two awaits is one step.  pc names    *)
(* the await a task is suspended in.                                       *)
(***************************************************************************)
EXTENDS Integers, Sequences, FiniteSets

CONSTANTS
  Sids,        \* conversations, of one user
  Conns,       \* connection ids; the server never sees one twice
  Requests,    \* HTTP and socket handlers that may run at the same time
  Cleaners,    \* tasks _cleanup_stale may have under way at the same time
  MaxLoops,    \* config.max_concurrent_conversations
  MaxSessions, \* bound: sessions started in a run
  Nobody       \* no conversation

ASSUME LoopsOK == MaxLoops \in Nat \ {0} /\ MaxSessions \in Nat
ASSUME NamesOK ==
  Nobody \notin Sids /\ "new" \notin Sids /\ "gone" \notin Sids
ASSUME TasksOK ==
  IsFiniteSet(Sids) /\ IsFiniteSet(Requests) /\ Requests \cap Cleaners = {}

VARIABLES
  loops,       \* _local_agent_loops_by_sid: index in sess, or 0
  sess,        \* every Session made: its sid, and whether open, closing, closed
  conn,        \* _local_connection_id_to_session_id; "new" before, "gone" after
  task         \* what each task is doing

vars == <<loops, sess, conn, task>>

Tasks == Requests \cup Cleaners
Idle == [pc |-> "idle", sid |-> Nobody, victims |-> {},
         target |-> Nobody, todo |-> {}, mine |-> 0]

Init ==
  /\ loops = [s \in Sids |-> 0] /\ sess = <<>>
  /\ conn = [c \in Conns |-> "new"]
  /\ task = [t \in Tasks |-> Idle]

Running == {s \in Sids : loops[s] # 0}
Joined(s) == {c \in Conns : conn[c] = s}

----------------------------------------------------------------------------
(* Starting a loop                                                         *)

\* A request that will make a session, not sooner than after an await.
Starters == {t \in Tasks : task[t].sid # Nobody}
InBound == Len(sess) + Cardinality(Starters) < MaxSessions

\* Mutant: what was closed last is not forgotten.
RestWithTarget(job) == [job EXCEPT !.pc = IF job.victims = {} THEN "idle" ELSE "evict"]
Rest(job) ==
  IF job.victims = {} THEN Idle
  ELSE [Idle EXCEPT !.pc = "evict", !.sid = job.sid, !.victims = job.victims]

\* Task t is through with what it awaited; S are the sessions, L the loops by
\* then.  A start with a loop still to evict tells its clients first; one with
\* none makes its Session, without another look at the loops.
Proceed(t, job, S, L) ==
  LET makes == job.sid # Nobody /\ job.victims = {} IN
  /\ task' = [task EXCEPT ![t] = Rest(job)]
  /\ sess' = IF makes THEN Append(S, [sid |-> job.sid, life |-> "open"]) ELSE S
  /\ loops' = IF makes THEN [L EXCEPT ![job.sid] = Len(S) + 1] ELSE L

\* Mutant: only the loops that have clients count.
FullOfClients == Cardinality({s \in Running : Joined(s) # {}}) >= MaxLoops
Full == Cardinality(Running) >= MaxLoops

\* Which ones are the oldest is a matter of their metadata: any may be.
Evictions ==
  {V \in SUBSET Running : Cardinality(V) = Cardinality(Running) - MaxLoops + 1}

\* Mutant: a running loop is not looked for.
NeverFound(s) == FALSE
Found(s) == loops[s] # 0

MaybeStart(t, s) ==
  \/ Found(s) /\ UNCHANGED <<loops, sess, task>>
  \/ /\ ~Found(s) /\ ~Full /\ InBound
     /\ sess' = Append(sess, [sid |-> s, life |-> "open"])
     /\ loops' = [loops EXCEPT ![s] = Len(sess) + 1]
     /\ UNCHANGED task
  \/ /\ ~Found(s) /\ Full /\ InBound
     /\ \E V \in Evictions :
          task' = [task EXCEPT ![t] = [Idle EXCEPT !.pc = "evict", !.sid = s, !.victims = V]]
     /\ UNCHANGED <<loops, sess>>

\* A request of the REST API: start a conversation
Start(t, s) == task[t] = Idle /\ MaybeStart(t, s) /\ UNCHANGED conn

Join(t, c, s) ==
  /\ task[t] = Idle /\ conn[c] = "new"
  /\ conn' = [conn EXCEPT ![c] = s]
  /\ MaybeStart(t, s)

\* The client goes: disconnect_from_session.
Leave(c) ==
  /\ conn[c] \in Sids /\ conn' = [conn EXCEPT ![c] = "gone"]
  /\ UNCHANGED <<loops, sess, task>>

----------------------------------------------------------------------------
(* Closing a session                                                       *)

\* Mutant: the session is looked up, and leaves the loops only once closed.
Lookup(L, s) == L
Popped(L, s) == [L EXCEPT ![s] = 0]

\* With no connection left to disconnect: the session leaves the loops and
\* begins to close; job is the task's record.
PopSession(t, job, C) ==
  /\ conn' = C
  /\ LET n == loops[job.target] IN
     IF n = 0
     THEN Proceed(t, job, sess, loops)
     ELSE /\ loops' = Popped(loops, job.target)
          /\ sess' = [sess EXCEPT ![n].life = "closing"]
          /\ task' = [task EXCEPT ![t] = [job EXCEPT !.pc = "closing", !.mine = n, !.todo = {}]]

\* _close_session as far as its first await
BeginClose(t, job, s) ==
  IF Joined(s) = {}
  THEN PopSession(t, [job EXCEPT !.target = s], conn)
  ELSE /\ task' = [task EXCEPT ![t] = [job EXCEPT !.pc = "disconnect",
                                         !.target = s, !.todo = Joined(s)]]
       /\ UNCHANGED <<loops, sess, conn>>

\* The clients of one of the oldest loops have been told: close_session.
Evict(t) ==
  /\ task[t].pc = "evict"
  /\ \E v \in task[t].victims :
       LET job == [task[t] EXCEPT !.victims = @ \ {v}] IN
       IF loops[v] # 0
       THEN BeginClose(t, job, v)
       ELSE Proceed(t, job, sess, loops) /\ UNCHANGED conn

Disconnect(t) ==
  /\ task[t].pc = "disconnect"
  /\ \E c \in task[t].todo :
       LET job == [task[t] EXCEPT !.todo = @ \ {c}]
           C == [conn EXCEPT ![c] = "gone"] IN
       IF job.todo = {}
       THEN PopSession(t, job, C)
       ELSE /\ conn' = C /\ task' = [task EXCEPT ![t] = job]
            /\ UNCHANGED <<loops, sess>>

\* session.close() returns.
Closed(t) ==
  /\ task[t].pc = "closing"
  /\ Proceed(t, task[t], [sess EXCEPT ![task[t].mine].life = "closed"], loops)
  /\ UNCHANGED conn

\* close_session, for the request that stops or deletes the conversation
Stop(t, s) ==
  /\ task[t] = Idle /\ loops[s] # 0
  /\ BeginClose(t, Idle, s)

\* _cleanup_stale takes the loops that have been idle, whatever it takes them
\* for, and no connection; each is closed by a task of its own.
Select(t, s) ==
  /\ task[t] = Idle /\ loops[s] # 0 /\ Joined(s) = {}
  /\ \A u \in Cleaners : task[u].target # s
  /\ task' = [task EXCEPT ![t] = [Idle EXCEPT !.pc = "selected", !.target = s]]
  /\ UNCHANGED <<loops, sess, conn>>
CleanUp(t) == task[t].pc = "selected" /\ BeginClose(t, task[t], task[t].target)

\* What the task awaits raises: the message to the clients of an evicted loop,
\* a disconnect or session.close, and with it the start it is part of ends; or
\* wait_all cancels a close of the cleanup that has not ended after
\* WAIT_TIME_BEFORE_CLOSE.  Nothing is undone.
GiveUp(t) ==
  /\ task[t].pc \in {"evict", "disconnect", "closing"}
  /\ task' = [task EXCEPT ![t] = Idle]
  /\ UNCHANGED <<loops, sess, conn>>

Work(t) == Evict(t) \/ Disconnect(t) \/ Closed(t) \/ CleanUp(t)
Next ==
  \/ \E t \in Requests, s \in Sids : Start(t, s) \/ Stop(t, s)
  \/ \E t \in Requests, s \in Sids, c \in Conns : Join(t, c, s)
  \/ \E c \in Conns : Leave(c)
  \/ \E t \in Cleaners, s \in Sids : Select(t, s)
  \/ \E t \in Tasks : Work(t) \/ GiveUp(t)

Spec == Init /\ [][Next]_vars

----------------------------------------------------------------------------
(* Properties.                                                             *)

\* The variables keep their types; an idle task remembers nothing.
TypeOK ==
  /\ sess \in Seq([sid : Sids, life : {"open", "closing", "closed"}])
  /\ loops \in [Sids -> 0 .. Len(sess)]
  /\ conn \in [Conns -> Sids \cup {"new", "gone"}]
  /\ \A t \in Tasks :
       /\ task[t].pc \in {"idle", "evict", "selected", "disconnect", "closing"}
       /\ task[t].sid \in Sids \cup {Nobody}
       /\ task[t].target \in Sids \cup {Nobody}
       /\ task[t].victims \subseteq Sids /\ task[t].todo \subseteq Conns
       /\ task[t].mine \in 0 .. Len(sess)
       /\ task[t].pc = "idle" <=> task[t] = Idle

\* A loop that requests can find is that of its conversation and is not being
\* closed: no message is dispatched to a session on its way out
\* (standalone_conversation_manager.py 388-392, 589).
RegisteredIsOpen ==
  \A s \in Sids : loops[s] # 0 => sess[loops[s]] = [sid |-> s, life |-> "open"]

\* Stops, evictions and the cleanup may all go for one conversation: its
\* session is closed by one of them only (lines 589-592).
ClosedByOne ==
  \A t, u \in Tasks :
    task[t].pc = "closing" /\ task[u].pc = "closing" /\ t # u =>
      task[t].mine # task[u].mine

\* Stated by "Start an event loop if one is not already running"
\* (conversation_manager.py:116): a conversation has no second open session,
\* that nothing refers to and nothing will ever close.
OpenIsRegistered ==
  \A n \in 1 .. Len(sess) : sess[n].life = "open" => loops[sess[n].sid] = n

\* Requests that find the limit reached at the same time pass it together, each
\* by its own loop and never by more, however often evictions, stops and the
\* cleanup meet ("Maximum number of concurrent conversations per user",
\* config.template.toml:90; standalone_conversation_manager.py 318-350).
LimitPassedByRace == Cardinality(Running) <= MaxLoops + Cardinality(Requests) - 1
==============================================================================
