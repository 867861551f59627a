------------------------------ MODULE ClusterLoops ------------------------------
(***************************************************************************)
(* One conversation on several servers that share a Redis                  *)
(* (enterprise/server/clustered_conversation_manager.py): which of them    *)
(* runs its agent loop, and what becomes of the clients connected to the   *)
(* others when that one closes it or crashes.                              *)
(*                                                                         *)
(* Keys in Redis expire: their time to live is counted in ticks, of the    *)
(* length of the interval between two updates of the state.  What is       *)
(* assumed of the time a server takes is in the guard of Tick.             *)
(***************************************************************************)
EXTENDS Integers, Sequences

CONSTANTS
  Node,        \* the servers
  Ttl,         \* _REDIS_ENTRY_TIMEOUT_SECONDS, in ticks
  MaxLate,     \* the longest a server goes without updating its state
  MaxStart,    \* the longest a claimed loop takes to be registered
  MaxJoins,    \* bound: connections made
  MaxTrouble   \* bound: idle loops closed, requests to close, crashes, starts
               \* that raise, and updates others are served in the middle of

ASSUME TimesOK ==
  /\ {Ttl, MaxLate, MaxStart} \subseteq Nat /\ MaxLate + MaxStart < Ttl
ASSUME BoundsOK == {MaxJoins, MaxTrouble} \subseteq Nat

\* What a server does at once: a client joins, messages are processed, the
\* loop of a stopped server is started here, idle loops are closed, and a
\* request to close is served.
Task == {"join", "listener", "rescue", "cleanup", "stop"}

VARIABLES
  key,      \* ohcnv:<user>:<conversation>: ticks left, 0 when there is none
  connKey,  \* ohcnct:...: the same for the connection to each server
  up,       \* the servers that run
  loop,     \* those with the conversation in _local_agent_loops_by_sid
  conn,     \* those with a client of it in _local_connection_id_to_session_id
  at,       \* where each task of each server is
  found,    \* to_delete of each task holds the key of its connection
  inbox,    \* messages of session_msg each server has not read
  beat,     \* the pipeline each server is still to execute, or NoBeat
  late,     \* ticks since each server's last update
  spent     \* what is left of the bounds

vars == <<key, connKey, up, loop, conn, at, found, inbox, beat, late, spent>>

NoBeat == {"none"}
Bound == [joins |-> MaxJoins, trouble |-> MaxTrouble]
AllIdle == [t \in Task |-> "idle"]

Init ==
  /\ key = 0 /\ connKey = [n \in Node |-> 0] /\ up = Node
  /\ loop = {} /\ conn = {}
  /\ at = [n \in Node |-> AllIdle] /\ found = {}
  /\ inbox = [n \in Node |-> <<>>] /\ beat = [n \in Node |-> NoBeat]
  /\ late = [n \in Node |-> 0]
  /\ spent = [b \in DOMAIN Bound |-> 0]

Spend(what) ==
  /\ spent[what] < Bound[what]
  /\ spent' = [spent EXCEPT ![what] = @ + 1]

Goes(n, t, to) == at' = [at EXCEPT ![n][t] = to]
Moves(n, t, from, to) == n \in up /\ at[n][t] = from /\ Goes(n, t, to)

redis == <<key, connKey>>
server == <<up, loop, conn>>
update == <<beat, late>>

----------------------------------------------------------------------------
(* Starting: the key is set if there is none, then the loop is registered. *)
(* When there is one, the event store is all that is looked for.           *)

\* Mutant: the key is set in any case.
AnyKey == TRUE
NoKey == key = 0

\* A client's connection is noted and the key is tried.
Join(n) ==
  /\ n \notin conn /\ conn' = conn \cup {n} /\ Spend("joins")
  /\ Moves(n, "join", "idle", IF NoKey THEN "start" ELSE "idle")
  /\ key' = IF NoKey THEN Ttl ELSE key
  /\ UNCHANGED <<connKey, up, loop, found, inbox, update>>

Leave(n) ==
  /\ n \in conn /\ conn' = conn \ {n}
  /\ UNCHANGED <<redis, up, loop, at, found, inbox, update, spent>>

Claim(n, t) ==
  /\ NoKey /\ Moves(n, t, "claim", "start") /\ key' = Ttl
  /\ UNCHANGED <<connKey, server, found, inbox, update, spent>>
RunsElsewhere(n, t) ==
  /\ ~NoKey /\ Moves(n, t, "claim", "idle")
  /\ UNCHANGED <<redis, server, found, inbox, update, spent>>

Register(n, t) ==
  /\ Moves(n, t, "start", "idle") /\ loop' = loop \cup {n}
  /\ UNCHANGED <<redis, up, conn, found, inbox, update, spent>>
\* The start raises before that, say in the eviction of another loop: the key
\* is left to expire, with nobody behind it.
StartRaises(n, t) ==
  /\ Moves(n, t, "start", "idle") /\ Spend("trouble")
  /\ UNCHANGED <<redis, server, found, inbox, update>>

\* A loop is not started for a client of a stopped one when there are too many.
TooMany(n, t) ==
  /\ t \in {"listener", "rescue"} /\ Moves(n, t, "claim", "idle")
  /\ conn' = conn \ {n}
  /\ UNCHANGED <<redis, up, loop, found, inbox, update, spent>>

----------------------------------------------------------------------------
(* Closing                                                                 *)

Send(msg, to) ==
  inbox' = [n \in Node |-> IF n \in to THEN Append(inbox[n], msg) ELSE inbox[n]]
\* A message reaches those servers whose subscription stands.
Publish(msg) == \E to \in SUBSET up : Send(msg, to)

\* What runs is deleted, or stopped, by its user.
Stop(n) ==
  /\ n \in loop \/ key > 0
  /\ Moves(n, "stop", "idle", "close") /\ Spend("trouble") /\ Publish("close")
  /\ UNCHANGED <<redis, server, found, update>>

CloseConnections(n, t) ==
  /\ Moves(n, t, "close", "pop")
  /\ found' = IF n \in conn /\ connKey[n] > 0 THEN found \cup {<<n, t>>} ELSE found
  /\ conn' = conn \ {n}
  /\ UNCHANGED <<redis, up, loop, inbox, update, spent>>

Pop(n, t) ==
  /\ n \in loop /\ Moves(n, t, "pop", "delete") /\ loop' = loop \ {n}
  /\ UNCHANGED <<redis, up, conn, found, inbox, update, spent>>
\* The deletion of what was found is not awaited, and never happens.
NothingToClose(n, t) ==
  /\ n \notin loop /\ Moves(n, t, "pop", "idle") /\ found' = found \ {<<n, t>>}
  /\ UNCHANGED <<redis, server, inbox, update, spent>>

\* The keys are deleted and the other servers are told.
DeleteKeys(n, t) ==
  /\ Moves(n, t, "delete", "closing") /\ key' = 0
  /\ connKey' = IF <<n, t>> \in found THEN [connKey EXCEPT ![n] = 0] ELSE connKey
  /\ found' = found \ {<<n, t>>} /\ Publish("closing")
  /\ UNCHANGED <<server, update, spent>>
\* session.close is awaited, which may take long: until then a listener reads
\* no other message.  What it does is the matter of AgentSession.
SessionClosed(n, t) ==
  /\ Moves(n, t, "closing", "idle")
  /\ UNCHANGED <<redis, server, found, inbox, update, spent>>

----------------------------------------------------------------------------
(* Messages, updates and the cleanup                                       *)

Reaction(n, msg) ==
  IF msg = "close" /\ n \in loop THEN "close"
  ELSE IF msg = "closing" /\ n \in conn THEN "claim"
  ELSE "idle"
Listen(n) ==
  /\ inbox[n] # <<>> /\ Moves(n, "listener", "idle", Reaction(n, Head(inbox[n])))
  /\ inbox' = [inbox EXCEPT ![n] = Tail(@)]
  /\ UNCHANGED <<redis, server, found, update, spent>>

\* The pipeline of an update: a connection gets a key only when there is one of
\* the conversation.
Pipeline(n) ==
  {x \in {"loop", "conn"} : \/ x = "loop" /\ n \in loop
                            \/ x = "conn" /\ n \in conn /\ key > 0}
\* Mutant: the key gets more time on top of what it has left.
AddTime(pipe) == IF "loop" \in pipe THEN key + Ttl ELSE key
\* Mutant: only a loop with a client here is kept alive.
WithClient(pipe) == IF pipe = {"loop", "conn"} THEN Ttl ELSE key
SetKey(pipe) == IF "loop" \in pipe THEN Ttl ELSE key
Execute(n, pipe) ==
  /\ key' = SetKey(pipe)
  /\ connKey' = IF "conn" \in pipe THEN [connKey EXCEPT ![n] = Ttl] ELSE connKey
  /\ late' = [late EXCEPT ![n] = 0]

UpdateRedis(n) ==
  /\ n \in up /\ late[n] > 0 /\ beat[n] = NoBeat
  /\ Execute(n, Pipeline(n))
  /\ UNCHANGED <<server, at, found, inbox, beat, spent>>

\* Others may be served between the two halves of an update.
Collect(n) ==
  /\ n \in up /\ late[n] > 0 /\ beat[n] = NoBeat
  /\ beat' = [beat EXCEPT ![n] = Pipeline(n)] /\ Spend("trouble")
  /\ UNCHANGED <<redis, server, at, found, inbox, late>>
ExecuteLater(n) ==
  /\ n \in up /\ beat[n] # NoBeat
  /\ Execute(n, beat[n]) /\ beat' = [beat EXCEPT ![n] = NoBeat]
  /\ UNCHANGED <<server, at, found, inbox, spent>>

\* _disconnect_from_stopped
\* Mutant: only a server that runs loops of its own looks.
LoopsHere(n) == n \in conn /\ n \in loop /\ key = 0
Orphaned(n) == n \in conn /\ n \notin loop /\ key = 0
Rescue(n) ==
  /\ Orphaned(n) /\ Moves(n, "rescue", "idle", "claim")
  /\ UNCHANGED <<redis, server, found, inbox, update, spent>>

\* _close_disconnected: the connections here, then those elsewhere.
FindIdle(n) ==
  /\ n \in loop \ conn /\ Moves(n, "cleanup", "idle", "remote")
  /\ Spend("trouble")
  /\ UNCHANGED <<redis, server, found, inbox, update>>
CheckRemote(n) ==
  /\ Moves(n, "cleanup", "remote",
           IF \A m \in Node : connKey[m] = 0 THEN "close" ELSE "idle")
  /\ UNCHANGED <<redis, server, found, inbox, update, spent>>

----------------------------------------------------------------------------
(* Time and crashes                                                        *)

Less(k) == IF k = 0 THEN 0 ELSE k - 1
\* A command to Redis and the delivery of a message to a listener that waits
\* for one take less than a tick, the servers update their state in time, and a
\* claimed loop is registered in time.
Tick ==
  /\ \A n \in up : /\ late[n] < MaxLate /\ beat[n] = NoBeat
                   /\ inbox[n] = <<>> \/ at[n]["listener"] # "idle"
  /\ \A n \in up, t \in Task :
       /\ at[n][t] \notin {"close", "pop", "delete"}
       /\ at[n][t] = "start" => key > Ttl - MaxStart
  /\ key' = Less(key) /\ connKey' = [n \in Node |-> Less(connKey[n])]
  /\ late' = [n \in Node |-> IF n \in up THEN late[n] + 1 ELSE 0]
  /\ UNCHANGED <<server, at, found, inbox, beat, spent>>

Crash(n) ==
  /\ n \in up /\ Spend("trouble")
  /\ up' = up \ {n} /\ loop' = loop \ {n} /\ conn' = conn \ {n}
  /\ at' = [at EXCEPT ![n] = AllIdle] /\ found' = {x \in found : x[1] # n}
  /\ inbox' = [inbox EXCEPT ![n] = <<>>]
  /\ beat' = [beat EXCEPT ![n] = NoBeat] /\ late' = [late EXCEPT ![n] = 0]
  /\ UNCHANGED redis

Restart(n) ==
  /\ n \notin up /\ up' = up \cup {n}
  /\ UNCHANGED <<redis, loop, conn, at, found, inbox, update, spent>>

----------------------------------------------------------------------------
TaskStep(n, t) ==
  \/ Claim(n, t) \/ RunsElsewhere(n, t) \/ Register(n, t)
  \/ CloseConnections(n, t) \/ Pop(n, t) \/ NothingToClose(n, t)
  \/ DeleteKeys(n, t) \/ SessionClosed(n, t)

Runs(n) ==
  Listen(n) \/ UpdateRedis(n) \/ ExecuteLater(n) \/ Rescue(n) \/ CheckRemote(n)

Next ==
  \/ \E n \in Node : \/ Runs(n) \/ Join(n) \/ Leave(n) \/ Stop(n) \/ FindIdle(n)
                     \/ Collect(n) \/ Crash(n) \/ Restart(n)
  \/ \E n \in Node, t \in Task : TaskStep(n, t) \/ TooMany(n, t) \/ StartRaises(n, t)
  \/ Tick

Spec == Init /\ [][Next]_vars
FairSpec ==
  /\ Spec /\ WF_vars(Tick)
  /\ \A n \in Node : /\ WF_vars(Listen(n)) /\ WF_vars(Rescue(n))
                     /\ WF_vars(UpdateRedis(n)) /\ WF_vars(ExecuteLater(n))
                     /\ WF_vars(CheckRemote(n))
  /\ \A n \in Node, t \in Task : WF_vars(TaskStep(n, t))

----------------------------------------------------------------------------
(* Properties                                                              *)

Place == {"idle", "claim", "start", "remote", "close", "pop", "delete",
          "closing"}

KeysOK == key \in 0..Ttl /\ connKey \in [Node -> 0..Ttl]
ServersOK == up \subseteq Node /\ loop \subseteq up /\ conn \subseteq up
TasksOK == at \in [Node -> [Task -> Place]] /\ found \subseteq Node \X Task
MessagesOK == inbox \in [Node -> Seq({"close", "closing"})]
UpdatesOK == /\ beat \in [Node -> (SUBSET {"loop", "conn"}) \cup {NoBeat}]
             /\ late \in [Node -> 0..MaxLate]
DownIsEmpty ==
  \A n \in Node \ up : /\ at[n] = AllIdle /\ inbox[n] = <<>>
                       /\ beat[n] = NoBeat /\ late[n] = 0
SpentOK == /\ spent \in [DOMAIN Bound -> Nat]
           /\ \A b \in DOMAIN Bound : spent[b] <= Bound[b]

\* Each variable holds what the code puts there, and nothing of a server that
\* does not run is left.
TypeOK ==
  /\ KeysOK /\ ServersOK /\ TasksOK /\ MessagesOK /\ UpdatesOK /\ DownIsEmpty
  /\ SpentOK

\* "If we can set the key in redis then no other worker is running this
\* conversation" (maybe_start_agent_loop), as far as it goes: the conversation
\* is registered, or being registered, by one server at most, through crashes,
\* expired keys and closes that overlap.
Owners == loop \cup {n \in Node : \E t \in Task : at[n][t] = "start"}
OneOwner == \A m, n \in Owners : m = n

\* What a server runs the others can see: the key is there as long as the loop.
OwnerIsVisible == loop # {} => key > 0

\* Whatever crashed, was closed or got lost, in the end every client that is
\* still connected has a loop that runs for it.
ClientsServed == <>[](conn # {} => loop # {})
===============================================================================
