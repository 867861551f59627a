--------------------------- MODULE ClusterLoopsProofs ---------------------------
(***************************************************************************)
(* Proofs about ClusterLoops for any servers, bounds and times: its types, *)
(* and that one server at most runs the conversation, with a key that the  *)
(* others see, as long as TimesOK holds and Tick keeps to it.              *)
(***************************************************************************)
EXTENDS ClusterLoops, TLAPS

\* Who has the conversation: a loop in the table, one that is being started,
\* and one that has left the table but not its key.
Holds(n, t) == at[n][t] \in {"start", "delete"}
OneHolder ==
  /\ \A m, n \in loop : m = n
  /\ \A n \in Node, t \in Task : Holds(n, t) => loop = {}
  /\ \A m, n \in Node, t, u \in Task : Holds(m, t) /\ Holds(n, u) => m = n /\ t = u

HolderHasKey ==
  /\ loop # {} => key > 0
  /\ \A n \in Node, t \in Task : Holds(n, t) => key > 0

\* How much of a key's time may have passed.
StartIsFresh ==
  \A n \in Node, t \in Task : at[n][t] = "start" => key >= Ttl - MaxStart
LoopIsFresh ==
  \A n \in loop :
    /\ key + late[n] >= Ttl - MaxStart
    /\ beat[n] # NoBeat /\ "loop" \notin beat[n] => key >= Ttl - MaxStart

Ownership == OneHolder /\ HolderHasKey /\ StartIsFresh /\ LoopIsFresh
IInv == TypeOK /\ Ownership

\* The initial state satisfies the inductive invariant.
LEMMA InitInv == Init => IInv
<1> SUFFICES ASSUME Init PROVE IInv
  OBVIOUS
<1> USE DEF Init
<1>1. KeysOK /\ ServersOK /\ MessagesOK
  BY TimesOK DEF KeysOK, ServersOK, MessagesOK
<1>2. TasksOK
  BY DEF TasksOK, AllIdle, Place
<1>3. UpdatesOK
  BY TimesOK DEF UpdatesOK
<1>4. DownIsEmpty
  BY DEF DownIsEmpty
<1>5. SpentOK
  BY BoundsOK DEF SpentOK, Bound
<1>6. \A n \in Node, t \in Task : at[n][t] = "idle"
  BY DEF AllIdle
<1>7. Ownership
  BY <1>6 DEF Ownership, OneHolder, HolderHasKey, StartIsFresh, LoopIsFresh, Holds
<1>8. QED
  BY <1>1, <1>2, <1>3, <1>4, <1>5, <1>7 DEF IInv, TypeOK

----------------------------------------------------------------------------
(* Types                                                                   *)

\* Moving a task changes that task alone, of a server that runs.
LEMMA Moved ==
  ASSUME TypeOK, NEW n \in Node, NEW t \in Task, NEW from \in Place,
         NEW to \in Place, Moves(n, t, from, to), UNCHANGED up,
         found' \subseteq Node \X Task
  PROVE /\ TasksOK' /\ at'[n][t] = to
        /\ \A m \in Node, u \in Task : m # n \/ u # t => at'[m][u] = at[m][u]
        /\ \A m \in Node \ up' : at'[m] = AllIdle
<1>1. at \in [Node -> [Task -> Place]] /\ n \in up
  BY DEF TypeOK, TasksOK, Moves
<1>2. at' = [at EXCEPT ![n][t] = to]
  BY DEF Moves, Goes
<1>3. at'[n][t] = to /\ TasksOK'
  BY <1>1, <1>2 DEF TasksOK
<1>4. \A m \in Node \ {n} : at'[m] = at[m]
  BY <1>1, <1>2
<1>5. \A m \in Node, u \in Task : m # n \/ u # t => at'[m][u] = at[m][u]
  BY <1>1, <1>2
<1>6. QED
  BY <1>1, <1>3, <1>4, <1>5 DEF TypeOK, DownIsEmpty

\* What is spent stays within its bound.
LEMMA Spent ==
  ASSUME SpentOK, NEW what \in DOMAIN Bound, Spend(what)
  PROVE SpentOK'
<1>1. Bound[what] \in Nat /\ DOMAIN Bound' = DOMAIN Bound /\ Bound' = Bound
  BY BoundsOK DEF Bound
<1>2. spent'[what] \in Nat /\ spent'[what] <= Bound[what]
  BY <1>1 DEF SpentOK, Spend
<1>3. QED
  BY <1>1, <1>2 DEF SpentOK, Spend

\* Neither does anything happen to what is owned when the keys, the loops and
\* the updates stay and no task begins to start a loop or to delete its key.
LEMMA Quiet ==
  ASSUME IInv, UNCHANGED <<key, loop, beat, late>>,
         \A m \in Node, u \in Task :
           at'[m][u] \in {"start", "delete"} => at'[m][u] = at[m][u]
  PROVE Ownership'
<1> USE DEF IInv, Ownership
<1>1. \A m \in Node, u \in Task : Holds(m, u)' => Holds(m, u)
  BY DEF Holds
<1>2. OneHolder' /\ HolderHasKey'
  BY <1>1 DEF OneHolder, HolderHasKey
<1>3. StartIsFresh' /\ LoopIsFresh'
  BY DEF StartIsFresh, LoopIsFresh
<1>4. QED
  BY <1>2, <1>3

\* An action that moves one task keeps the types, if what else it changes has
\* its type and concerns servers that run.
LEMMA MoveTypes ==
  ASSUME TypeOK, NEW n \in Node, NEW t \in Task, NEW from \in Place,
         NEW to \in Place, Moves(n, t, from, to), UNCHANGED <<up, beat, late>>,
         found' \subseteq Node \X Task, KeysOK', ServersOK', MessagesOK', SpentOK',
         \A m \in Node \ up : inbox'[m] = <<>>
  PROVE TypeOK'
<1>1. TasksOK' /\ \A m \in Node \ up' : at'[m] = AllIdle
  BY Moved
<1>2. UpdatesOK' /\ DownIsEmpty'
  BY <1>1 DEF TypeOK, UpdatesOK, DownIsEmpty
<1>3. QED
  BY <1>1, <1>2 DEF TypeOK

\* The same for the invariant, when nothing owned is touched.
LEMMA MoveQuietly ==
  ASSUME IInv, NEW n \in Node, NEW t \in Task, NEW from \in Place,
         NEW to \in Place \ {"start", "delete"}, Moves(n, t, from, to),
         UNCHANGED <<up, loop, key, connKey, beat, late>>, conn' \subseteq up,
         found' \subseteq Node \X Task, MessagesOK', SpentOK',
         \A m \in Node \ up : inbox'[m] = <<>>
  PROVE IInv'
<1>1. TypeOK
  BY DEF IInv
<1>2. KeysOK' /\ ServersOK'
  BY <1>1 DEF TypeOK, KeysOK, ServersOK
<1>3. TypeOK'
  BY <1>1, <1>2, MoveTypes
<1>4. /\ at'[n][t] = to
      /\ \A m \in Node, u \in Task : m # n \/ u # t => at'[m][u] = at[m][u]
  BY <1>1, Moved
<1>5. \A m \in Node, u \in Task :
        at'[m][u] \in {"start", "delete"} => at'[m][u] = at[m][u]
  BY <1>4
<1>6. Ownership'
  BY <1>5, Quiet
<1>7. QED
  BY <1>3, <1>6 DEF IInv

\* What the types say, in the form the lemmas above ask for.
LEMMA Facts ==
  ASSUME IInv
  PROVE /\ TypeOK /\ conn \subseteq up /\ found \subseteq Node \X Task
        /\ MessagesOK /\ SpentOK /\ \A m \in Node \ up : inbox[m] = <<>>
  BY DEF IInv, TypeOK, ServersOK, TasksOK, DownIsEmpty

\* A message that is published leaves well-formed queues, and none at a server
\* that does not run.
LEMMA Published ==
  ASSUME IInv, NEW msg \in {"close", "closing"}, Publish(msg)
  PROVE MessagesOK' /\ \A m \in Node \ up : inbox'[m] = <<>>
<1>1. PICK to \in SUBSET up :
        inbox' = [n \in Node |-> IF n \in to THEN Append(inbox[n], msg) ELSE inbox[n]]
  BY DEF Publish, Send
<1>2. \A n \in Node : /\ inbox[n] \in Seq({"close", "closing"})
                      /\ Append(inbox[n], msg) \in Seq({"close", "closing"})
  BY Facts DEF MessagesOK
<1>3. MessagesOK'
  BY <1>1, <1>2 DEF MessagesOK
<1>4. QED
  BY <1>1, <1>3, Facts

----------------------------------------------------------------------------
(* Actions that touch nothing owned                                        *)

\* A claim that fails keeps the invariant.
LEMMA RunsElsewhereInv ==
  ASSUME IInv, NEW n \in Node, NEW t \in Task, RunsElsewhere(n, t) PROVE IInv'
<1>1. /\ Moves(n, t, "claim", "idle") /\ conn' \subseteq conn
      /\ UNCHANGED <<up, loop, key, connKey, found, inbox, beat, late, spent>>
  BY DEF RunsElsewhere, redis, server, update
<1>2. MessagesOK' /\ SpentOK'
  BY <1>1, Facts DEF MessagesOK, SpentOK, Bound
<1>3. QED
  BY <1>1, <1>2, Facts, MoveQuietly DEF Place

\* A loop that is not started keeps the invariant.
LEMMA TooManyInv ==
  ASSUME IInv, NEW n \in Node, NEW t \in Task, TooMany(n, t) PROVE IInv'
<1>1. /\ Moves(n, t, "claim", "idle") /\ conn' \subseteq conn
      /\ UNCHANGED <<up, loop, key, connKey, found, inbox, beat, late, spent>>
  BY DEF TooMany, redis, server, update
<1>2. MessagesOK' /\ SpentOK'
  BY <1>1, Facts DEF MessagesOK, SpentOK, Bound
<1>3. QED
  BY <1>1, <1>2, Facts, MoveQuietly DEF Place

\* A start that raises keeps the invariant: the key only loses its owner.
LEMMA StartRaisesInv ==
  ASSUME IInv, NEW n \in Node, NEW t \in Task, StartRaises(n, t) PROVE IInv'
<1>1. /\ Moves(n, t, "start", "idle") /\ Spend("trouble")
      /\ UNCHANGED <<up, loop, conn, key, connKey, found, inbox, beat, late>>
  BY DEF StartRaises, redis, server, update
<1>2. MessagesOK' /\ SpentOK'
  BY <1>1, Facts, Spent DEF MessagesOK, Bound
<1>3. QED
  BY <1>1, <1>2, Facts, MoveQuietly DEF Place

\* The end of a close keeps the invariant.
LEMMA SessionClosedInv ==
  ASSUME IInv, NEW n \in Node, NEW t \in Task, SessionClosed(n, t) PROVE IInv'
<1>1. /\ Moves(n, t, "closing", "idle")
      /\ UNCHANGED <<up, loop, conn, key, connKey, found, inbox, beat, late, spent>>
  BY DEF SessionClosed, redis, server, update
<1>2. MessagesOK' /\ SpentOK'
  BY <1>1, Facts DEF MessagesOK, SpentOK, Bound
<1>3. QED
  BY <1>1, <1>2, Facts, MoveQuietly DEF Place

\* A request to close keeps the invariant.
LEMMA StopInv ==
  ASSUME IInv, NEW n \in Node, Stop(n) PROVE IInv'
<1>1. /\ Moves(n, "stop", "idle", "close") /\ Spend("trouble") /\ Publish("close")
      /\ UNCHANGED <<up, loop, conn, key, connKey, found, beat, late>>
  BY DEF Stop, redis, server, update
<1>2. SpentOK'
  BY <1>1, Facts, Spent DEF Bound
<1>3. QED
  BY <1>1, <1>2, Facts, Published, MoveQuietly DEF Place, Task

\* Closing the connections keeps the invariant.
LEMMA CloseConnectionsInv ==
  ASSUME IInv, NEW n \in Node, NEW t \in Task, CloseConnections(n, t) PROVE IInv'
<1>1. /\ Moves(n, t, "close", "pop") /\ conn' \subseteq conn
      /\ found' \subseteq found \cup {<<n, t>>}
      /\ UNCHANGED <<up, loop, key, connKey, inbox, beat, late, spent>>
  BY DEF CloseConnections, redis, update
<1>2. MessagesOK' /\ SpentOK' /\ found' \subseteq Node \X Task
  BY <1>1, Facts DEF MessagesOK, SpentOK, Bound
<1>3. QED
  BY <1>1, <1>2, Facts, MoveQuietly DEF Place

\* A close that finds no loop keeps the invariant.
LEMMA NothingToCloseInv ==
  ASSUME IInv, NEW n \in Node, NEW t \in Task, NothingToClose(n, t) PROVE IInv'
<1>1. /\ Moves(n, t, "pop", "idle") /\ found' \subseteq found
      /\ UNCHANGED <<up, loop, conn, key, connKey, inbox, beat, late, spent>>
  BY DEF NothingToClose, redis, server, update
<1>2. MessagesOK' /\ SpentOK'
  BY <1>1, Facts DEF MessagesOK, SpentOK, Bound
<1>3. QED
  BY <1>1, <1>2, Facts, MoveQuietly DEF Place

\* A message that is read keeps the invariant.
LEMMA ListenInv ==
  ASSUME IInv, NEW n \in Node, Listen(n) PROVE IInv'
<1>1. PICK to \in {"close", "claim", "idle"} : Moves(n, "listener", "idle", to)
  BY DEF Listen, Reaction
<1>2. /\ inbox[n] # <<>> /\ inbox' = [inbox EXCEPT ![n] = Tail(@)] /\ n \in up
      /\ UNCHANGED <<up, loop, conn, key, connKey, found, beat, late, spent>>
  BY DEF Listen, Moves, redis, server, update
<1>3. inbox \in [Node -> Seq({"close", "closing"})]
  BY Facts DEF MessagesOK
<1>4. Tail(inbox[n]) \in Seq({"close", "closing"})
  BY <1>2, <1>3
<1>5. MessagesOK' /\ \A m \in Node \ up : inbox'[m] = <<>>
  BY <1>2, <1>3, <1>4, Facts DEF MessagesOK
<1>6. SpentOK'
  BY <1>2, Facts DEF SpentOK, Bound
<1>7. QED
  BY <1>1, <1>2, <1>5, <1>6, Facts, MoveQuietly DEF Place, Task

\* A server that begins to take over a stopped loop keeps the invariant.
LEMMA RescueInv ==
  ASSUME IInv, NEW n \in Node, Rescue(n) PROVE IInv'
<1>1. /\ Moves(n, "rescue", "idle", "claim")
      /\ UNCHANGED <<up, loop, conn, key, connKey, found, inbox, beat, late, spent>>
  BY DEF Rescue, redis, server, update
<1>2. MessagesOK' /\ SpentOK'
  BY <1>1, Facts DEF MessagesOK, SpentOK, Bound
<1>3. QED
  BY <1>1, <1>2, Facts, MoveQuietly DEF Place, Task

\* Finding an idle loop keeps the invariant.
LEMMA FindIdleInv ==
  ASSUME IInv, NEW n \in Node, FindIdle(n) PROVE IInv'
<1>1. /\ Moves(n, "cleanup", "idle", "remote") /\ Spend("trouble")
      /\ UNCHANGED <<up, loop, conn, key, connKey, found, inbox, beat, late>>
  BY DEF FindIdle, redis, server, update
<1>2. MessagesOK' /\ SpentOK'
  BY <1>1, Facts, Spent DEF MessagesOK, Bound
<1>3. QED
  BY <1>1, <1>2, Facts, MoveQuietly DEF Place, Task

\* Looking for connections elsewhere keeps the invariant.
LEMMA CheckRemoteInv ==
  ASSUME IInv, NEW n \in Node, CheckRemote(n) PROVE IInv'
<1>1. /\ \E to \in {"close", "idle"} : Moves(n, "cleanup", "remote", to)
      /\ UNCHANGED <<up, loop, conn, key, connKey, found, inbox, beat, late, spent>>
  BY DEF CheckRemote, redis, server, update
<1>2. MessagesOK' /\ SpentOK'
  BY <1>1, Facts DEF MessagesOK, SpentOK, Bound
<1>3. QED
  BY <1>1, <1>2, Facts, MoveQuietly DEF Place, Task

\* A client that leaves, or a server that starts, keeps the invariant.
LEMMA LeaveInv ==
  ASSUME IInv, NEW n \in Node, Leave(n) \/ Restart(n) PROVE IInv'
<1>1. /\ UNCHANGED <<key, connKey, loop, at, found, inbox, beat, late, spent>>
      /\ conn' \subseteq conn /\ up \subseteq up' /\ up' \subseteq Node
  BY Facts DEF Leave, Restart, redis, update, TypeOK, ServersOK
<1>2. Ownership'
  BY <1>1, Quiet
<1>3. ServersOK' /\ DownIsEmpty'
  BY <1>1, Facts DEF TypeOK, ServersOK, DownIsEmpty
<1>4. KeysOK' /\ TasksOK' /\ MessagesOK' /\ UpdatesOK' /\ SpentOK'
  BY <1>1, Facts DEF TypeOK, KeysOK, TasksOK, MessagesOK, UpdatesOK, SpentOK, Bound
<1>5. QED
  BY <1>2, <1>3, <1>4 DEF IInv, TypeOK

----------------------------------------------------------------------------
(* Actions by which the conversation changes hands                         *)

\* A claim is made when nobody has the conversation.
LEMMA Claimed ==
  ASSUME IInv, NEW n \in Node, NEW t \in Task, NEW from \in Place, key = 0,
         Moves(n, t, from, "start"), key' = Ttl,
         UNCHANGED <<up, loop, connKey, found, inbox, beat, late>>,
         conn' \subseteq up, SpentOK'
  PROVE IInv'
<1>1. TypeOK'
  <2>1. KeysOK' /\ ServersOK' /\ MessagesOK'
    BY Facts, TimesOK DEF TypeOK, KeysOK, ServersOK, MessagesOK
  <2>2. QED
    BY <2>1, Facts, MoveTypes DEF Place
<1>2. /\ at'[n][t] = "start"
      /\ \A m \in Node, u \in Task : m # n \/ u # t => at'[m][u] = at[m][u]
  BY Facts, Moved DEF Place
<1>3. loop = {} /\ \A m \in Node, u \in Task : ~Holds(m, u)
  BY DEF IInv, Ownership, HolderHasKey
<1>4. \A m \in Node, u \in Task : Holds(m, u)' => m = n /\ u = t
  BY <1>2, <1>3 DEF Holds
<1>5. OneHolder' /\ HolderHasKey'
  BY <1>3, <1>4, TimesOK DEF OneHolder, HolderHasKey
<1>6. StartIsFresh' /\ LoopIsFresh'
  BY <1>3, TimesOK DEF StartIsFresh, LoopIsFresh
<1>7. QED
  BY <1>1, <1>5, <1>6 DEF IInv, Ownership

\* A client that joins keeps the invariant.
LEMMA JoinInv ==
  ASSUME IInv, NEW n \in Node, Join(n) PROVE IInv'
<1>1. /\ UNCHANGED <<up, loop, connKey, found, inbox, beat, late>>
      /\ n \in up /\ conn' = conn \cup {n} /\ Spend("joins")
  BY DEF Join, Moves, update
<1>2. SpentOK' /\ conn' \subseteq up /\ "join" \in Task /\ {"idle", "start"} \subseteq Place
  BY <1>1, Facts, Spent DEF Bound, Task, Place
<1>3. CASE NoKey
  <2>1. key = 0 /\ key' = Ttl /\ Moves(n, "join", "idle", "start")
    BY <1>3 DEF Join, NoKey
  <2>2. QED
    BY <1>1, <1>2, <2>1, Claimed
<1>4. CASE ~NoKey
  <2>1. key' = key /\ Moves(n, "join", "idle", "idle")
    BY <1>4 DEF Join
  <2>2. MessagesOK'
    BY <1>1, Facts DEF MessagesOK
  <2>3. QED
    BY <1>1, <1>2, <2>1, <2>2, Facts, MoveQuietly
<1>5. QED
  BY <1>3, <1>4

\* A claim that succeeds keeps the invariant.
LEMMA ClaimInv ==
  ASSUME IInv, NEW n \in Node, NEW t \in Task, Claim(n, t) PROVE IInv'
<1>1. /\ key = 0 /\ key' = Ttl /\ Moves(n, t, "claim", "start")
      /\ UNCHANGED <<up, loop, conn, connKey, found, inbox, beat, late, spent>>
  BY DEF Claim, NoKey, server, update
<1>2. SpentOK' /\ conn' \subseteq up
  BY <1>1, Facts DEF SpentOK, Bound
<1>3. QED
  BY <1>1, <1>2, Claimed DEF Place

\* A loop that is registered was the only one being started.
LEMMA RegisterInv ==
  ASSUME IInv, NEW n \in Node, NEW t \in Task, Register(n, t) PROVE IInv'
<1>1. /\ at[n][t] = "start" /\ Moves(n, t, "start", "idle") /\ n \in up
      /\ loop' = loop \cup {n}
      /\ UNCHANGED <<up, conn, key, connKey, found, inbox, beat, late, spent>>
  BY DEF Register, Moves, redis, update
<1>2. TypeOK'
  <2>1. KeysOK' /\ ServersOK' /\ MessagesOK' /\ SpentOK'
    BY <1>1, Facts DEF TypeOK, KeysOK, ServersOK, MessagesOK, SpentOK, Bound
  <2>2. QED
    BY <1>1, <2>1, Facts, MoveTypes DEF Place
<1>3. /\ at'[n][t] = "idle"
      /\ \A m \in Node, u \in Task : m # n \/ u # t => at'[m][u] = at[m][u]
  BY <1>1, Facts, Moved DEF Place
<1>4. Holds(n, t) /\ loop' = {n} /\ key > 0 /\ key >= Ttl - MaxStart
  BY <1>1 DEF Holds, IInv, Ownership, OneHolder, HolderHasKey, StartIsFresh
<1>5. \A m \in Node, u \in Task : ~Holds(m, u)'
  BY <1>3, <1>4 DEF Holds, IInv, Ownership, OneHolder
<1>6. OneHolder' /\ HolderHasKey'
  BY <1>1, <1>4, <1>5 DEF OneHolder, HolderHasKey
<1>7. StartIsFresh'
  BY <1>5 DEF StartIsFresh, Holds
<1>8. LoopIsFresh'
  <2>1. key \in Nat /\ late[n] \in Nat
    BY Facts, TimesOK DEF TypeOK, KeysOK, UpdatesOK
  <2>2. key + late[n] >= Ttl - MaxStart
    BY <1>4, <2>1, TimesOK
  <2>3. QED
    BY <1>1, <1>4, <2>2 DEF LoopIsFresh
<1>9. QED
  BY <1>2, <1>6, <1>7, <1>8 DEF IInv, Ownership

\* A loop that leaves the table leaves its key to the task that closes it.
LEMMA PopInv ==
  ASSUME IInv, NEW n \in Node, NEW t \in Task, Pop(n, t) PROVE IInv'
<1>1. /\ n \in loop /\ Moves(n, t, "pop", "delete") /\ loop' = loop \ {n}
      /\ UNCHANGED <<up, conn, key, connKey, found, inbox, beat, late, spent>>
  BY DEF Pop, redis, update
<1>2. TypeOK'
  <2>1. KeysOK' /\ ServersOK' /\ MessagesOK' /\ SpentOK'
    BY <1>1, Facts DEF TypeOK, KeysOK, ServersOK, MessagesOK, SpentOK, Bound
  <2>2. QED
    BY <1>1, <2>1, Facts, MoveTypes DEF Place
<1>3. /\ at'[n][t] = "delete"
      /\ \A m \in Node, u \in Task : m # n \/ u # t => at'[m][u] = at[m][u]
  BY <1>1, Facts, Moved DEF Place
<1>4. loop' = {} /\ key > 0 /\ \A m \in Node, u \in Task : ~Holds(m, u)
  BY <1>1 DEF IInv, Ownership, OneHolder, HolderHasKey
<1>5. \A m \in Node, u \in Task : Holds(m, u)' => m = n /\ u = t
  BY <1>3, <1>4 DEF Holds
<1>6. OneHolder' /\ HolderHasKey'
  BY <1>1, <1>4, <1>5 DEF OneHolder, HolderHasKey
<1>7. \A m \in Node, u \in Task : at'[m][u] # "start"
  BY <1>3, <1>4 DEF Holds
<1>8. StartIsFresh' /\ LoopIsFresh'
  BY <1>4, <1>7 DEF StartIsFresh, LoopIsFresh
<1>9. QED
  BY <1>2, <1>6, <1>8 DEF IInv, Ownership

\* Who deletes the key is the only one that has the conversation.
LEMMA DeleteKeysInv ==
  ASSUME IInv, NEW n \in Node, NEW t \in Task, DeleteKeys(n, t) PROVE IInv'
<1>1. /\ at[n][t] = "delete" /\ Moves(n, t, "delete", "closing") /\ key' = 0
      /\ connKey' = IF <<n, t>> \in found THEN [connKey EXCEPT ![n] = 0] ELSE connKey
      /\ found' = found \ {<<n, t>>} /\ Publish("closing")
      /\ UNCHANGED <<up, loop, conn, beat, late, spent>>
  BY DEF DeleteKeys, Moves, server, update
<1>2. TypeOK'
  <2>1. KeysOK' /\ ServersOK' /\ SpentOK' /\ found' \subseteq Node \X Task
    BY <1>1, Facts, TimesOK DEF TypeOK, KeysOK, ServersOK, SpentOK, Bound
  <2>2. QED
    BY <1>1, <2>1, Facts, Published, MoveTypes DEF Place
<1>3. /\ at'[n][t] = "closing"
      /\ \A m \in Node, u \in Task : m # n \/ u # t => at'[m][u] = at[m][u]
  BY <1>1, Facts, Moved DEF Place
<1>4. Holds(n, t) /\ loop = {}
  BY <1>1 DEF Holds, IInv, Ownership, OneHolder
<1>5. \A m \in Node, u \in Task : ~Holds(m, u)'
  BY <1>3, <1>4 DEF Holds, IInv, Ownership, OneHolder
<1>6. OneHolder' /\ HolderHasKey' /\ StartIsFresh' /\ LoopIsFresh'
  BY <1>1, <1>4, <1>5 DEF OneHolder, HolderHasKey, StartIsFresh, LoopIsFresh, Holds
<1>7. QED
  BY <1>2, <1>6 DEF IInv, Ownership

----------------------------------------------------------------------------
(* Updates, time and crashes                                               *)

\* A pipeline keeps what is owned, if one without the loop is executed while
\* the key of the loop registered meanwhile is still young.
LEMMA Executed ==
  ASSUME IInv, NEW n \in Node, NEW pipe \in SUBSET {"loop", "conn"}, Execute(n, pipe),
         UNCHANGED <<up, loop, conn, at, found, inbox, spent>>, n \in up,
         beat' = beat \/ beat' = [beat EXCEPT ![n] = NoBeat],
         n \in loop /\ "loop" \notin pipe => key >= Ttl - MaxStart
  PROVE IInv'
<1>1. /\ key \in 0..Ttl /\ key' \in 0..Ttl
      /\ key' = Ttl \/ (key' = key /\ "loop" \notin pipe)
  BY Facts, TimesOK DEF Execute, SetKey, TypeOK, KeysOK
<1>2. late \in [Node -> 0..MaxLate] /\ late' = [late EXCEPT ![n] = 0]
  BY Facts DEF Execute, TypeOK, UpdatesOK
<1>3. beat \in [Node -> (SUBSET {"loop", "conn"}) \cup {NoBeat}]
  BY Facts DEF TypeOK, UpdatesOK
<1>4. TypeOK'
  <2>1. KeysOK'
    BY <1>1, Facts, TimesOK DEF Execute, TypeOK, KeysOK
  <2>2. UpdatesOK'
    <3>1. late' \in [Node -> 0..MaxLate]
      BY <1>2, TimesOK
    <3>2. beat' \in [Node -> (SUBSET {"loop", "conn"}) \cup {NoBeat}]
      BY <1>3, Zenon
    <3>3. QED
      BY <3>1, <3>2 DEF UpdatesOK
  <2>3. DownIsEmpty'
    BY <1>2, <1>3, Facts DEF TypeOK, DownIsEmpty
  <2>4. QED
    BY <2>1, <2>2, <2>3, Facts
       DEF TypeOK, ServersOK, TasksOK, MessagesOK, SpentOK, Bound
<1>5. OneHolder'
  BY DEF IInv, Ownership, OneHolder, Holds
<1>6. key > 0 => key' > 0
  BY <1>1, TimesOK
<1>7. HolderHasKey'
  BY <1>6 DEF IInv, Ownership, HolderHasKey, Holds
<1>8. key >= Ttl - MaxStart => key' >= Ttl - MaxStart
  BY <1>1, TimesOK
<1>9. StartIsFresh'
  BY <1>8 DEF IInv, Ownership, StartIsFresh
<1>10. ASSUME NEW m \in loop
       PROVE /\ key' + late'[m] >= Ttl - MaxStart
             /\ beat'[m] # NoBeat /\ "loop" \notin beat'[m] => key' >= Ttl - MaxStart
  <2>1. m \in Node /\ late[m] \in Nat
    BY <1>2, Facts, TimesOK DEF TypeOK, ServersOK
  <2>2. /\ key + late[m] >= Ttl - MaxStart
        /\ beat[m] # NoBeat /\ "loop" \notin beat[m] => key >= Ttl - MaxStart
    BY DEF IInv, Ownership, LoopIsFresh
  <2>3. beat'[m] # NoBeat => beat'[m] = beat[m]
    BY <1>3, <2>1
  <2>4. CASE key' = Ttl
    <3>1. late'[m] \in Nat
      BY <1>2, <2>1
    <3>2. QED
      BY <2>4, <3>1, TimesOK
  <2>5. CASE key' = key /\ "loop" \notin pipe
    <3>1. CASE m = n
      <4>1. key' >= Ttl - MaxStart /\ late'[m] = 0
        BY <1>2, <2>1, <2>5, <3>1
      <4>2. QED
        BY <1>1, <4>1, TimesOK
    <3>2. CASE m # n
      <4>1. late'[m] = late[m]
        BY <1>2, <2>1, <3>2
      <4>2. QED
        BY <2>2, <2>3, <2>5, <4>1
    <3>3. QED
      BY <3>1, <3>2
  <2>6. QED
    BY <1>1, <2>4, <2>5
<1>11. LoopIsFresh'
  BY <1>10 DEF LoopIsFresh
<1>12. QED
  BY <1>4, <1>5, <1>7, <1>9, <1>11 DEF IInv, Ownership

\* An update that is served at once keeps the invariant.
LEMMA UpdateRedisInv ==
  ASSUME IInv, NEW n \in Node, UpdateRedis(n) PROVE IInv'
<1>1. /\ n \in up /\ Execute(n, Pipeline(n)) /\ beat' = beat
      /\ UNCHANGED <<up, loop, conn, at, found, inbox, spent>>
  BY DEF UpdateRedis, server
<1>2. Pipeline(n) \in SUBSET {"loop", "conn"} /\ (n \in loop => "loop" \in Pipeline(n))
  BY DEF Pipeline
<1>3. QED
  BY <1>1, <1>2, Executed

\* An update whose pipeline is collected keeps the invariant.
LEMMA CollectInv ==
  ASSUME IInv, NEW n \in Node, Collect(n) PROVE IInv'
<1>1. /\ n \in up /\ beat' = [beat EXCEPT ![n] = Pipeline(n)] /\ Spend("trouble")
      /\ UNCHANGED <<key, connKey, up, loop, conn, at, found, inbox, late>>
  BY DEF Collect, redis, server
<1>2. Pipeline(n) \in SUBSET {"loop", "conn"} /\ (n \in loop => "loop" \in Pipeline(n))
  BY DEF Pipeline
<1>3. beat \in [Node -> (SUBSET {"loop", "conn"}) \cup {NoBeat}]
  BY Facts DEF TypeOK, UpdatesOK
<1>4. TypeOK'
  <2>1. SpentOK'
    BY <1>1, Facts, Spent DEF Bound
  <2>2. UpdatesOK'
    BY <1>1, <1>2, <1>3, Facts DEF TypeOK, UpdatesOK
  <2>3. DownIsEmpty'
    BY <1>1, <1>3, Facts DEF TypeOK, DownIsEmpty
  <2>4. QED
    BY <1>1, <2>1, <2>2, <2>3, Facts
       DEF TypeOK, KeysOK, ServersOK, TasksOK, MessagesOK
<1>5. OneHolder' /\ HolderHasKey' /\ StartIsFresh'
  BY <1>1 DEF IInv, Ownership, OneHolder, HolderHasKey, StartIsFresh, Holds
<1>6. LoopIsFresh'
  <2>1. ASSUME NEW m \in loop
        PROVE beat'[m] # NoBeat /\ "loop" \notin beat'[m]
                => beat[m] # NoBeat /\ "loop" \notin beat[m]
    BY <1>1, <1>2, <1>3, Facts DEF TypeOK, ServersOK
  <2>2. QED
    BY <1>1, <2>1 DEF IInv, Ownership, LoopIsFresh
<1>7. QED
  BY <1>4, <1>5, <1>6 DEF IInv, Ownership

\* A pipeline that was collected before keeps the invariant.
LEMMA ExecuteLaterInv ==
  ASSUME IInv, NEW n \in Node, ExecuteLater(n) PROVE IInv'
<1>1. /\ n \in up /\ Execute(n, beat[n]) /\ beat' = [beat EXCEPT ![n] = NoBeat]
      /\ UNCHANGED <<up, loop, conn, at, found, inbox, spent>> /\ beat[n] # NoBeat
  BY DEF ExecuteLater, server
<1>2. beat[n] \in SUBSET {"loop", "conn"}
  BY <1>1, Facts DEF TypeOK, UpdatesOK
<1>3. n \in loop /\ "loop" \notin beat[n] => key >= Ttl - MaxStart
  BY <1>1 DEF IInv, Ownership, LoopIsFresh
<1>4. QED
  BY <1>1, <1>2, <1>3, Executed

\* A tick keeps the invariant: the servers update their state in time.
LEMMA TickInv ==
  ASSUME IInv, Tick PROVE IInv'
<1>1. /\ \A n \in up : late[n] < MaxLate /\ beat[n] = NoBeat
      /\ \A n \in up, t \in Task :
           at[n][t] # "delete" /\ (at[n][t] = "start" => key > Ttl - MaxStart)
      /\ key' = IF key = 0 THEN 0 ELSE key - 1
      /\ connKey' = [n \in Node |-> IF connKey[n] = 0 THEN 0 ELSE connKey[n] - 1]
      /\ late' = [n \in Node |-> IF n \in up THEN late[n] + 1 ELSE 0]
      /\ UNCHANGED <<up, loop, conn, at, found, inbox, beat, spent>>
  BY DEF Tick, Less, server
<1>2. /\ key \in 0..Ttl /\ connKey \in [Node -> 0..Ttl]
      /\ late \in [Node -> 0..MaxLate] /\ loop \subseteq up /\ up \subseteq Node
  BY Facts DEF TypeOK, KeysOK, UpdatesOK, ServersOK
<1>3. TypeOK'
  <2>1. key' \in 0..Ttl
    BY <1>1, <1>2, TimesOK
  <2>2. connKey' \in [Node -> 0..Ttl]
    BY <1>1, <1>2, TimesOK
  <2>3. late' \in [Node -> 0..MaxLate]
    <3>1. \A n \in up : late[n] + 1 \in 0..MaxLate
      BY <1>1, <1>2, TimesOK
    <3>2. 0 \in 0..MaxLate
      BY TimesOK
    <3>3. QED
      BY <1>1, <3>1, <3>2
  <2>4. UpdatesOK' /\ DownIsEmpty'
    BY <1>1, <2>3, Facts DEF TypeOK, UpdatesOK, DownIsEmpty
  <2>5. QED
    BY <1>1, <2>1, <2>2, <2>4, Facts
       DEF TypeOK, KeysOK, ServersOK, TasksOK, MessagesOK, SpentOK, Bound
<1>4. ASSUME NEW n \in Node, NEW t \in Task, Holds(n, t)
      PROVE key' > 0 /\ key' >= Ttl - MaxStart
  <2>1. n \in up
    BY <1>4, Facts DEF TypeOK, DownIsEmpty, Holds, AllIdle
  <2>2. key > Ttl - MaxStart
    BY <1>1, <1>4, <2>1 DEF Holds
  <2>3. QED
    BY <1>1, <1>2, <2>2, TimesOK
<1>5. ASSUME NEW m \in loop
      PROVE key' > 0 /\ key' + late'[m] >= Ttl - MaxStart
  <2>1. key + late[m] >= Ttl - MaxStart
    BY DEF IInv, Ownership, LoopIsFresh
  <2>2. late[m] < MaxLate /\ late[m] \in Nat /\ late'[m] = late[m] + 1
    BY <1>1, <1>2, TimesOK
  <2>3. QED
    BY <1>1, <1>2, <2>1, <2>2, TimesOK
<1>6. OneHolder'
  BY <1>1 DEF IInv, Ownership, OneHolder, Holds
<1>7. HolderHasKey'
  BY <1>1, <1>4, <1>5 DEF HolderHasKey, Holds
<1>8. StartIsFresh'
  BY <1>1, <1>4 DEF StartIsFresh, Holds
<1>9. LoopIsFresh'
  BY <1>1, <1>2, <1>5 DEF LoopIsFresh
<1>10. QED
  BY <1>3, <1>6, <1>7, <1>8, <1>9 DEF IInv, Ownership

\* A crash takes with it what the server had.
LEMMA CrashInv ==
  ASSUME IInv, NEW n \in Node, Crash(n) PROVE IInv'
<1>1. /\ up' = up \ {n} /\ loop' = loop \ {n} /\ conn' = conn \ {n}
      /\ at' = [at EXCEPT ![n] = AllIdle] /\ found' \subseteq found
      /\ inbox' = [inbox EXCEPT ![n] = <<>>] /\ beat' = [beat EXCEPT ![n] = NoBeat]
      /\ late' = [late EXCEPT ![n] = 0] /\ UNCHANGED <<key, connKey>>
  BY DEF Crash, redis
<1>2. /\ at \in [Node -> [Task -> Place]] /\ AllIdle \in [Task -> Place]
      /\ inbox \in [Node -> Seq({"close", "closing"})]
      /\ beat \in [Node -> (SUBSET {"loop", "conn"}) \cup {NoBeat}]
      /\ late \in [Node -> 0..MaxLate] /\ 0 \in 0..MaxLate
      /\ up \subseteq Node /\ loop \subseteq up /\ conn \subseteq up
  BY Facts, TimesOK
     DEF TypeOK, TasksOK, MessagesOK, UpdatesOK, ServersOK, AllIdle, Place
<1>3. TypeOK'
  <2>1. SpentOK'
    BY Facts, Spent DEF Crash, Bound
  <2>2. KeysOK' /\ ServersOK' /\ TasksOK'
    BY <1>1, <1>2, Facts DEF TypeOK, KeysOK, ServersOK, TasksOK
  <2>3. MessagesOK' /\ UpdatesOK'
    BY <1>1, <1>2 DEF MessagesOK, UpdatesOK
  <2>4. DownIsEmpty'
    BY <1>1, <1>2, Facts DEF TypeOK, DownIsEmpty
  <2>5. QED
    BY <2>1, <2>2, <2>3, <2>4 DEF TypeOK
<1>4. \A m \in Node, t \in Task : at'[m][t] = at[m][t] \/ at'[m][t] = "idle"
  BY <1>1, <1>2 DEF AllIdle
<1>5. \A m \in Node, t \in Task : Holds(m, t)' => Holds(m, t)
  BY <1>4 DEF Holds
<1>6. OneHolder' /\ HolderHasKey'
  BY <1>1, <1>5 DEF IInv, Ownership, OneHolder, HolderHasKey
<1>7. StartIsFresh'
  BY <1>1, <1>4 DEF IInv, Ownership, StartIsFresh
<1>8. \A m \in loop' : m \in loop /\ late'[m] = late[m] /\ beat'[m] = beat[m]
  BY <1>1, <1>2
<1>9. LoopIsFresh'
  BY <1>1, <1>8 DEF IInv, Ownership, LoopIsFresh
<1>10. QED
  BY <1>3, <1>6, <1>7, <1>9 DEF IInv, Ownership

----------------------------------------------------------------------------
\* Every step keeps the invariant.
LEMMA NextInv == IInv /\ [Next]_vars => IInv'
<1> SUFFICES ASSUME IInv, [Next]_vars PROVE IInv'
  OBVIOUS
<1>1. ASSUME NEW n \in Node, Runs(n) PROVE IInv'
  BY <1>1, ListenInv, UpdateRedisInv, ExecuteLaterInv, RescueInv, CheckRemoteInv
     DEF Runs
<1>2. ASSUME NEW n \in Node,
             \/ Join(n) \/ Leave(n) \/ Stop(n) \/ FindIdle(n)
             \/ Collect(n) \/ Crash(n) \/ Restart(n)
      PROVE IInv'
  BY <1>2, JoinInv, LeaveInv, StopInv, FindIdleInv, CollectInv, CrashInv
<1>3. ASSUME NEW n \in Node, NEW t \in Task,
             TaskStep(n, t) \/ TooMany(n, t) \/ StartRaises(n, t)
      PROVE IInv'
  BY <1>3, ClaimInv, RunsElsewhereInv, RegisterInv, CloseConnectionsInv, PopInv,
     NothingToCloseInv, DeleteKeysInv, SessionClosedInv, TooManyInv,
     StartRaisesInv DEF TaskStep
<1>4. CASE UNCHANGED vars
  <2>1. UNCHANGED <<key, connKey, up, loop, conn, at, found, inbox, beat, late, spent>>
    BY <1>4 DEF vars
  <2>2. TypeOK'
    BY <2>1, Facts DEF TypeOK, KeysOK, ServersOK, TasksOK, MessagesOK, UpdatesOK,
       DownIsEmpty, SpentOK, Bound
  <2>3. QED
    BY <2>1, <2>2, Quiet DEF IInv
<1>5. QED
  BY <1>1, <1>2, <1>3, <1>4, TickInv DEF Next

\* The invariant always holds.
THEOREM Invariant == Spec => []IInv
BY InitInv, NextInv, PTL DEF Spec

\* Each variable keeps its type, and nothing of a server that crashed is left.
THEOREM TypeCorrect == Spec => []TypeOK
<1>1. IInv => TypeOK
  BY DEF IInv
<1>2. QED
  BY <1>1, Invariant, PTL

\* One server at most has registered the conversation or is about to
\* (maybe_start_agent_loop), whatever the messages, crashes and overlaps.
THEOREM OneOwnerAlways == Spec => []OneOwner
<1>1. IInv => OneOwner
  BY Facts DEF IInv, Ownership, OneHolder, OneOwner, Owners, Holds, TypeOK, ServersOK
<1>2. QED
  BY <1>1, Invariant, PTL

\* The key of a registered loop never expires.
THEOREM OwnerAlwaysVisible == Spec => []OwnerIsVisible
<1>1. IInv => OwnerIsVisible
  BY DEF IInv, Ownership, HolderHasKey, OwnerIsVisible
<1>2. QED
  BY <1>1, Invariant, PTL
===============================================================================
