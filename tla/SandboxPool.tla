----------------------------- MODULE SandboxPool ------------------------------
(***************************************************************************)
(* The agent servers one app server runs as child processes, and the pool  *)
(* of them it keeps warm:                                                  *)
(* openhands/app_server/sandbox/process_sandbox_service.py                 *)
(*                                                                         *)
(* Tasks of one event loop, which interleave at their awaits.  The pool's  *)
(* lock is an asyncio.Lock: first come, first served, and a task that asks *)
(* for it while others wait goes behind them even if it is free.  The lock *)
(* of the ports is never held over an await, so it needs no state.         *)
(***************************************************************************)
EXTENDS Integers, Sequences, FiniteSets, FiniteSetsExt, SequencesExt

CONSTANTS
  Requests,    \* calls of start_sandbox that may run at the same time
  Fillers,     \* tasks _replenish_pool that may run at the same time
  Warmer,      \* the task of warm_pool
  Names,       \* ids a caller may ask for, those of its conversations
  Ports,       \* base_port .. base_port + 9999
  PerSandbox,  \* ports of one sandbox: its own and WORKER_PORT_NAMES
  PoolSize,    \* POOL_SIZE
  MaxBoxes,    \* bound: processes started in a run
  Faults,      \* whether processes may die, hang or fail to start
  Random,      \* an id nobody else has
  Nobody

Tasks == Requests \cup Fillers \cup {Warmer}

ASSUME TasksOK == /\ Requests \cap Fillers = {} /\ Nobody \notin Tasks
                  /\ Warmer \notin Requests \cup Fillers /\ IsFiniteSet(Fillers)
ASSUME SizesOK == /\ PoolSize \in Nat \ {0} /\ PerSandbox \in Nat \ {0}
                  /\ MaxBoxes \in Nat /\ Faults \in BOOLEAN
ASSUME PortsOK == Ports \subseteq Nat /\ IsFiniteSet(Ports)
ASSUME RandomOK == Random \notin Names

VARIABLES
  boxes,       \* every process started: its id, its ports, up or dead
  processes,   \* _processes, by index in boxes
  pool,        \* _warm_pool
  reserved,    \* _reserved_ports
  inflight,    \* _pool_replenish_inflight
  holder,      \* the task that holds _pool_lock over an await, or Nobody
  waiting,     \* the tasks that wait for _pool_lock
  task,        \* what each task is doing, for which box and which id
  toWarm,      \* iterations warm_pool has left, the one under way included
  displaced    \* observer: the boxes another took the id of

vars == <<boxes, processes, pool, reserved, inflight, holder, waiting, task,
          toWarm, displaced>>
lock == <<holder, waiting>>

Idle == [pc |-> "idle", box |-> 0, id |-> Random]

Init ==
  /\ boxes = <<>> /\ processes = {} /\ pool = <<>> /\ reserved = {}
  /\ inflight = 0 /\ holder = Nobody /\ waiting = <<>>
  /\ task = [t \in Tasks |-> Idle]
  /\ toWarm = PoolSize /\ displaced = {}

At(t, pc) == task[t].pc = pc
Goto(t, pc) == task' = [task EXCEPT ![t].pc = pc]

----------------------------------------------------------------------------
(* Ports                                                                   *)

PortsOf(B) == UNION {boxes[b].ports : b \in B}
\* Mutant: only what is registered or pooled counts.
CollectRegistered == PortsOf(processes \cup ToSet(pool))
CollectReserved == reserved \cup PortsOf(processes \cup ToSet(pool))

\* Mutant: the ports of a process that failed are kept.
KeepPorts(b) == reserved
Release(b) == reserved \ boxes[b].ports

\* The lowest ports that can be bound.  A server nobody tracks any longer may
\* still listen on the first of its own, or not have come to it.
Listening == {Min(boxes[b].ports) : b \in
                {c \in DOMAIN boxes : boxes[c].life # "dead"}}
Reserve(S, bound) ==
  LET free == Ports \ (CollectReserved \cup bound) IN
  /\ S \in kSubset(PerSandbox, free)
  /\ \A p \in S, q \in free \ S : p < q
NoneLeft == Cardinality(Ports \ CollectReserved) < PerSandbox

----------------------------------------------------------------------------
(* Ends of a start                                                         *)

LessInflight == Max({0, inflight - 1})

\* The finally of _replenish_pool: it waits its turn for the lock.
Settled(t) == [task EXCEPT ![t] = Idle]
Leave(t, queue) ==
  IF holder = Nobody /\ queue = <<>>
    THEN /\ inflight' = LessInflight /\ task' = Settled(t)
         /\ waiting' = queue
    ELSE /\ task' = [task EXCEPT ![t] = [Idle EXCEPT !.pc = "settle"]]
         /\ waiting' = Append(queue, t) /\ UNCHANGED inflight

\* What failed raises: to the caller, or to the loop of warm_pool, or to
\* _replenish_pool, which only logs it.
Abandon(t) ==
  /\ UNCHANGED holder
  /\ IF t \in Fillers
       THEN Leave(t, waiting) /\ UNCHANGED toWarm
       ELSE /\ task' = Settled(t) /\ UNCHANGED <<inflight, waiting>>
            /\ toWarm' = IF t = Warmer THEN toWarm - 1 ELSE toWarm

\* The process of box b, a child of the server, is made to end, and nothing
\* tracks it any longer.  One that outlives the kill by five seconds stays as
\* it is, and delete_sandbox raises.
Forget(b) ==
  \/ /\ boxes' = [boxes EXCEPT ![b].life = "dead"]
     /\ processes' = processes \ {b}
     /\ reserved' = Release(b)
  \/ /\ Faults /\ boxes[b].life = "up"
     /\ UNCHANGED <<boxes, processes, reserved>>

Named(id) == {b \in processes : boxes[b].id = id /\ id # Random}

----------------------------------------------------------------------------
(* start_sandbox                                                           *)

\* Fillers with nothing to do are alike.
Unused == {f \in Fillers : At(f, "idle")}

\* A request; one for an id of its own does without the pool.  Bound: it comes
\* while there is a filler for each that runs.
Begin(t, id) ==
  /\ t \in Requests /\ At(t, "idle") /\ Len(boxes) < MaxBoxes
  /\ Cardinality(Unused) > Cardinality({u \in Requests : ~At(u, "idle")})
  /\ task' = [task EXCEPT ![t] =
       [pc |-> IF id = Random THEN "take" ELSE "spawn", box |-> 0, id |-> id]]
  /\ UNCHANGED <<boxes, processes, pool, reserved, inflight, lock, toWarm,
                 displaced>>

\* Mutant: a sandbox made for the request is replaced in the pool, too.
Always == Unused # {}
Replaces == pool # <<>>
Resumed(t, pc) ==
  LET f == CHOOSE f \in Unused : TRUE IN
  IF Replaces THEN task' = [task EXCEPT ![t].pc = pc, ![f].pc = "check"]
              ELSE Goto(t, pc)

\* Under the lock: the first of the pool, and a task to replace it.  The lock
\* is held while the sandbox is looked at.
Take(t, queue) ==
  /\ At(t, "take") /\ waiting' = queue
  /\ \/ /\ pool # <<>> /\ Unused # {}
        /\ Resumed(t, "look")
        /\ processes' = processes \cup {Head(pool)} /\ pool' = Tail(pool)
        /\ holder' = t
     \/ /\ pool = <<>> /\ Resumed(t, "spawn")
        /\ UNCHANGED <<processes, pool, holder>>
  /\ UNCHANGED <<boxes, reserved, inflight, toWarm, displaced>>

\* Mutant: the lock is kept.
KeepsLock(t) == t
AfterLook(t) == Nobody
Looked(t) ==
  /\ At(t, "look") /\ task' = Settled(t) /\ holder' = AfterLook(t)
  /\ UNCHANGED <<boxes, processes, pool, reserved, inflight, waiting, toWarm,
                 displaced>>

\* Ports are reserved and the process started; then one second passes.
Spawn(t) ==
  /\ At(t, "spawn")
  /\ UNCHANGED <<processes, pool, displaced>>
  /\ \/ \E S \in SUBSET Ports, bound \in {{}, Listening} :
          /\ Reserve(S, bound) /\ Len(boxes) < MaxBoxes
          /\ boxes' = Append(boxes,
               [id |-> task[t].id, ports |-> S, life |-> "up"])
          /\ reserved' = reserved \cup S
          /\ task' = [task EXCEPT ![t].pc = "spawned",
                                  ![t].box = Len(boxes) + 1]
          /\ UNCHANGED <<inflight, lock, toWarm>>
     \/ /\ Faults \/ NoneLeft \/ Len(boxes) = MaxBoxes
        /\ Abandon(t) /\ UNCHANGED <<boxes, reserved>>

\* A process that has not died by then is registered under its id, those of
\* the pool excepted.
Check(t) ==
  LET b == task[t].box
      old == Named(task[t].id) IN
  /\ At(t, "spawned") /\ UNCHANGED <<boxes, pool>>
  /\ \/ /\ boxes[b].life # "dead" /\ Goto(t, "ready")
        /\ IF t \in Requests
             THEN /\ processes' = (processes \ old) \cup {b}
                  /\ displaced' = displaced \cup old
             ELSE UNCHANGED <<processes, displaced>>
        /\ UNCHANGED <<reserved, inflight, lock, toWarm>>
     \/ /\ boxes[b].life = "dead" /\ reserved' = Release(b)
        /\ Abandon(t) /\ UNCHANGED <<processes, displaced>>

\* The server answers.
Ready(t) ==
  /\ At(t, "ready") /\ boxes[task[t].box].life = "up"
  /\ task' = IF t \in Requests THEN Settled(t)
                               ELSE [task EXCEPT ![t].pc = "append"]
  /\ UNCHANGED <<boxes, processes, pool, reserved, inflight, lock, toWarm,
                 displaced>>

\* It died, or did not answer within 240 seconds, as when it hangs or is
\* paused.  A request deletes what has
\* its id; a sandbox for the pool is terminated, which it may survive.
NeverReady(t) ==
  LET b == task[t].box IN
  /\ At(t, "ready") /\ (Faults \/ boxes[b].life # "up")
  /\ Abandon(t) /\ UNCHANGED <<pool, displaced>>
  /\ IF t \in Requests
       THEN \/ \E d \in processes :
                 /\ d = b \/ d \in Named(task[t].id)
                 /\ Forget(d)
            \/ /\ b \notin processes /\ Named(task[t].id) = {}
               /\ UNCHANGED <<boxes, processes, reserved>>
       ELSE /\ \E life \in {"dead", boxes[b].life} :
                 boxes' = [boxes EXCEPT ![b].life = life]
            /\ reserved' = Release(b) /\ UNCHANGED processes

----------------------------------------------------------------------------
(* _replenish_pool and warm_pool                                           *)

Counted == Len(pool) + inflight
Replenish(t, queue) ==
  /\ At(t, "check") /\ waiting' = queue
  /\ IF Counted >= PoolSize
       THEN task' = Settled(t) /\ UNCHANGED inflight
       ELSE Goto(t, "spawn") /\ inflight' = inflight + 1
  /\ UNCHANGED <<boxes, processes, pool, reserved, holder, toWarm, displaced>>

Pooled(t, queue) ==
  /\ At(t, "append") /\ pool' = Append(pool, task[t].box)
  /\ IF t = Warmer
       THEN /\ task' = Settled(t) /\ waiting' = queue
            /\ toWarm' = toWarm - 1 /\ UNCHANGED inflight
       ELSE Leave(t, queue) /\ UNCHANGED toWarm
  /\ UNCHANGED <<boxes, processes, reserved, holder, displaced>>

Settle(t, queue) ==
  /\ At(t, "settle") /\ waiting' = queue
  /\ task' = Settled(t) /\ inflight' = LessInflight
  /\ UNCHANGED <<boxes, processes, pool, reserved, holder, toWarm, displaced>>

\* Mutant: one iteration too many.
OneMore == toWarm >= 0
Iterates == toWarm > 0

\* The next iteration of warm_pool.
Warm ==
  /\ Iterates /\ At(Warmer, "idle") /\ Goto(Warmer, "spawn")
  /\ UNCHANGED <<boxes, processes, pool, reserved, inflight, lock, toWarm,
                 displaced>>

----------------------------------------------------------------------------
(* The lock                                                                *)

Turn(t, queue) ==
  Take(t, queue) \/ Replenish(t, queue) \/ Pooled(t, queue) \/ Settle(t, queue)
AsksForLock(t) ==
  task[t].pc \in {"take", "check", "append"} /\ t \notin ToSet(waiting)
Free == holder = Nobody /\ waiting = <<>>

Acquire(t) == AsksForLock(t) /\ Free /\ Turn(t, waiting)
Wait(t) ==
  /\ AsksForLock(t) /\ ~Free /\ waiting' = Append(waiting, t)
  /\ UNCHANGED <<boxes, processes, pool, reserved, inflight, holder, task,
                 toWarm, displaced>>
Wake ==
  /\ holder = Nobody /\ waiting # <<>> /\ Turn(Head(waiting), Tail(waiting))

----------------------------------------------------------------------------
(* The other requests, and what happens to a process                       *)

Delete(b) ==
  /\ b \in processes /\ Forget(b)
  /\ UNCHANGED <<pool, inflight, lock, task, toWarm, displaced>>

Die(b) ==
  /\ Faults /\ boxes[b].life = "up" /\ boxes' = [boxes EXCEPT ![b].life = "dead"]
  /\ UNCHANGED <<processes, pool, reserved, inflight, lock, task, toWarm,
                 displaced>>

Starting(t) == Spawn(t) \/ Check(t) \/ Ready(t) \/ NeverReady(t)
Proceed(t) == Starting(t) \/ Acquire(t) \/ Wait(t) \/ Looked(t)

Next ==
  \/ \E t \in Requests, id \in Names \cup {Random} : Begin(t, id)
  \/ \E t \in Tasks : Proceed(t)
  \/ Wake
  \/ Warm
  \/ \E b \in 1..Len(boxes) : Delete(b) \/ Die(b)

\* Tasks are resumed and what they await comes: an answer or its timeout.
Fairness ==
  /\ \A t \in Tasks : WF_vars(Proceed(t))
  /\ WF_vars(Wake)
  /\ WF_vars(Warm)

Spec == Init /\ [][Next]_vars
FairSpec == Spec /\ Fairness

----------------------------------------------------------------------------
(* Properties                                                              *)

Working == {"spawned", "ready", "append"}
InHand == {task[t].box : t \in {u \in Tasks :
            /\ task[u].pc \in Working
            /\ u \in Requests => At(u, "spawned")}}
Tracked == processes \cup ToSet(pool) \cup InHand

\* Each variable holds what the code puts there.
TypeOK ==
  /\ boxes \in Seq([id : Names \cup {Random}, ports : SUBSET Ports,
                    life : {"up", "dead"}])
  /\ processes \subseteq 1..Len(boxes) /\ displaced \subseteq 1..Len(boxes)
  /\ pool \in Seq(1..Len(boxes))
  /\ reserved \subseteq Ports
  /\ inflight \in Nat /\ toWarm \in Nat
  /\ holder \in Requests \cup {Nobody} /\ waiting \in Seq(Tasks)
  /\ task \in [Tasks -> [pc : {"idle", "take", "look", "spawn", "spawned",
                               "ready", "check", "append", "settle"},
                         box : 0..Len(boxes), id : Names \cup {Random}]]

\* However the starts of sandboxes end, interleave with deletions or with
\* each other (start_sandbox, _prewarm_sandbox, delete_sandbox), no two
\* sandboxes share a port, and each reserved port belongs to one that is
\* registered, pooled or being started; only a sandbox whose id a second start
\* took keeps its ports for good.
PortsDisjoint ==
  \A b, c \in Tracked \cup displaced :
    b # c => boxes[b].ports \cap boxes[c].ports = {}
PortsPartitioned ==
  PortsDisjoint /\ reserved = PortsOf(Tracked \cup displaced)

\* Those of the pool and those on their way to it are never more than
\* POOL_SIZE, also while warm_pool, which looks neither at the pool nor at what
\* is in flight, and _replenish_pool run together.
Coming == {t \in Fillers : task[t].pc \in
             {"check", "spawn", "spawned", "ready", "append"}}
PoolWithinSize == Len(pool) + toWarm + Cardinality(Coming) <= PoolSize

\* Every start ends, though some wait for a lock held over an HTTP request.
StartsEnd == \A t \in Requests : (~At(t, "idle")) ~> At(t, "idle")

\* "Replenish the warm pool after a sandbox was taken" (_replenish_pool): while
\* no process fails, what was taken is in the pool again or on its way.
TakenIsReplaced ==
  (~Faults /\ Len(boxes) < MaxBoxes)
    => Len(pool) + toWarm + Cardinality(Coming) >= PoolSize
===============================================================================
