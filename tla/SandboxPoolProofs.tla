--------------------------- MODULE SandboxPoolProofs ---------------------------
(***************************************************************************)
(* Proofs about SandboxPool for any requests, pool tasks, ports and sizes: *)
(* its types, that every reserved port belongs to exactly one sandbox, and    *)
(* that the pool does not outgrow its size.                                *)
(***************************************************************************)
EXTENDS SandboxPool, FiniteSetTheorems, TLAPS

Id == Names \cup {Random}
Box == [id : Id, ports : SUBSET Ports, life : {"up", "dead"}]
Place == {"idle", "take", "look", "spawn", "spawned", "ready", "check", "append",
          "settle"}
Job(n) == [pc : Place, box : 0..n, id : Id]

\* Who is where: only requests take from the pool and only others fill it, a
\* sandbox in work has a number, and warm_pool is not done while it works.
Control ==
  \A t \in Tasks :
    /\ task[t].pc \in Working => task[t].box # 0
    /\ task[t].pc \in {"take", "look"} => t \in Requests
    /\ task[t].pc = "append" => t \notin Requests
    /\ t = Warmer /\ task[t].pc # "idle" => toWarm > 0

\* A sandbox is in one hand, or in one place, at a time.
Held(t) == task[t].pc \in Working /\ (t \in Requests => task[t].pc = "spawned")
HandsApart ==
  \A t, u \in Tasks : Held(t) /\ Held(u) /\ t # u => task[t].box # task[u].box
PoolApart == \A i, j \in DOMAIN pool : i # j => pool[i] # pool[j]
PlacesApart ==
  /\ InHand \cap (processes \cup ToSet(pool) \cup displaced) = {}
  /\ processes \cap ToSet(pool) = {} /\ processes \cap displaced = {}
  /\ ToSet(pool) \cap displaced = {}

All == Tracked \cup displaced
Ownership == HandsApart /\ PoolApart /\ PlacesApart /\ PortsPartitioned
IInv == TypeOK /\ Control /\ Ownership

----------------------------------------------------------------------------
(* Data                                                                    *)

\* What TypeOK says, with the names of this module.
Typed ==
  /\ boxes \in Seq(Box)
  /\ processes \subseteq 1..Len(boxes) /\ displaced \subseteq 1..Len(boxes)
  /\ pool \in Seq(1..Len(boxes)) /\ reserved \subseteq Ports
  /\ inflight \in Nat /\ toWarm \in Nat
  /\ holder \in Requests \cup {Nobody} /\ waiting \in Seq(Tasks)
  /\ task \in [Tasks -> Job(Len(boxes))]
LEMMA Types == (TypeOK <=> Typed) /\ (TypeOK' <=> Typed')
  BY DEF TypeOK, Typed, Box, Id, Job, Place

\* The greater of nothing and what is left.
LEMMA LessIsNat == ASSUME inflight \in Nat PROVE LessInflight \in Nat
<1>1. CASE inflight = 0
  <2>1. 0 \in {0, inflight - 1} /\ \A y \in {0, inflight - 1} : 0 >= y
    BY <1>1
  <2>2. \E x \in {0, inflight - 1} : \A y \in {0, inflight - 1} : x >= y
    BY <2>1
  <2>3. LessInflight \in {0, inflight - 1} /\ \A y \in {0, inflight - 1} : LessInflight >= y
    BY <2>2 DEF LessInflight, Max
  <2>4. QED
    BY <1>1, <2>3
<1>2. CASE inflight # 0
  <2>1. inflight - 1 \in {0, inflight - 1}
        /\ \A y \in {0, inflight - 1} : inflight - 1 >= y
    BY <1>2
  <2>2. \E x \in {0, inflight - 1} : \A y \in {0, inflight - 1} : x >= y
    BY <2>1
  <2>3. LessInflight \in {0, inflight - 1}
    BY <2>2 DEF LessInflight, Max
  <2>4. QED
    BY <1>2, <2>3
<1>3. QED
  BY <1>1, <1>2

\* The members of a queue, when one is taken from its head or put at its end.
LEMMA QueueMembers ==
  ASSUME NEW S, NEW q \in Seq(S)
  PROVE /\ ToSet(q) \subseteq S
        /\ \A e \in S : /\ Append(q, e) \in Seq(S)
                        /\ ToSet(Append(q, e)) = ToSet(q) \cup {e}
        /\ q # <<>> => /\ Head(q) \in S /\ Tail(q) \in Seq(S)
                       /\ ToSet(q) = ToSet(Tail(q)) \cup {Head(q)}
<1>1. ToSet(q) \subseteq S
  BY DEF ToSet
<1>2. ASSUME NEW e \in S PROVE ToSet(Append(q, e)) = ToSet(q) \cup {e}
  <2>1. /\ DOMAIN Append(q, e) = 1 .. Len(q) + 1 /\ DOMAIN q = 1 .. Len(q)
        /\ Len(q) \in Nat /\ Append(q, e)[Len(q) + 1] = e
        /\ \A i \in 1 .. Len(q) : Append(q, e)[i] = q[i]
    OBVIOUS
  <2>2. ToSet(q) \cup {e} \subseteq ToSet(Append(q, e))
    BY <2>1 DEF ToSet
  <2>3. ToSet(Append(q, e)) \subseteq ToSet(q) \cup {e}
    BY <2>1 DEF ToSet
  <2>4. QED
    BY <2>2, <2>3
<1>3. ASSUME q # <<>> PROVE ToSet(q) = ToSet(Tail(q)) \cup {Head(q)}
  <2>1. /\ DOMAIN Tail(q) = 1 .. Len(q) - 1 /\ DOMAIN q = 1 .. Len(q)
        /\ Len(q) \in Nat \ {0} /\ Head(q) = q[1]
        /\ \A i \in 1 .. Len(q) - 1 : Tail(q)[i] = q[i + 1]
    BY <1>3
  <2>2. ToSet(Tail(q)) \cup {Head(q)} \subseteq ToSet(q)
    BY <2>1 DEF ToSet
  <2>3. ASSUME NEW i \in 1 .. Len(q) PROVE q[i] \in ToSet(Tail(q)) \cup {Head(q)}
    <3>1. CASE i = 1
      BY <2>1, <3>1
    <3>2. CASE i # 1
      <4>1. i - 1 \in DOMAIN Tail(q) /\ Tail(q)[i - 1] = q[i]
        BY <2>1, <3>2
      <4>2. QED
        BY <4>1 DEF ToSet
    <3>3. QED
      BY <3>1, <3>2
  <2>4. QED
    BY <2>1, <2>2, <2>3 DEF ToSet
<1>4. QED
  BY <1>1, <1>2, <1>3

----------------------------------------------------------------------------
(* Ports                                                                   *)

\* Nothing changes for the ports when the same sandboxes have them.
LEMMA PortsSame ==
  ASSUME PortsPartitioned, All' = All, reserved' = reserved,
         \A b \in All : boxes'[b].ports = boxes[b].ports
  PROVE PortsPartitioned'
<1>1. PortsDisjoint'
  BY DEF PortsPartitioned, PortsDisjoint, All
<1>2. PortsOf(All)' = PortsOf(All)
  BY DEF PortsOf
<1>3. QED
  BY <1>1, <1>2 DEF PortsPartitioned, All

\* A sandbox that goes gives back its own ports and no others.
LEMMA PortsLess ==
  ASSUME PortsPartitioned, NEW b \in All, All' = All \ {b},
         reserved' = reserved \ boxes[b].ports,
         \A c \in All : boxes'[c].ports = boxes[c].ports
  PROVE PortsPartitioned'
<1>1. PortsDisjoint'
  BY DEF PortsPartitioned, PortsDisjoint, All
<1>2. \A c \in All \ {b} : boxes[b].ports \cap boxes[c].ports = {}
  BY DEF PortsPartitioned, PortsDisjoint, All
<1>3. reserved = PortsOf(All)
  BY DEF PortsPartitioned, All
<1>4. PortsOf(All)' \subseteq reserved'
  BY <1>2, <1>3 DEF PortsOf
<1>5. reserved' \subseteq PortsOf(All)'
  BY <1>3 DEF PortsOf
<1>6. QED
  BY <1>1, <1>4, <1>5 DEF PortsPartitioned, All

\* A new sandbox takes ports that nobody has.
LEMMA PortsMore ==
  ASSUME PortsPartitioned, NEW n, n \notin All, All' = All \cup {n},
         boxes'[n].ports \cap reserved = {},
         reserved' = reserved \cup boxes'[n].ports,
         \A c \in All : boxes'[c].ports = boxes[c].ports
  PROVE PortsPartitioned'
<1>1. reserved = PortsOf(All)
  BY DEF PortsPartitioned, All
<1>2. \A c \in All : boxes[c].ports \subseteq reserved
  BY <1>1 DEF PortsOf
<1>3. \A b, c \in All : b # c => boxes[b].ports \cap boxes[c].ports = {}
  BY DEF PortsPartitioned, PortsDisjoint, All
<1>4. \A b, c \in All' : b # c => boxes'[b].ports \cap boxes'[c].ports = {}
  BY <1>2, <1>3
<1>5. PortsDisjoint'
  BY <1>4 DEF PortsDisjoint, All
<1>6. PortsOf(All)' = PortsOf(All) \cup boxes'[n].ports
  BY DEF PortsOf
<1>7. QED
  BY <1>1, <1>5, <1>6 DEF PortsPartitioned, All

----------------------------------------------------------------------------
(* Hands                                                                   *)

\* Every task holds what it held.
LEMMA HandsKept ==
  ASSUME HandsApart,
         \A u \in Tasks : /\ Held(u)' <=> Held(u)
                          /\ Held(u) => task'[u].box = task[u].box
  PROVE HandsApart' /\ InHand' = InHand
<1>1. HandsApart'
  BY DEF HandsApart
<1>2. InHand = {task[u].box : u \in {v \in Tasks : Held(v)}}
  BY DEF InHand, Held, At
<1>3. InHand' = {task'[u].box : u \in {v \in Tasks : Held(v)'}}
  BY DEF InHand, Held, At
<1>4. QED
  BY <1>1, <1>2, <1>3

\* One task lets go of its sandbox.
LEMMA HandsLess ==
  ASSUME HandsApart, NEW t \in Tasks, Held(t), ~Held(t)',
         \A u \in Tasks \ {t} : task'[u] = task[u]
  PROVE HandsApart' /\ InHand' = InHand \ {task[t].box} /\ task[t].box \in InHand
<1>1. \A u \in Tasks \ {t} : (Held(u)' <=> Held(u))
  BY DEF Held
<1>2. HandsApart'
  BY <1>1 DEF HandsApart
<1>3. InHand = {task[u].box : u \in {v \in Tasks : Held(v)}}
  BY DEF InHand, Held, At
<1>4. InHand' = {task'[u].box : u \in {v \in Tasks : Held(v)'}}
  BY DEF InHand, Held, At
<1>5. \A u \in Tasks \ {t} : Held(u) => task[u].box # task[t].box
  BY DEF HandsApart
<1>6. InHand' = InHand \ {task[t].box}
  BY <1>1, <1>3, <1>4, <1>5
<1>7. QED
  BY <1>2, <1>3, <1>6

\* One task takes a sandbox in hand that is in no other.
LEMMA HandsMore ==
  ASSUME HandsApart, NEW t \in Tasks, ~Held(t), Held(t)', task'[t].box \notin InHand,
         \A u \in Tasks \ {t} : task'[u] = task[u]
  PROVE HandsApart' /\ InHand' = InHand \cup {task'[t].box}
<1>1. \A u \in Tasks \ {t} : (Held(u)' <=> Held(u))
  BY DEF Held
<1>2. InHand = {task[u].box : u \in {v \in Tasks : Held(v)}}
  BY DEF InHand, Held, At
<1>3. InHand' = {task'[u].box : u \in {v \in Tasks : Held(v)'}}
  BY DEF InHand, Held, At
<1>4. \A u \in Tasks \ {t} : Held(u) => task[u].box # task'[t].box
  BY <1>2
<1>5. HandsApart'
  BY <1>1, <1>4 DEF HandsApart
<1>6. InHand' = InHand \cup {task'[t].box}
  BY <1>1, <1>2, <1>3
<1>7. QED
  BY <1>5, <1>6

----------------------------------------------------------------------------
(* Steps, by what becomes of the task that makes them                      *)

\* The initial state satisfies the inductive invariant.
LEMMA InitInv == Init => IInv
<1> SUFFICES ASSUME Init PROVE IInv
  OBVIOUS
<1>1. /\ boxes = <<>> /\ boxes \in Seq(Box) /\ Len(boxes) = 0
      /\ pool = <<>> /\ pool \in Seq(1..Len(boxes)) /\ DOMAIN pool = {}
      /\ waiting \in Seq(Tasks)
  BY DEF Init
<1>2. Idle \in Job(Len(boxes)) /\ Idle.pc = "idle" /\ \A t \in Tasks : task[t] = Idle
  BY <1>1 DEF Init, Idle, Job, Place, Id
<1>3. task \in [Tasks -> Job(Len(boxes))]
  BY <1>2 DEF Init
<1>4. TypeOK
  BY <1>1, <1>3, SizesOK, Types DEF Init, Typed
<1>5. Control
  BY <1>2 DEF Control, Working
<1>6. \A t \in Tasks : ~Held(t)
  BY <1>2 DEF Held, Working
<1>7. InHand = {} /\ HandsApart
  BY <1>6 DEF InHand, Held, At, HandsApart
<1>8. processes = {} /\ displaced = {} /\ ToSet(pool) = {} /\ PoolApart
  BY <1>1 DEF Init, ToSet, PoolApart
<1>9. PlacesApart /\ All = {}
  BY <1>7, <1>8 DEF PlacesApart, All, Tracked
<1>10. PortsPartitioned
  BY <1>9 DEF PortsPartitioned, PortsDisjoint, All, PortsOf, Init
<1>11. QED
  BY <1>4, <1>5, <1>7, <1>8, <1>9, <1>10 DEF IInv, Ownership

\* A task moves on without a sandbox changing hands, and nothing else is of
\* interest.
LEMMA Steps ==
  ASSUME IInv, NEW t \in Tasks, NEW to \in Place \ Working,
         NEW n \in 0..Len(boxes), NEW id \in Id,
         task' = [task EXCEPT ![t] = [pc |-> to, box |-> n, id |-> id]],
         ~Held(t), to \in {"take", "look"} => t \in Requests,
         t = Warmer /\ to # "idle" => toWarm' > 0,
         UNCHANGED <<boxes, processes, pool, reserved, displaced>>,
         toWarm' \in Nat, t # Warmer => toWarm' = toWarm,
         inflight' \in Nat, holder' \in Requests \cup {Nobody}, waiting' \in Seq(Tasks)
  PROVE IInv'
<1>1. /\ task \in [Tasks -> Job(Len(boxes))] /\ task'[t].pc = to
      /\ task' \in [Tasks -> Job(Len(boxes))]
      /\ \A u \in Tasks \ {t} : task'[u] = task[u]
  BY Types DEF IInv, Typed, Job
<1>2. TypeOK'
  BY <1>1, Types DEF IInv, Typed
<1>3. Control'
  BY <1>1 DEF IInv, Control, Working
<1>4. ~Held(t)'
  BY <1>1 DEF Held
<1>5. \A u \in Tasks : /\ Held(u)' <=> Held(u)
                       /\ Held(u) => task'[u].box = task[u].box
  BY <1>1, <1>4 DEF Held
<1>6. HandsApart' /\ InHand' = InHand
  BY <1>5, HandsKept DEF IInv, Ownership
<1>7. PoolApart' /\ PlacesApart' /\ All' = All
  BY <1>6 DEF IInv, Ownership, PoolApart, PlacesApart, All, Tracked
<1>8. PortsPartitioned'
  BY <1>7, PortsSame DEF IInv, Ownership
<1>9. QED
  BY <1>2, <1>3, <1>6, <1>7, <1>8 DEF IInv, Ownership

\* The facts of the invariant that the lemmas below ask for.
LEMMA Facts ==
  ASSUME IInv, NEW t \in Tasks
  PROVE /\ Typed /\ Len(boxes) \in Nat /\ task[t] \in Job(Len(boxes))
        /\ task[t].pc \in Place /\ task[t].id \in Id /\ task[t].box \in 0..Len(boxes)
        /\ task[t].pc \in Working => task[t].box \in 1..Len(boxes)
        /\ task[t].pc \in {"take", "look"} => t \in Requests
        /\ task[t].pc = "append" => t \notin Requests
        /\ t = Warmer /\ task[t].pc # "idle" => toWarm > 0
<1>1. Typed
  BY Types DEF IInv
<1>2. Len(boxes) \in Nat /\ task[t] \in Job(Len(boxes))
  BY <1>1 DEF Typed
<1>3. task[t].pc \in Place /\ task[t].id \in Id /\ task[t].box \in 0..Len(boxes)
  BY <1>2 DEF Job
<1>4. QED
  BY <1>1, <1>2, <1>3 DEF IInv, Control

\* To move a task is to give it another pc.
LEMMA Going ==
  ASSUME IInv, NEW t \in Tasks, NEW pc, Goto(t, pc)
  PROVE task' = [task EXCEPT ![t] = [pc |-> pc, box |-> task[t].box, id |-> task[t].id]]
<1>1. task[t] \in Job(Len(boxes)) /\ task' = [task EXCEPT ![t].pc = pc]
  BY Facts DEF Goto
<1>2. [task[t] EXCEPT !.pc = pc] = [pc |-> pc, box |-> task[t].box, id |-> task[t].id]
  BY <1>1 DEF Job
<1>3. QED
  BY <1>1, <1>2

\* A task that ends: it is idle, or waits for the lock to count itself out.
LEMMA Abandons ==
  ASSUME IInv, NEW t \in Tasks, task[t].pc # "idle", Abandon(t)
  PROVE /\ holder' = holder /\ waiting' \in Seq(Tasks) /\ inflight' \in Nat
        /\ toWarm' \in Nat /\ (t # Warmer => toWarm' = toWarm)
        /\ \E to \in {"idle", "settle"} :
             /\ task' = [task EXCEPT ![t] = [pc |-> to, box |-> 0, id |-> Random]]
             /\ t = Warmer => to = "idle"
<1>1. waiting \in Seq(Tasks) /\ inflight \in Nat /\ toWarm \in Nat
  BY Facts DEF Typed
<1>2. LessInflight \in Nat /\ Append(waiting, t) \in Seq(Tasks)
  BY <1>1, LessIsNat
<1>3. Idle = [pc |-> "idle", box |-> 0, id |-> Random]
      /\ [Idle EXCEPT !.pc = "settle"] = [pc |-> "settle", box |-> 0, id |-> Random]
  BY DEF Idle
<1>4. CASE t \in Fillers
  <2>1. Leave(t, waiting) /\ toWarm' = toWarm /\ holder' = holder
    BY <1>4 DEF Abandon
  <2>2. t # Warmer
    BY <1>4, TasksOK
  <2>3. QED
    BY <1>1, <1>2, <1>3, <2>1, <2>2 DEF Leave, Settled
<1>5. CASE t \notin Fillers
  <2>1. /\ task' = Settled(t) /\ UNCHANGED <<inflight, waiting, holder>>
        /\ toWarm' = IF t = Warmer THEN toWarm - 1 ELSE toWarm
    BY <1>5 DEF Abandon
  <2>2. t = Warmer => toWarm - 1 \in Nat
    BY <1>1, Facts
  <2>3. QED
    BY <1>1, <1>3, <2>1, <2>2 DEF Settled
<1>6. QED
  BY <1>4, <1>5

\* What a process lives through does not change its ports.
LEMMA LifeChanges ==
  ASSUME boxes \in Seq(Box), NEW b \in 1..Len(boxes), NEW l \in {"up", "dead"},
         boxes' = [boxes EXCEPT ![b].life = l]
  PROVE /\ boxes' \in Seq(Box) /\ Len(boxes') = Len(boxes)
        /\ \A c \in 1..Len(boxes) : boxes'[c].ports = boxes[c].ports
<1>1. boxes[b] \in Box
  OBVIOUS
<1>2. /\ [boxes[b] EXCEPT !.life = l] \in Box
      /\ [boxes[b] EXCEPT !.life = l].ports = boxes[b].ports
  BY <1>1 DEF Box
<1>3. boxes' = [boxes EXCEPT ![b] = [boxes[b] EXCEPT !.life = l]]
  OBVIOUS
<1>4. QED
  BY <1>2, <1>3

\* Whatever is tracked or displaced is a process that was started.
LEMMA AllStarted == IInv => All \subseteq 1..Len(boxes)
<1> SUFFICES ASSUME IInv PROVE All \subseteq 1..Len(boxes)
  OBVIOUS
<1>1. processes \subseteq 1..Len(boxes) /\ displaced \subseteq 1..Len(boxes)
      /\ ToSet(pool) \subseteq 1..Len(boxes)
  BY Types, QueueMembers DEF IInv, Typed
<1>2. InHand \subseteq 1..Len(boxes)
  BY Facts DEF InHand
<1>3. QED
  BY <1>1, <1>2 DEF All, Tracked

\* A task that held a sandbox ends, and gives back the sandbox's ports.
LEMMA GivesBack ==
  ASSUME IInv, NEW t \in Tasks, Held(t), Abandon(t),
         boxes' \in Seq(Box), Len(boxes') = Len(boxes),
         \A c \in 1..Len(boxes) : boxes'[c].ports = boxes[c].ports,
         reserved' = Release(task[t].box), UNCHANGED <<processes, pool, displaced>>
  PROVE IInv'
<1>1. PICK to \in {"idle", "settle"} :
        /\ task' = [task EXCEPT ![t] = [pc |-> to, box |-> 0, id |-> Random]]
        /\ t = Warmer => to = "idle"
  BY Abandons DEF Held, Working
<1>2. /\ holder' = holder /\ waiting' \in Seq(Tasks) /\ inflight' \in Nat
      /\ toWarm' \in Nat /\ (t # Warmer => toWarm' = toWarm)
  BY Abandons DEF Held, Working
<1>3. /\ task \in [Tasks -> Job(Len(boxes))] /\ Len(boxes) \in Nat
      /\ processes \subseteq 1..Len(boxes) /\ displaced \subseteq 1..Len(boxes)
      /\ pool \in Seq(1..Len(boxes)) /\ reserved \subseteq Ports
      /\ holder \in Requests \cup {Nobody}
  BY Facts DEF Typed
<1>4. [pc |-> to, box |-> 0, id |-> Random] \in Job(Len(boxes))
  BY <1>3 DEF Job, Place, Id
<1>5. /\ task' \in [Tasks -> Job(Len(boxes))] /\ task'[t].pc = to
      /\ \A u \in Tasks \ {t} : task'[u] = task[u]
  BY <1>1, <1>3, <1>4
<1>6. TypeOK'
  BY <1>2, <1>3, <1>5, Types DEF Typed, Release
<1>7. Control'
  BY <1>1, <1>2, <1>5 DEF IInv, Control, Working
<1>8. ~Held(t)'
  BY <1>5 DEF Held, Working
<1>9. HandsApart' /\ InHand' = InHand \ {task[t].box} /\ task[t].box \in InHand
  BY <1>5, <1>8, HandsLess DEF IInv, Ownership
<1>10. PoolApart' /\ PlacesApart'
  BY <1>9 DEF IInv, Ownership, PoolApart, PlacesApart
<1>11. task[t].box \in All /\ All' = All \ {task[t].box}
  BY <1>9 DEF IInv, Ownership, PlacesApart, All, Tracked
<1>12. PortsPartitioned'
  BY <1>11, AllStarted, PortsLess DEF IInv, Ownership, Release
<1>13. QED
  BY <1>6, <1>7, <1>9, <1>10, <1>12 DEF IInv, Ownership

\* A registered sandbox is deleted, or the deletion raises, whoever does it.
LEMMA Forgets ==
  ASSUME IInv, NEW d \in processes, Forget(d), UNCHANGED <<pool, displaced>>,
         task' \in [Tasks -> Job(Len(boxes))], Control', HandsApart', InHand' = InHand,
         inflight' \in Nat, toWarm' \in Nat, holder' \in Requests \cup {Nobody},
         waiting' \in Seq(Tasks)
  PROVE IInv'
<1>1. Typed
  BY Types DEF IInv
<1>2. CASE UNCHANGED <<boxes, processes, reserved>>
  <2>1. TypeOK'
    BY <1>1, <1>2, Types DEF Typed
  <2>2. PoolApart' /\ PlacesApart' /\ PortsPartitioned'
    BY <1>2 DEF IInv, Ownership, PoolApart, PlacesApart, PortsPartitioned,
                PortsDisjoint, Tracked, PortsOf
  <2>3. QED
    BY <2>1, <2>2 DEF IInv, Ownership
<1>3. CASE /\ boxes' = [boxes EXCEPT ![d].life = "dead"]
           /\ processes' = processes \ {d} /\ reserved' = reserved \ boxes[d].ports
  <2>1. d \in 1..Len(boxes)
    BY <1>1 DEF Typed
  <2>2. /\ boxes' \in Seq(Box) /\ Len(boxes') = Len(boxes)
        /\ \A c \in 1..Len(boxes) : boxes'[c].ports = boxes[c].ports
    BY <1>1, <1>3, <2>1, LifeChanges DEF Typed
  <2>3. TypeOK'
    BY <1>1, <1>3, <2>2, Types DEF Typed
  <2>4. PoolApart' /\ PlacesApart'
    BY <1>3 DEF IInv, Ownership, PoolApart, PlacesApart
  <2>5. d \in All /\ All' = All \ {d}
    BY <1>3 DEF IInv, Ownership, PlacesApart, All, Tracked
  <2>6. PortsPartitioned'
    BY <1>3, <2>2, <2>5, AllStarted, PortsLess DEF IInv, Ownership
  <2>7. QED
    BY <2>3, <2>4, <2>6 DEF IInv, Ownership
<1>4. QED
  BY <1>2, <1>3 DEF Forget, Release

\* A sandbox passes from hand to place, or from place to place.
LEMMA Passes ==
  ASSUME IInv, UNCHANGED <<boxes, reserved>>, All' = All, HandsApart', PoolApart',
         PlacesApart', Control', task' \in [Tasks -> Job(Len(boxes))],
         processes' \subseteq 1..Len(boxes), displaced' \subseteq 1..Len(boxes),
         pool' \in Seq(1..Len(boxes)), inflight' \in Nat, toWarm' \in Nat,
         holder' \in Requests \cup {Nobody}, waiting' \in Seq(Tasks)
  PROVE IInv'
<1>1. TypeOK'
  BY Types DEF IInv, Typed
<1>2. PortsPartitioned'
  BY PortsSame DEF IInv, Ownership
<1>3. QED
  BY <1>1, <1>2 DEF IInv, Ownership

----------------------------------------------------------------------------
(* Actions                                                                 *)

\* A request that begins keeps the invariant.
LEMMA BeginInv ==
  ASSUME IInv, NEW t \in Tasks, NEW id \in Id, Begin(t, id) PROVE IInv'
<1> DEFINE to == IF id = Random THEN "take" ELSE "spawn"
<1>1. /\ t \in Requests /\ task[t].pc = "idle" /\ to \in Place \ Working
      /\ task' = [task EXCEPT ![t] = [pc |-> to, box |-> 0, id |-> id]]
      /\ UNCHANGED <<boxes, processes, pool, reserved, inflight, holder, waiting,
                     toWarm, displaced>>
  BY DEF Begin, At, lock, Place, Working
<1>2. ~Held(t) /\ t # Warmer
  BY <1>1, TasksOK DEF Held, Working
<1>3. /\ 0 \in 0..Len(boxes) /\ toWarm' \in Nat /\ inflight' \in Nat
      /\ holder' \in Requests \cup {Nobody} /\ waiting' \in Seq(Tasks)
  BY <1>1, Facts DEF Typed
<1> HIDE DEF to
<1>4. QED
  BY <1>1, <1>2, <1>3, Steps

\* A request whose sandbox has been looked at keeps the invariant.
LEMMA LookedInv ==
  ASSUME IInv, NEW t \in Tasks, Looked(t) PROVE IInv'
<1>1. /\ task[t].pc = "look" /\ holder' = Nobody
      /\ task' = [task EXCEPT ![t] = [pc |-> "idle", box |-> 0, id |-> Random]]
      /\ UNCHANGED <<boxes, processes, pool, reserved, inflight, waiting, toWarm,
                     displaced>>
  BY DEF Looked, At, Settled, Idle, AfterLook
<1>2. ~Held(t) /\ "idle" \in Place \ Working /\ Random \in Id
  BY <1>1 DEF Held, Working, Place, Id
<1>3. /\ 0 \in 0..Len(boxes) /\ toWarm' \in Nat /\ inflight' \in Nat
      /\ holder' \in Requests \cup {Nobody} /\ waiting' \in Seq(Tasks)
  BY <1>1, Facts DEF Typed
<1>4. QED
  BY <1>1, <1>2, <1>3, Steps

\* A task that is counted out keeps the invariant.
LEMMA SettleInv ==
  ASSUME IInv, NEW t \in Tasks, NEW queue \in Seq(Tasks), Settle(t, queue) PROVE IInv'
<1>1. /\ task[t].pc = "settle" /\ waiting' = queue /\ inflight' = LessInflight
      /\ task' = [task EXCEPT ![t] = [pc |-> "idle", box |-> 0, id |-> Random]]
      /\ UNCHANGED <<boxes, processes, pool, reserved, holder, toWarm, displaced>>
  BY DEF Settle, At, Settled, Idle
<1>2. ~Held(t) /\ "idle" \in Place \ Working /\ Random \in Id
  BY <1>1 DEF Held, Working, Place, Id
<1>3. /\ 0 \in 0..Len(boxes) /\ toWarm' \in Nat /\ inflight' \in Nat
      /\ holder' \in Requests \cup {Nobody} /\ waiting' \in Seq(Tasks)
  BY <1>1, Facts, LessIsNat DEF Typed
<1>4. QED
  BY <1>1, <1>2, <1>3, Steps

\* A replenishment that begins, or need not, keeps the invariant.
LEMMA ReplenishInv ==
  ASSUME IInv, NEW t \in Tasks, NEW queue \in Seq(Tasks), Replenish(t, queue)
  PROVE IInv'
<1>1. /\ task[t].pc = "check" /\ waiting' = queue
      /\ UNCHANGED <<boxes, processes, pool, reserved, holder, toWarm, displaced>>
  BY DEF Replenish, At
<1>2. ~Held(t) /\ "idle" \in Place \ Working /\ "spawn" \in Place \ Working
      /\ Random \in Id
  BY <1>1 DEF Held, Working, Place, Id
<1>3. CASE Counted >= PoolSize
  <2>1. /\ task' = [task EXCEPT ![t] = [pc |-> "idle", box |-> 0, id |-> Random]]
        /\ inflight' = inflight
    BY <1>3 DEF Replenish, Settled, Idle
  <2>2. /\ 0 \in 0..Len(boxes) /\ toWarm' \in Nat /\ inflight' \in Nat
        /\ holder' \in Requests \cup {Nobody} /\ waiting' \in Seq(Tasks)
    BY <1>1, <2>1, Facts DEF Typed
  <2>3. QED
    BY <1>1, <1>2, <2>1, <2>2, Steps
<1>4. CASE ~(Counted >= PoolSize)
  <2>1. Goto(t, "spawn") /\ inflight' = inflight + 1
    BY <1>4 DEF Replenish
  <2>2. /\ task[t].box \in 0..Len(boxes) /\ task[t].id \in Id /\ toWarm' \in Nat /\ inflight' \in Nat
        /\ holder' \in Requests \cup {Nobody} /\ waiting' \in Seq(Tasks)
    BY <1>1, <2>1, Facts DEF Typed
  <2>3. t = Warmer => toWarm > 0
    BY <1>1, Facts
  <2>4. task' = [task EXCEPT ![t] =
                   [pc |-> "spawn", box |-> task[t].box, id |-> task[t].id]]
    BY <2>1, Going
  <2>5. QED
    BY <1>1, <1>2, <2>2, <2>3, <2>4, Steps
<1>5. QED
  BY <1>3, <1>4

\* The next iteration of the warm-up keeps the invariant.
LEMMA WarmInv == ASSUME IInv, Warm PROVE IInv'
<1>1. /\ Warmer \in Tasks /\ toWarm > 0 /\ task[Warmer].pc = "idle"
      /\ Goto(Warmer, "spawn")
      /\ UNCHANGED <<boxes, processes, pool, reserved, inflight, holder, waiting,
                     toWarm, displaced>>
  BY DEF Warm, Tasks, Iterates, At, lock
<1>2. ~Held(Warmer) /\ "spawn" \in Place \ Working
  BY <1>1 DEF Held, Working, Place
<1>3. QED
  BY <1>1, <1>2, Facts, Going, Steps DEF Typed

\* Asking for the lock keeps the invariant.
LEMMA WaitInv ==
  ASSUME IInv, NEW t \in Tasks, Wait(t) PROVE IInv'
<1>1. /\ waiting' = Append(waiting, t)
      /\ UNCHANGED <<boxes, processes, pool, reserved, inflight, holder, task, toWarm,
                     displaced>>
  BY DEF Wait
<1>2. Typed /\ waiting' \in Seq(Tasks)
  BY <1>1, Types DEF IInv, Typed
<1>3. Control'
  BY <1>1 DEF IInv, Control
<1>4. /\ HandsApart' /\ InHand' = InHand /\ PoolApart' /\ PlacesApart'
      /\ All' = All
  BY <1>1 DEF IInv, Ownership, HandsApart, Held, PoolApart, PlacesApart, InHand, At,
     All, Tracked
<1>5. QED
  BY <1>1, <1>2, <1>3, <1>4, Passes DEF Typed

\* The first of the pool is taken, or nothing is.
LEMMA TakeInv ==
  ASSUME IInv, NEW t \in Tasks, NEW queue \in Seq(Tasks), Take(t, queue) PROVE IInv'
<1>1. /\ task[t].pc = "take" /\ t \in Requests /\ waiting' = queue
      /\ UNCHANGED <<boxes, reserved, inflight, toWarm, displaced>>
  BY Facts DEF Take, At
<1>2. ~Held(t) /\ t # Warmer
  BY <1>1, TasksOK DEF Held, Working
<1>3. CASE pool = <<>>
  <2>1. Goto(t, "spawn") /\ UNCHANGED <<processes, pool, holder>>
    BY <1>3 DEF Take, Resumed, Replaces
  <2>2. "spawn" \in Place \ Working
    BY DEF Place, Working
  <2>3. QED
    BY <1>1, <1>2, <2>1, <2>2, Facts, Going, Steps DEF Typed
<1>4. CASE pool # <<>>
  <2>1. PICK f \in Unused : task' = [task EXCEPT ![t].pc = "look", ![f].pc = "check"]
    BY <1>4 DEF Take, Resumed, Replaces
  <2>2. /\ processes' = processes \cup {Head(pool)} /\ pool' = Tail(pool)
        /\ holder' = t
    BY <1>4 DEF Take
  <2>3. f \in Tasks /\ f \notin Requests /\ task[f].pc = "idle" /\ f # t /\ f # Warmer
    BY <1>1, TasksOK DEF Unused, At, Tasks
  <2>4. /\ task \in [Tasks -> Job(Len(boxes))] /\ pool \in Seq(1..Len(boxes))
        /\ processes \subseteq 1..Len(boxes) /\ displaced \subseteq 1..Len(boxes)
        /\ inflight \in Nat /\ toWarm \in Nat
    BY Facts DEF Typed
  <2>5. /\ [task[t] EXCEPT !.pc = "look"] \in Job(Len(boxes))
        /\ [task[f] EXCEPT !.pc = "check"] \in Job(Len(boxes))
        /\ [task[t] EXCEPT !.pc = "look"].pc = "look"
        /\ [task[f] EXCEPT !.pc = "check"].pc = "check"
    BY <2>3, <2>4 DEF Job, Place
  <2>6. /\ task' \in [Tasks -> Job(Len(boxes))]
        /\ task'[t].pc = "look" /\ task'[f].pc = "check"
        /\ \A u \in Tasks \ {t, f} : task'[u] = task[u]
    BY <2>1, <2>3, <2>4, <2>5
  <2>7. Control'
    BY <1>1, <1>2, <2>3, <2>6 DEF IInv, Control, Working
  <2>8. \A u \in Tasks : /\ Held(u)' <=> Held(u)
                         /\ Held(u) => task'[u].box = task[u].box
    BY <1>1, <2>3, <2>6 DEF Held, Working
  <2>9. HandsApart' /\ InHand' = InHand
    BY <2>8, HandsKept DEF IInv, Ownership
  <2>10. /\ Head(pool) \in 1..Len(boxes) /\ Tail(pool) \in Seq(1..Len(boxes))
         /\ ToSet(pool) = ToSet(Tail(pool)) \cup {Head(pool)}
    BY <1>4, <2>4, QueueMembers
  <2>11. /\ DOMAIN Tail(pool) = 1 .. Len(pool) - 1 /\ DOMAIN pool = 1 .. Len(pool)
         /\ Len(pool) \in Nat \ {0} /\ Head(pool) = pool[1]
         /\ \A i \in 1 .. Len(pool) - 1 : Tail(pool)[i] = pool[i + 1]
    BY <1>4, <2>4
  <2>12. PoolApart
    BY DEF IInv, Ownership
  <2>13. PoolApart'
    BY <2>2, <2>11, <2>12 DEF PoolApart
  <2>14. Head(pool) \notin ToSet(Tail(pool))
    BY <2>11, <2>12 DEF PoolApart, ToSet
  <2>15. PlacesApart' /\ All' = All
    BY <1>1, <2>2, <2>9, <2>10, <2>14 DEF IInv, Ownership, PlacesApart, All, Tracked
  <2>16. QED
    BY <1>1, <2>2, <2>4, <2>6, <2>7, <2>9, <2>10, <2>13, <2>15, Passes
<1>5. QED
  BY <1>3, <1>4

\* A sandbox that is warm joins the pool.
LEMMA PooledInv ==
  ASSUME IInv, NEW t \in Tasks, NEW queue \in Seq(Tasks), Pooled(t, queue) PROVE IInv'
<1> DEFINE b == task[t].box
<1>1. /\ task[t].pc = "append" /\ pool' = Append(pool, b)
      /\ UNCHANGED <<boxes, processes, reserved, holder, displaced>>
  BY DEF Pooled, At
<1>2. Held(t)
  BY <1>1, Facts DEF Held, Working
<1>3. /\ task \in [Tasks -> Job(Len(boxes))] /\ Len(boxes) \in Nat
      /\ pool \in Seq(1..Len(boxes)) /\ b \in 1..Len(boxes)
      /\ processes \subseteq 1..Len(boxes) /\ displaced \subseteq 1..Len(boxes)
      /\ inflight \in Nat /\ toWarm \in Nat /\ holder \in Requests \cup {Nobody}
  BY <1>1, Facts DEF Typed, Working
<1>4. /\ inflight' \in Nat /\ toWarm' \in Nat /\ waiting' \in Seq(Tasks)
      /\ t # Warmer => toWarm' = toWarm
      /\ \E to \in {"idle", "settle"} :
           /\ task' = [task EXCEPT ![t] = [pc |-> to, box |-> 0, id |-> Random]]
           /\ t = Warmer => to = "idle"
  <2>1. Idle = [pc |-> "idle", box |-> 0, id |-> Random]
        /\ [Idle EXCEPT !.pc = "settle"] = [pc |-> "settle", box |-> 0, id |-> Random]
    BY DEF Idle
  <2>2. LessInflight \in Nat /\ Append(queue, t) \in Seq(Tasks)
    BY <1>3, LessIsNat
  <2>3. CASE t = Warmer
    <3>1. toWarm - 1 \in Nat
      BY <1>1, <1>3, <2>3, Facts
    <3>2. QED
      BY <1>3, <2>1, <2>3, <3>1 DEF Pooled, Settled
  <2>4. CASE t # Warmer
    BY <1>3, <2>1, <2>2, <2>4 DEF Pooled, Settled, Leave
  <2>5. QED
    BY <2>3, <2>4
<1>5. PICK to \in {"idle", "settle"} :
        /\ task' = [task EXCEPT ![t] = [pc |-> to, box |-> 0, id |-> Random]]
        /\ t = Warmer => to = "idle"
  BY <1>4
<1>6. [pc |-> to, box |-> 0, id |-> Random] \in Job(Len(boxes))
  BY <1>3 DEF Job, Place, Id
<1>7. /\ task' \in [Tasks -> Job(Len(boxes))] /\ task'[t].pc = to
      /\ \A u \in Tasks \ {t} : task'[u] = task[u]
  BY <1>3, <1>5, <1>6
<1>8. Control'
  BY <1>4, <1>5, <1>7 DEF IInv, Control, Working
<1>9. ~Held(t)'
  BY <1>7 DEF Held, Working
<1>10. HandsApart' /\ InHand' = InHand \ {b} /\ b \in InHand
  BY <1>2, <1>7, <1>9, HandsLess DEF IInv, Ownership
<1>11. Append(pool, b) \in Seq(1..Len(boxes)) /\ ToSet(Append(pool, b)) = ToSet(pool) \cup {b}
  BY <1>3, QueueMembers
<1>12. b \notin ToSet(pool)
  BY <1>10 DEF IInv, Ownership, PlacesApart
<1>13. PoolApart'
  <2>1. /\ DOMAIN Append(pool, b) = 1 .. Len(pool) + 1 /\ DOMAIN pool = 1 .. Len(pool)
        /\ Len(pool) \in Nat /\ Append(pool, b)[Len(pool) + 1] = b
        /\ \A i \in 1 .. Len(pool) : Append(pool, b)[i] = pool[i]
    BY <1>3
  <2>2. \A i \in 1 .. Len(pool) : pool[i] # b
    BY <1>12, <2>1 DEF ToSet
  <2>3. PoolApart
    BY DEF IInv, Ownership
  <2>4. QED
    BY <1>1, <2>1, <2>2, <2>3 DEF PoolApart
<1>14. PlacesApart' /\ All' = All
  BY <1>1, <1>10, <1>11 DEF IInv, Ownership, PlacesApart, All, Tracked
<1>15. QED
  BY <1>1, <1>3, <1>4, <1>7, <1>8, <1>10, <1>11, <1>13, <1>14, Passes

\* A start that fails before there is a process keeps the invariant.
LEMMA FailsInv ==
  ASSUME IInv, NEW t \in Tasks, ~Held(t), task[t].pc # "idle", Abandon(t),
         UNCHANGED <<boxes, processes, pool, reserved, displaced>>
  PROVE IInv'
<1>1. PICK to \in {"idle", "settle"} :
        /\ task' = [task EXCEPT ![t] = [pc |-> to, box |-> 0, id |-> Random]]
        /\ t = Warmer => to = "idle"
  BY Abandons
<1>2. /\ holder' = holder /\ waiting' \in Seq(Tasks) /\ inflight' \in Nat
      /\ toWarm' \in Nat /\ (t # Warmer => toWarm' = toWarm)
  BY Abandons
<1>3. 0 \in 0..Len(boxes) /\ holder' \in Requests \cup {Nobody}
  BY <1>2, Facts DEF Typed
<1>4. to \in Place \ Working /\ Random \in Id /\ to \notin {"take", "look"}
  BY DEF Place, Working, Id
<1>5. t = Warmer /\ to # "idle" => toWarm' > 0
  BY <1>1
<1>6. QED
  BY <1>1, <1>2, <1>3, <1>4, <1>5, Steps

\* A process that is started, or cannot be, keeps the invariant.
LEMMA SpawnInv ==
  ASSUME IInv, NEW t \in Tasks, Spawn(t) PROVE IInv'
<1> DEFINE n == Len(boxes) + 1
<1>1. task[t].pc = "spawn" /\ UNCHANGED <<processes, pool, displaced>>
  BY DEF Spawn, At
<1>2. ~Held(t)
  BY <1>1 DEF Held, Working
<1>3. CASE Abandon(t) /\ UNCHANGED <<boxes, reserved>>
  BY <1>1, <1>2, <1>3, FailsInv
<1>4. CASE \E S \in SUBSET Ports, bound \in {{}, Listening} :
             /\ Reserve(S, bound)
             /\ boxes' = Append(boxes, [id |-> task[t].id, ports |-> S, life |-> "up"])
             /\ reserved' = reserved \cup S
             /\ task' = [task EXCEPT ![t].pc = "spawned", ![t].box = n]
             /\ UNCHANGED <<inflight, lock, toWarm>>
  <2>1. PICK S \in SUBSET Ports, bound \in {{}, Listening} :
          /\ Reserve(S, bound)
          /\ boxes' = Append(boxes, [id |-> task[t].id, ports |-> S, life |-> "up"])
          /\ reserved' = reserved \cup S
          /\ task' = [task EXCEPT ![t].pc = "spawned", ![t].box = n]
          /\ UNCHANGED <<inflight, holder, waiting, toWarm>>
    BY <1>4 DEF lock
  <2>2. S \subseteq Ports \ (CollectReserved \cup bound)
    BY <2>1 DEF Reserve, kSubset
  <2>3. S \cap reserved = {}
    BY <2>2 DEF CollectReserved
  <2>4. /\ Typed /\ Len(boxes) \in Nat /\ task[t] \in Job(Len(boxes)) /\ task[t].id \in Id
    BY Facts
  <2>5. [id |-> task[t].id, ports |-> S, life |-> "up"] \in Box
    BY <2>4 DEF Box
  <2>6. /\ boxes' \in Seq(Box) /\ Len(boxes') = n /\ boxes'[n].ports = S
        /\ \A c \in 1..Len(boxes) : boxes'[c] = boxes[c]
    BY <2>1, <2>4, <2>5 DEF Typed
  <2>7. [task[t] EXCEPT !.pc = "spawned", !.box = n] \in Job(n)
    <3>1. "spawned" \in Place /\ n \in 0..n
      BY <2>4 DEF Place
    <3>2. \A place, box, nr, id :
            /\ "spawned" \in place /\ nr \in box
            => \A job \in [pc : place, box : 0..Len(boxes), id : id] :
                 [job EXCEPT !.pc = "spawned", !.box = nr]
                   \in [pc : place, box : box, id : id]
      OBVIOUS
    <3>3. QED
      BY <2>4, <3>1, <3>2 DEF Job
  <2>8. /\ [task[t] EXCEPT !.pc = "spawned", !.box = n].pc = "spawned"
        /\ [task[t] EXCEPT !.pc = "spawned", !.box = n].box = n
    BY <2>4 DEF Job
  <2>9. Job(Len(boxes)) \subseteq Job(n)
    BY <2>4 DEF Job
  <2>10. /\ task' \in [Tasks -> Job(n)] /\ task'[t].pc = "spawned" /\ task'[t].box = n
         /\ \A u \in Tasks \ {t} : task'[u] = task[u]
    BY <2>1, <2>4, <2>7, <2>8, <2>9 DEF Typed
  <2>11. pool \in Seq(1..n)
    BY <2>4 DEF Typed
  <2>12. TypeOK'
    <3>1. /\ processes \subseteq 1..n /\ displaced \subseteq 1..n
          /\ reserved' \subseteq Ports
      BY <2>1, <2>4 DEF Typed
    <3>2. QED
      BY <1>1, <2>1, <2>4, <2>6, <2>10, <2>11, <3>1, Types DEF Typed
  <2>13. Control'
    BY <1>1, <2>1, <2>4, <2>10 DEF IInv, Control, Working
  <2>14. n \notin All
    BY <2>4, AllStarted
  <2>15. Held(t)'
    BY <2>10 DEF Held, Working
  <2>16. HandsApart' /\ InHand' = InHand \cup {n}
    BY <1>2, <2>10, <2>14, <2>15, HandsMore DEF IInv, Ownership, All, Tracked
  <2>17. PoolApart' /\ PlacesApart' /\ All' = All \cup {n}
    BY <1>1, <2>14, <2>16 DEF IInv, Ownership, PoolApart, PlacesApart, All, Tracked
  <2>18. PortsPartitioned'
    <3> HIDE DEF n
    <3>1. \A c \in All : boxes'[c].ports = boxes[c].ports
      BY <2>6, AllStarted
    <3>2. QED
      BY <2>1, <2>3, <2>6, <2>14, <2>17, <3>1, PortsMore DEF IInv, Ownership
  <2>19. QED
    BY <2>12, <2>13, <2>16, <2>17, <2>18 DEF IInv, Ownership
<1>5. QED
  BY <1>3, <1>4 DEF Spawn

\* A task keeps its sandbox and goes on with it.
LEMMA GoesOn ==
  ASSUME IInv, NEW t \in Tasks, NEW pc \in Place, Goto(t, pc),
         pc \notin {"take", "look"}, pc = "append" => t \notin Requests,
         task[t].pc \in Working,
         UNCHANGED <<holder, waiting, inflight, toWarm>>
  PROVE /\ task' \in [Tasks -> Job(Len(boxes))] /\ Control'
        /\ inflight' \in Nat /\ toWarm' \in Nat
        /\ holder' \in Requests \cup {Nobody} /\ waiting' \in Seq(Tasks)
        /\ task'[t].pc = pc /\ task'[t].box = task[t].box
        /\ \A u \in Tasks \ {t} : task'[u] = task[u]
<1>1. /\ task \in [Tasks -> Job(Len(boxes))]
      /\ inflight \in Nat /\ toWarm \in Nat
      /\ holder \in Requests \cup {Nobody} /\ waiting \in Seq(Tasks)
  BY Facts DEF Typed
<1>2. [task[t] EXCEPT !.pc = pc] \in Job(Len(boxes))
      /\ [task[t] EXCEPT !.pc = pc].pc = pc /\ [task[t] EXCEPT !.pc = pc].box = task[t].box
  BY <1>1 DEF Job
<1>3. /\ task' \in [Tasks -> Job(Len(boxes))]
      /\ task'[t].pc = pc /\ task'[t].box = task[t].box
      /\ \A u \in Tasks \ {t} : task'[u] = task[u]
  BY <1>1, <1>2 DEF Goto
<1>4. t = Warmer => toWarm > 0
  BY Facts DEF Working
<1>5. task[t].box # 0
  BY <1>1, Facts
<1>6. Control'
  BY <1>3, <1>4, <1>5 DEF IInv, Control, Working
<1>7. QED
  BY <1>1, <1>3, <1>6

\* What becomes of a process that was started keeps the invariant.
LEMMA CheckInv ==
  ASSUME IInv, NEW t \in Tasks, Check(t) PROVE IInv'
<1> DEFINE b == task[t].box
           old == Named(task[t].id)
<1>1. task[t].pc = "spawned" /\ UNCHANGED <<boxes, pool>>
  BY DEF Check, At
<1>2. Held(t) /\ task[t].pc \in Working
  BY <1>1 DEF Held, Working
<1>3. CASE /\ boxes[b].life = "dead" /\ reserved' = Release(b)
           /\ Abandon(t) /\ UNCHANGED <<processes, displaced>>
  <2>1. boxes' \in Seq(Box)
    BY <1>1, Facts DEF Typed
  <2>2. QED
    BY <1>1, <1>2, <1>3, <2>1, GivesBack
<1>4. CASE /\ Goto(t, "ready") /\ UNCHANGED <<reserved, inflight, lock, toWarm>>
           /\ t \in Requests /\ processes' = (processes \ old) \cup {b}
           /\ displaced' = displaced \cup old
  <2>1. /\ task' \in [Tasks -> Job(Len(boxes))] /\ Control'
        /\ inflight' \in Nat /\ toWarm' \in Nat
        /\ holder' \in Requests \cup {Nobody} /\ waiting' \in Seq(Tasks)
        /\ task'[t].pc = "ready"
        /\ \A u \in Tasks \ {t} : task'[u] = task[u]
    BY <1>2, <1>4, GoesOn DEF lock, Place
  <2>2. ~Held(t)'
    BY <1>4, <2>1 DEF Held, Working
  <2>3. HandsApart' /\ InHand' = InHand \ {b} /\ b \in InHand
    BY <1>2, <2>1, <2>2, HandsLess DEF IInv, Ownership
  <2>4. /\ processes \subseteq 1..Len(boxes) /\ displaced \subseteq 1..Len(boxes)
        /\ pool \in Seq(1..Len(boxes)) /\ b \in 1..Len(boxes)
    BY <1>2, Facts DEF Typed
  <2>5. old \subseteq processes
    BY DEF Named
  <2>6. PoolApart'
    BY <1>1 DEF IInv, Ownership, PoolApart
  <2> HIDE DEF old, b
  <2>7. PlacesApart' /\ All' = All
    BY <1>1, <1>4, <2>3, <2>5 DEF IInv, Ownership, PlacesApart, All, Tracked
  <2>8. processes' \subseteq 1..Len(boxes) /\ displaced' \subseteq 1..Len(boxes)
    BY <1>4, <2>4, <2>5
  <2>9. QED
    BY <1>1, <1>4, <2>1, <2>3, <2>4, <2>6, <2>7, <2>8, Passes
<1>5. CASE /\ Goto(t, "ready") /\ UNCHANGED <<reserved, inflight, lock, toWarm>>
           /\ t \notin Requests /\ UNCHANGED <<processes, displaced>>
  <2>1. /\ task' \in [Tasks -> Job(Len(boxes))] /\ Control'
        /\ inflight' \in Nat /\ toWarm' \in Nat
        /\ holder' \in Requests \cup {Nobody} /\ waiting' \in Seq(Tasks)
        /\ task'[t].pc = "ready" /\ task'[t].box = task[t].box
        /\ \A u \in Tasks \ {t} : task'[u] = task[u]
    BY <1>2, <1>5, GoesOn DEF lock, Place
  <2>2. \A u \in Tasks : /\ Held(u)' <=> Held(u)
                         /\ Held(u) => task'[u].box = task[u].box
    BY <1>2, <1>5, <2>1 DEF Held, Working
  <2>3. HandsApart' /\ InHand' = InHand
    BY <2>2, HandsKept DEF IInv, Ownership
  <2>4. /\ processes \subseteq 1..Len(boxes) /\ displaced \subseteq 1..Len(boxes)
        /\ pool \in Seq(1..Len(boxes))
    BY Facts DEF Typed
  <2>5. PoolApart' /\ PlacesApart' /\ All' = All
    BY <1>1, <1>5, <2>3 DEF IInv, Ownership, PoolApart, PlacesApart, All, Tracked
  <2>6. QED
    BY <1>1, <1>5, <2>1, <2>3, <2>4, <2>5, Passes
<1>6. QED
  BY <1>3, <1>4, <1>5 DEF Check

\* An answer of a server keeps the invariant.
LEMMA ReadyInv ==
  ASSUME IInv, NEW t \in Tasks, Ready(t) PROVE IInv'
<1>1. /\ task[t].pc = "ready"
      /\ UNCHANGED <<boxes, processes, pool, reserved, inflight, holder, waiting, toWarm,
                     displaced>>
  BY DEF Ready, At, lock
<1>2. /\ inflight \in Nat /\ toWarm \in Nat /\ 0 \in 0..Len(boxes)
      /\ holder \in Requests \cup {Nobody} /\ waiting \in Seq(Tasks)
      /\ processes \subseteq 1..Len(boxes) /\ displaced \subseteq 1..Len(boxes)
      /\ pool \in Seq(1..Len(boxes))
  BY Facts DEF Typed
<1>3. CASE t \in Requests
  <2>1. task' = [task EXCEPT ![t] = [pc |-> "idle", box |-> 0, id |-> Random]]
    BY <1>3 DEF Ready, Settled, Idle
  <2>2. ~Held(t) /\ "idle" \in Place \ Working /\ Random \in Id
    BY <1>1, <1>3 DEF Held, Working, Place, Id
  <2>3. QED
    BY <1>1, <1>2, <2>1, <2>2, Steps
<1>4. CASE t \notin Requests
  <2>1. Goto(t, "append") /\ "append" \in Place /\ task[t].pc \in Working
    BY <1>1, <1>4 DEF Ready, Goto, Place, Working
  <2>2. /\ task' \in [Tasks -> Job(Len(boxes))] /\ Control'
        /\ task'[t].pc = "append" /\ task'[t].box = task[t].box
        /\ \A u \in Tasks \ {t} : task'[u] = task[u]
    BY <1>1, <1>4, <2>1, GoesOn
  <2>3. \A u \in Tasks : /\ Held(u)' <=> Held(u)
                         /\ Held(u) => task'[u].box = task[u].box
    BY <1>1, <1>4, <2>2 DEF Held, Working
  <2>4. HandsApart' /\ InHand' = InHand
    BY <2>3, HandsKept DEF IInv, Ownership
  <2>5. PoolApart' /\ PlacesApart' /\ All' = All
    BY <1>1, <2>4 DEF IInv, Ownership, PoolApart, PlacesApart, All, Tracked
  <2>6. QED
    BY <1>1, <1>2, <2>2, <2>4, <2>5, Passes
<1>5. QED
  BY <1>3, <1>4

\* A server that never answers keeps the invariant.
LEMMA NeverReadyInv ==
  ASSUME IInv, NEW t \in Tasks, NeverReady(t) PROVE IInv'
<1> DEFINE b == task[t].box
<1>1. task[t].pc = "ready" /\ Abandon(t) /\ UNCHANGED <<pool, displaced>>
  BY DEF NeverReady, At
<1>2. b \in 1..Len(boxes) /\ Typed
  BY <1>1, Facts DEF Working
<1>3. CASE t \notin Requests
  <2>1. PICK life \in {"dead", boxes[b].life} : boxes' = [boxes EXCEPT ![b].life = life]
    BY <1>3 DEF NeverReady
  <2>2. life \in {"up", "dead"}
    <3>1. boxes[b] \in Box
      BY <1>2 DEF Typed
    <3>2. QED
      BY <3>1 DEF Box
  <2>3. /\ boxes' \in Seq(Box) /\ Len(boxes') = Len(boxes)
        /\ \A c \in 1..Len(boxes) : boxes'[c].ports = boxes[c].ports
    BY <1>2, <2>1, <2>2, LifeChanges DEF Typed
  <2>4. Held(t) /\ reserved' = Release(b) /\ UNCHANGED processes
    BY <1>1, <1>3 DEF NeverReady, Held, Working
  <2>5. QED
    BY <1>1, <2>3, <2>4, GivesBack
<1>4. CASE t \in Requests /\ UNCHANGED <<boxes, processes, reserved>>
  BY <1>1, <1>4, FailsInv DEF Held
<1>5. CASE t \in Requests /\ \E d \in processes : Forget(d)
  <2>1. PICK d \in processes : Forget(d)
    BY <1>5
  <2>2. PICK to \in {"idle", "settle"} :
          /\ task' = [task EXCEPT ![t] = [pc |-> to, box |-> 0, id |-> Random]]
          /\ t = Warmer => to = "idle"
    BY <1>1, Abandons
  <2>3. /\ holder' = holder /\ waiting' \in Seq(Tasks) /\ inflight' \in Nat
        /\ toWarm' \in Nat /\ (t # Warmer => toWarm' = toWarm)
    BY <1>1, Abandons
  <2>4. [pc |-> to, box |-> 0, id |-> Random] \in Job(Len(boxes))
    BY <1>2, Facts DEF Job, Place, Id
  <2>5. /\ task' \in [Tasks -> Job(Len(boxes))] /\ task'[t].pc = to
        /\ \A u \in Tasks \ {t} : task'[u] = task[u]
    BY <1>2, <2>2, <2>4 DEF Typed
  <2>6. Control'
    BY <2>2, <2>3, <2>5 DEF IInv, Control, Working
  <2>7. \A u \in Tasks : /\ Held(u)' <=> Held(u)
                         /\ Held(u) => task'[u].box = task[u].box
    BY <1>1, <1>5, <2>5 DEF Held, Working
  <2>8. HandsApart' /\ InHand' = InHand
    BY <2>7, HandsKept DEF IInv, Ownership
  <2>9. holder' \in Requests \cup {Nobody}
    BY <1>2, <2>3 DEF Typed
  <2>10. QED
    BY <1>1, <2>1, <2>3, <2>5, <2>6, <2>8, <2>9, Forgets
<1>6. QED
  BY <1>3, <1>4, <1>5 DEF NeverReady

\* A deletion keeps the invariant.
LEMMA DeleteInv ==
  ASSUME IInv, NEW b, Delete(b) PROVE IInv'
<1>1. /\ b \in processes /\ Forget(b)
      /\ UNCHANGED <<pool, inflight, holder, waiting, task, toWarm, displaced>>
  BY DEF Delete, lock
<1>2. Typed
  BY Types DEF IInv
<1>3. Control' /\ HandsApart' /\ InHand' = InHand
  BY <1>1 DEF IInv, Ownership, Control, HandsApart, Held, InHand, At
<1>4. QED
  BY <1>1, <1>2, <1>3, Forgets DEF Typed

\* The death of a process keeps the invariant.
LEMMA DieInv ==
  ASSUME IInv, NEW b \in 1..Len(boxes), Die(b) PROVE IInv'
<1>1. /\ boxes' = [boxes EXCEPT ![b].life = "dead"]
      /\ UNCHANGED <<processes, pool, reserved, inflight, holder, waiting, task,
                     toWarm, displaced>>
  BY DEF Die, lock
<1>2. Typed
  BY Types DEF IInv
<1>3. /\ boxes' \in Seq(Box) /\ Len(boxes') = Len(boxes)
      /\ \A c \in 1..Len(boxes) : boxes'[c].ports = boxes[c].ports
  BY <1>1, <1>2, LifeChanges DEF Typed
<1>4. TypeOK'
  BY <1>1, <1>2, <1>3, Types DEF Typed
<1>5. Control' /\ HandsApart' /\ PoolApart' /\ PlacesApart' /\ All' = All
  BY <1>1 DEF IInv, Ownership, Control, HandsApart, Held, InHand, At, PoolApart,
     PlacesApart, All, Tracked
<1>6. PortsPartitioned'
  BY <1>1, <1>3, <1>5, AllStarted, PortsSame DEF IInv, Ownership
<1>7. QED
  BY <1>4, <1>5, <1>6 DEF IInv, Ownership

\* Whoever has the lock, its turn keeps the invariant.
LEMMA TurnInv ==
  ASSUME IInv, NEW t \in Tasks, NEW queue \in Seq(Tasks), Turn(t, queue) PROVE IInv'
  BY TakeInv, ReplenishInv, PooledInv, SettleInv DEF Turn

\* Every step keeps the invariant.
LEMMA NextInv == IInv /\ [Next]_vars => IInv'
<1> SUFFICES ASSUME IInv, [Next]_vars PROVE IInv'
  OBVIOUS
<1>1. ASSUME NEW t \in Requests, NEW id \in Names \cup {Random}, Begin(t, id) PROVE IInv'
  BY <1>1, BeginInv DEF Tasks, Id
<1>2. ASSUME NEW t \in Tasks, Proceed(t) PROVE IInv'
  <2>1. CASE Starting(t)
    BY <2>1, SpawnInv, CheckInv, ReadyInv, NeverReadyInv DEF Starting
  <2>2. CASE Acquire(t)
    <3>1. waiting \in Seq(Tasks)
      BY Facts DEF Typed
    <3>2. QED
      BY <2>2, <3>1, TurnInv DEF Acquire
  <2>3. CASE Wait(t)
    BY <2>3, WaitInv
  <2>4. CASE Looked(t)
    BY <2>4, LookedInv
  <2>5. QED
    BY <1>2, <2>1, <2>2, <2>3, <2>4 DEF Proceed
<1>3. CASE Wake
  <2>1. waiting \in Seq(Tasks) /\ waiting # <<>>
    BY <1>3, Types DEF IInv, Typed, Wake
  <2>2. Head(waiting) \in Tasks /\ Tail(waiting) \in Seq(Tasks)
    BY <2>1
  <2>3. QED
    BY <1>3, <2>2, TurnInv DEF Wake
<1>4. CASE Warm
  BY <1>4, WarmInv
<1>5. ASSUME NEW b \in 1..Len(boxes), Delete(b) \/ Die(b) PROVE IInv'
  BY <1>5, DeleteInv, DieInv
<1>6. CASE UNCHANGED vars
  BY <1>6 DEF vars, IInv, TypeOK, Control, Ownership, HandsApart, Held, PoolApart,
     PlacesApart, PortsPartitioned, PortsDisjoint, PortsOf, InHand, At, Tracked
<1>7. QED
  BY <1>1, <1>2, <1>3, <1>4, <1>5, <1>6 DEF Next

----------------------------------------------------------------------------
(* The size of the pool                                                    *)

Filling == {"check", "spawn", "spawned", "ready", "append"}

\* The tasks that fill the pool are finitely many.
LEMMA Counts ==
  ASSUME TRUE
  PROVE /\ IsFiniteSet(Coming) /\ Cardinality(Coming) \in Nat
        /\ IsFiniteSet(Coming') /\ Cardinality(Coming') \in Nat
<1>1. Coming \subseteq Fillers /\ Coming' \subseteq Fillers
  BY DEF Coming
<1>2. QED
  BY <1>1, TasksOK, FS_Subset, FS_CardinalityType

\* Nothing is added: what is counted does not grow.
LEMMA NoMore ==
  ASSUME IInv, toWarm' \in Nat, PoolWithinSize, Coming' \subseteq Coming, pool' = pool,
         toWarm' <= toWarm
  PROVE PoolWithinSize'
<1>1. Cardinality(Coming') <= Cardinality(Coming)
  BY Counts, FS_Subset
<1>2. Len(pool) \in Nat /\ toWarm \in Nat
  BY Types DEF IInv, Typed
<1>3. QED
  BY <1>1, <1>2, Counts, SizesOK DEF PoolWithinSize

\* A step of one task that does not begin a replenishment.
LEMMA OneMoves ==
  ASSUME NEW t \in Tasks, \A u \in Tasks \ {t} : task'[u] = task[u],
         task'[t].pc \in Filling => (task[t].pc \in Filling \/ t \notin Fillers)
  PROVE Coming' \subseteq Coming
  BY DEF Coming, Filling, Tasks

\* A task that ends counts itself out.
LEMMA AbandonsSize ==
  ASSUME IInv, PoolWithinSize, NEW t \in Tasks, task[t].pc # "idle", Abandon(t),
         pool' = pool
  PROVE PoolWithinSize'
<1>1. PICK to \in {"idle", "settle"} :
        task' = [task EXCEPT ![t] = [pc |-> to, box |-> 0, id |-> Random]]
  BY Abandons
<1>2. task \in [Tasks -> Job(Len(boxes))] /\ toWarm \in Nat
  BY Facts DEF Typed
<1>3. task'[t].pc = to /\ \A u \in Tasks \ {t} : task'[u] = task[u]
  BY <1>1, <1>2
<1>4. Coming' \subseteq Coming
  BY <1>3, OneMoves DEF Filling
<1>5. toWarm' <= toWarm /\ toWarm' \in Nat
  <2>1. toWarm' \in Nat
    BY Abandons
  <2>2. toWarm' = toWarm \/ toWarm' = toWarm - 1
    BY DEF Abandon, Leave
  <2>3. QED
    BY <1>2, <2>1, <2>2
<1>6. QED
  BY <1>4, <1>5, NoMore

\* A start that gets on.
LEMMA StartingSize ==
  ASSUME IInv, PoolWithinSize, NEW t \in Tasks, Starting(t) PROVE PoolWithinSize'
<1>1. task[t].pc # "idle" /\ pool' = pool /\ task[t].pc \in Filling
  BY DEF Starting, Spawn, Check, Ready, NeverReady, At, Filling
<1>2. CASE Abandon(t)
  BY <1>1, <1>2, AbandonsSize
<1>3. CASE ~Abandon(t)
  <2>1. task \in [Tasks -> Job(Len(boxes))] /\ toWarm \in Nat
    BY Facts DEF Typed
  <2>2. toWarm' = toWarm
    BY <1>3 DEF Starting, Spawn, Check, Ready, NeverReady
  <2>3. \A u \in Tasks \ {t} : task'[u] = task[u]
    BY <1>3, <2>1 DEF Starting, Spawn, Check, Ready, NeverReady, Goto, Settled
  <2>4. Coming' \subseteq Coming
    BY <1>1, <2>3, OneMoves
  <2>5. QED
    BY <1>1, <2>1, <2>2, <2>4, NoMore
<1>4. QED
  BY <1>2, <1>3

\* A sandbox taken from the pool makes room for the one that replaces it.
LEMMA TakeSize ==
  ASSUME IInv, PoolWithinSize, NEW t \in Tasks, NEW queue, Take(t, queue)
  PROVE PoolWithinSize'
<1>1. /\ task[t].pc = "take" /\ t \in Requests /\ toWarm' = toWarm
      /\ task \in [Tasks -> Job(Len(boxes))] /\ toWarm \in Nat
      /\ pool \in Seq(1..Len(boxes))
  BY Facts DEF Take, At, Typed
<1>2. t \notin Fillers
  BY <1>1, TasksOK
<1>3. CASE pool = <<>>
  <2>1. Goto(t, "spawn") /\ pool' = pool
    BY <1>3 DEF Take, Resumed, Replaces
  <2>2. \A u \in Tasks \ {t} : task'[u] = task[u]
    BY <1>1, <2>1 DEF Goto
  <2>3. QED
    BY <1>1, <1>2, <2>1, <2>2, OneMoves, NoMore
<1>4. CASE pool # <<>>
  <2>1. PICK f \in Unused : task' = [task EXCEPT ![t].pc = "look", ![f].pc = "check"]
    BY <1>4 DEF Take, Resumed, Replaces
  <2>2. pool' = Tail(pool)
    BY <1>4 DEF Take
  <2>3. Len(pool') = Len(pool) - 1 /\ Len(pool) \in Nat
    BY <1>1, <1>4, <2>2
  <2>4. \A u \in Tasks \ {t, f} : task'[u] = task[u]
    BY <1>1, <2>1
  <2>5. Coming' \subseteq Coming \cup {f}
    BY <1>2, <2>4 DEF Coming, Tasks
  <2>6. Cardinality(Coming') <= Cardinality(Coming) + 1
    <3>1. IsFiniteSet(Coming \cup {f})
          /\ Cardinality(Coming \cup {f}) <= Cardinality(Coming) + 1
      <4>1. IsFiniteSet(Coming) /\ Cardinality(Coming) \in Nat
        BY Counts
      <4>2. /\ IsFiniteSet(Coming \cup {f})
            /\ \/ Cardinality(Coming \cup {f}) = Cardinality(Coming)
               \/ Cardinality(Coming \cup {f}) = Cardinality(Coming) + 1
        BY <4>1, FS_AddElement, Zenon
      <4>3. QED
        BY <4>1, <4>2
    <3>2. QED
      BY <2>5, <3>1, Counts, FS_Subset, FS_CardinalityType
  <2>7. QED
    BY <1>1, <2>3, <2>6, Counts, SizesOK DEF PoolWithinSize
<1>5. QED
  BY <1>3, <1>4

\* What joins the pool was counted before.
LEMMA PooledSize ==
  ASSUME IInv, PoolWithinSize, NEW t \in Tasks, NEW queue \in Seq(Tasks),
         Pooled(t, queue)
  PROVE PoolWithinSize'
<1>1. /\ task[t].pc = "append" /\ pool' = Append(pool, task[t].box)
      /\ task \in [Tasks -> Job(Len(boxes))] /\ toWarm \in Nat
      /\ pool \in Seq(1..Len(boxes)) /\ t \notin Requests
  BY Facts DEF Pooled, At, Typed
<1>2. Len(pool') = Len(pool) + 1 /\ Len(pool) \in Nat
  BY <1>1
<1>3. task'[t].pc \in {"idle", "settle"} /\ \A u \in Tasks \ {t} : task'[u] = task[u]
  <2>1. Idle.pc = "idle" /\ [Idle EXCEPT !.pc = "settle"].pc = "settle"
    BY DEF Idle
  <2>2. task' = [task EXCEPT ![t] = Idle]
        \/ task' = [task EXCEPT ![t] = [Idle EXCEPT !.pc = "settle"]]
    BY DEF Pooled, Leave, Settled
  <2>3. QED
    BY <1>1, <2>1, <2>2
<1>4. CASE t = Warmer
  <2>1. toWarm' = toWarm - 1
    BY <1>4 DEF Pooled
  <2>2. Coming' \subseteq Coming
    BY <1>3, OneMoves DEF Filling
  <2>3. Cardinality(Coming') <= Cardinality(Coming)
    BY <2>2, Counts, FS_Subset
  <2>4. QED
    BY <1>1, <1>2, <2>1, <2>3, Counts, SizesOK DEF PoolWithinSize
<1>5. CASE t # Warmer
  <2>1. toWarm' = toWarm
    BY <1>5 DEF Pooled
  <2>2. t \in Coming
    BY <1>1, <1>5 DEF Coming, Tasks
  <2>3. Coming' \subseteq Coming \ {t}
    BY <1>3 DEF Coming, Tasks
  <2>4. /\ IsFiniteSet(Coming \ {t})
        /\ Cardinality(Coming \ {t}) = Cardinality(Coming) - 1
    BY <2>2, Counts, FS_RemoveElement
  <2>5. Cardinality(Coming') <= Cardinality(Coming) - 1
    BY <2>3, <2>4, Counts, FS_Subset
  <2>6. QED
    BY <1>1, <1>2, <2>1, <2>5, Counts, SizesOK DEF PoolWithinSize
<1>6. QED
  BY <1>4, <1>5

\* Whoever has the lock, its turn keeps the pool within its size.
LEMMA TurnSize ==
  ASSUME IInv, PoolWithinSize, NEW t \in Tasks, NEW queue \in Seq(Tasks),
         Turn(t, queue)
  PROVE PoolWithinSize'
<1>1. CASE Take(t, queue) \/ Pooled(t, queue)
  BY <1>1, TakeSize, PooledSize
<1>2. CASE Replenish(t, queue) \/ Settle(t, queue)
  <2>1. task \in [Tasks -> Job(Len(boxes))] /\ toWarm \in Nat
    BY Facts DEF Typed
  <2>2. pool' = pool /\ toWarm' = toWarm
    BY <1>2 DEF Replenish, Settle
  <2>3. \A u \in Tasks \ {t} : task'[u] = task[u]
    BY <1>2, <2>1 DEF Replenish, Settle, Settled, Goto
  <2>4. task'[t].pc = "idle" \/ task[t].pc \in Filling
    BY <1>2, <2>1 DEF Replenish, Settle, Settled, Idle, At, Filling
  <2>5. QED
    BY <2>1, <2>2, <2>3, <2>4, OneMoves, NoMore DEF Filling
<1>3. QED
  BY <1>1, <1>2 DEF Turn

\* Every step keeps the pool within its size.
LEMMA NextSize == IInv /\ PoolWithinSize /\ [Next]_vars => PoolWithinSize'
<1> SUFFICES ASSUME IInv, PoolWithinSize, [Next]_vars PROVE PoolWithinSize'
  OBVIOUS
<1>1. task \in [Tasks -> Job(Len(boxes))] /\ toWarm \in Nat /\ waiting \in Seq(Tasks)
  BY Types DEF IInv, Typed
<1>2. ASSUME UNCHANGED <<pool, toWarm, task>> PROVE PoolWithinSize'
  BY <1>2 DEF PoolWithinSize, Coming
<1>3. ASSUME NEW t \in Requests, NEW id \in Names \cup {Random}, Begin(t, id)
      PROVE PoolWithinSize'
  <2>1. t \in Tasks /\ t \notin Fillers /\ pool' = pool /\ toWarm' = toWarm
        /\ \A u \in Tasks \ {t} : task'[u] = task[u]
    BY <1>1, <1>3, TasksOK DEF Tasks, Begin
  <2>2. QED
    BY <1>1, <2>1, OneMoves, NoMore
<1>4. ASSUME NEW t \in Tasks, Proceed(t) PROVE PoolWithinSize'
  <2>1. CASE Starting(t)
    BY <2>1, StartingSize
  <2>2. CASE Acquire(t)
    BY <1>1, <2>2, TurnSize DEF Acquire
  <2>3. CASE Wait(t)
    BY <1>2, <2>3 DEF Wait
  <2>4. CASE Looked(t)
    <3>1. pool' = pool /\ toWarm' = toWarm /\ task'[t].pc = "idle"
          /\ \A u \in Tasks \ {t} : task'[u] = task[u]
      <4>1. task' = [task EXCEPT ![t] = Idle] /\ Idle.pc = "idle"
        BY <2>4 DEF Looked, Settled, Idle
      <4>2. QED
        BY <1>1, <2>4, <4>1 DEF Looked
    <3>2. QED
      BY <1>1, <3>1, OneMoves, NoMore DEF Filling
  <2>5. QED
    BY <1>4, <2>1, <2>2, <2>3, <2>4 DEF Proceed
<1>5. CASE Wake
  <2>1. waiting # <<>>
    BY <1>5 DEF Wake
  <2>2. Head(waiting) \in Tasks /\ Tail(waiting) \in Seq(Tasks)
    BY <1>1, <2>1
  <2>3. QED
    BY <1>5, <2>2, TurnSize DEF Wake
<1>6. CASE Warm
  <2>1. Warmer \in Tasks /\ Warmer \notin Fillers /\ pool' = pool /\ toWarm' = toWarm
        /\ \A u \in Tasks \ {Warmer} : task'[u] = task[u]
    BY <1>1, <1>6, TasksOK DEF Tasks, Warm, Goto
  <2>2. QED
    BY <1>1, <2>1, OneMoves, NoMore
<1>7. ASSUME NEW b \in 1..Len(boxes), Delete(b) \/ Die(b) PROVE PoolWithinSize'
  BY <1>2, <1>7 DEF Delete, Die
<1>8. CASE UNCHANGED vars
  BY <1>2, <1>8 DEF vars
<1>9. QED
  BY <1>3, <1>4, <1>5, <1>6, <1>7, <1>8 DEF Next

----------------------------------------------------------------------------
(* Theorems                                                                *)

\* In every reachable state a sandbox is in one hand or in one place, and the
\* ports reserved are those of the sandboxes that are somewhere.
THEOREM Invariant == Spec => []IInv
  BY InitInv, NextInv, PTL DEF Spec

\* Each variable holds what the code puts there, for any number of tasks, ports
\* and processes.
THEOREM TypeCorrect == Spec => []TypeOK
<1>1. IInv => TypeOK
  BY DEF IInv
<1>2. QED
  BY <1>1, Invariant, PTL

\* However starts end and interleave with deletions and with the pool, no two
\* sandboxes share a port, and no port is reserved that nobody has.
THEOREM PortsHaveOneOwner == Spec => []PortsPartitioned
<1>1. IInv => PortsPartitioned
  BY DEF IInv, Ownership
<1>2. QED
  BY <1>1, Invariant, PTL

\* However many requests take from it while the warm-up runs and others are
\* replaced, the pool and what is on its way to it never exceed POOL_SIZE.
THEOREM PoolBounded == Spec => []PoolWithinSize
<1>1. Init => PoolWithinSize
  <2> SUFFICES ASSUME Init PROVE PoolWithinSize
    OBVIOUS
  <2>1. Coming = {} /\ Len(pool) = 0 /\ toWarm = PoolSize
    BY DEF Init, Idle, Coming, Tasks
  <2>2. QED
    BY <2>1, FS_EmptySet, SizesOK DEF PoolWithinSize
<1>2. QED
  BY <1>1, NextSize, Invariant, PTL DEF Spec
===============================================================================
