------------------------- MODULE AgentControllerProofs -------------------------
(***************************************************************************)
(* Proofs about AgentController for any limits, modes and number of client *)
(* events: its types, that only what the user confirmed runs, that what    *)
(* the runtime holds is accounted for, and that a headless run ends at its *)
(* limit.                                                                  *)
(***************************************************************************)
EXTENDS AgentController, TLAPS

Ctl ==
  [state : AgentStates, pending : Pending, iter : Nat, max : Nat, hit : BOOLEAN,
   intents : Nat, answered : SUBSET Nat, awaited : BOOLEAN, asked : SUBSET Nat,
   approved : SUBSET Nat, late : SUBSET Nat, abandoned : SUBSET Nat,
   unnamed : SUBSET Nat]
Event == [kind : {"message", "finish", "refuse", "condense"}]
           \cup [kind : {"say"}, intent : BOOLEAN]
           \cup [kind : {"change"}, state : AgentStates]
           \cup [kind : {"observation", "null"}, act : Nat, cause : Nat \cup {NoId}]
Runnable == [kind : {"run", "think"}, id : Nat \ {0}, act : Nat, conf : ConfStates]
Recall == [kind : {"recall"}, id : Nat \ {0}, act : Nat, conf : ConfStates]
Queues == [controller : Seq(Event), runtime : Seq(Runnable), memory : Seq(Recall)]
Threads == [at : {"idle", "recall", "reissue", "step", "llm", "ask", "add"},
            action : Pending]
Work == [c : Ctl, inbox : Queues, next : Nat \ {0}, thread : Threads]

In(q) == {q[i] : i \in DOMAIN q}

\* A working copy w of the controller and its queues is good, while the runtime
\* runs b, ex ran, n is the last LLM call whose action is known and k were made.
\* No id is given twice.
Numbered(w, b) ==
  LET q == w.inbox.runtime IN
  /\ \A i, j \in DOMAIN q : i # j => q[i].id # q[j].id
  /\ \A e \in In(q) : e.id < w.next /\ (b # NoAction => e.id # b.id)
  /\ b # NoAction => b.id < w.next
  /\ \A m \in In(w.inbox.memory) :
       /\ m.id < w.next /\ (b # NoAction => m.id # b.id)
       /\ \A e \in In(q) : m.id # e.id
  /\ w.c.pending # NoAction =>
       w.c.pending.kind # "none" /\ w.c.pending.id \in {NoId} \cup 1 .. w.next - 1

\* What the runtime holds is pending or given up, and what was answered while
\* it holds it was given up.
Accounted(w, e) ==
  e.id = w.c.pending.id \/ e.id \in w.c.abandoned \/ e.act \in w.c.unnamed
GivenUp(w, b, id) ==
  \A e \in In(w.inbox.runtime) \cup {b} :
    e.kind = "run" /\ e.id = id => e.id \in w.c.abandoned
Outstanding(w, b) ==
  /\ \A e \in In(w.inbox.runtime) \cup {b} : e.kind = "run" => Accounted(w, e)
  /\ \A o \in In(w.inbox.controller) :
       o.kind \in {"observation", "null"} =>
         o.cause < w.next /\ GivenUp(w, b, o.cause)

\* What may run was not put to the user, or was confirmed.
Approves(w, e) == e.conf \in {"none", "confirmed"} /\ e.act \in w.c.asked
                    => e.act \in w.c.approved
Confirms(w, b, ex, n) ==
  /\ \A e \in In(w.inbox.runtime) \cup {b} :
       e.kind = "run" => Approves(w, e) /\ e.act <= n
  /\ \A a \in ex : a <= n /\ (a \in w.c.asked => a \in w.c.approved)
  /\ w.c.pending.act <= n /\ \A a \in w.c.asked : a <= n

Limited(w, k) ==
  w.c.iter = k /\ (Headless => w.c.max = IterationDelta /\ w.c.iter <= w.c.max)

\* Only the action that the controller's thread is about to add is pending without
\* an id; given up in that moment, it is one given up before it had an id.
Adding(c, t) ==
  LET p == c.pending
      a == t.action
  IN
  /\ p # NoAction /\ p.id = NoId => p = a
  /\ t.at \in {"idle", "step", "llm"} => a = NoAction
  /\ t.at = "llm" => p = NoAction
  /\ t.at = "recall" => a.kind = "recall"
  /\ t.at \in {"ask", "add"} => a.kind = "run"
  /\ t.at \in {"recall", "reissue", "ask", "add"} => a.id = NoId /\ p \in {a, NoAction}
  /\ t.at \in {"ask", "add"} /\ p = NoAction => a.act \in c.unnamed
  /\ t.at \in {"reissue", "ask", "add"} => (a.conf \in {"none", "confirmed"} /\ a.act \in c.asked
                                              => a.act \in c.approved)
Bounded(t, n) == t.action.act <= n

Good(w, b, ex, n, k) ==
  /\ w \in Work /\ Numbered(w, b) /\ Outstanding(w, b) /\ Confirms(w, b, ex, n)
  /\ Limited(w, k) /\ Adding(w.c, w.thread) /\ Bounded(w.thread, n)

Known == IF thread.at = "llm" THEN calls - 1 ELSE calls
Busy == [kind : {"none", "run", "think"}, id : Nat \cup {NoId}, act : Nat, conf : ConfStates]
Ran(b, ex) == /\ b \in Busy /\ ex \subseteq Nat
              /\ b = NoAction \/ (b.kind = "run" /\ b.id \in Nat \ {0})
IInv ==
  /\ Good(Now, busy, executed, Known, calls) /\ Ran(busy, executed)
  /\ clearing \in BOOLEAN /\ calls \in Nat /\ errs \in Nat /\ users \in 0 .. MaxUser
  /\ thread.at = "llm" => calls > 0

----------------------------------------------------------------------------
(* Queues and records                                                      *)

\* The members of a queue, when one is taken from its head or put at its end.
LEMMA QueueMembers ==
  ASSUME NEW S, NEW q \in Seq(S)
  PROVE /\ In(q) \subseteq S
        /\ \A e \in S : /\ Append(q, e) \in Seq(S) /\ In(Append(q, e)) = In(q) \cup {e}
                        /\ DOMAIN Append(q, e) = DOMAIN q \cup {Len(q) + 1}
                        /\ Append(q, e)[Len(q) + 1] = e
                        /\ \A i \in DOMAIN q : Append(q, e)[i] = q[i]
        /\ Len(q) + 1 \notin DOMAIN q
        /\ q # <<>> => /\ Head(q) \in In(q) /\ Tail(q) \in Seq(S)
                       /\ In(Tail(q)) \subseteq In(q)
                       /\ Head(q) = q[1] /\ 1 \in DOMAIN q
                       /\ \A i \in DOMAIN Tail(q) : /\ i + 1 \in DOMAIN q /\ i \in Nat \ {0}
                                                    /\ Tail(q)[i] = q[i + 1]
<1>1. In(q) \subseteq S
  BY DEF In
<1>2. Len(q) + 1 \notin DOMAIN q
  OBVIOUS
<1>3. ASSUME NEW e \in S
      PROVE /\ Append(q, e) \in Seq(S) /\ In(Append(q, e)) = In(q) \cup {e}
            /\ DOMAIN Append(q, e) = DOMAIN q \cup {Len(q) + 1}
            /\ Append(q, e)[Len(q) + 1] = e
            /\ \A i \in DOMAIN q : Append(q, e)[i] = q[i]
  <2>1. /\ Append(q, e) \in Seq(S) /\ DOMAIN q = 1 .. Len(q) /\ Len(q) \in Nat
        /\ DOMAIN Append(q, e) = 1 .. Len(q) + 1 /\ Append(q, e)[Len(q) + 1] = e
        /\ \A i \in DOMAIN q : Append(q, e)[i] = q[i]
    OBVIOUS
  <2>2. DOMAIN Append(q, e) = DOMAIN q \cup {Len(q) + 1}
    BY <2>1
  <2>3. In(Append(q, e)) = In(q) \cup {e}
    BY <2>1, <2>2 DEF In
  <2>4. QED
    BY <2>1, <2>2, <2>3
<1>4. ASSUME q # <<>>
      PROVE /\ Head(q) \in In(q) /\ Tail(q) \in Seq(S) /\ In(Tail(q)) \subseteq In(q)
            /\ Head(q) = q[1] /\ 1 \in DOMAIN q
            /\ \A i \in DOMAIN Tail(q) : /\ i + 1 \in DOMAIN q /\ i \in Nat \ {0}
                                         /\ Tail(q)[i] = q[i + 1]
  <2>1. /\ DOMAIN Tail(q) = 1 .. Len(q) - 1 /\ DOMAIN q = 1 .. Len(q)
        /\ Len(q) \in Nat \ {0} /\ Head(q) = q[1] /\ Tail(q) \in Seq(S)
        /\ \A i \in 1 .. Len(q) - 1 : Tail(q)[i] = q[i + 1]
    BY <1>4
  <2>2. /\ 1 \in DOMAIN q
        /\ \A i \in DOMAIN Tail(q) : /\ i + 1 \in DOMAIN q /\ i \in Nat \ {0}
                                     /\ Tail(q)[i] = q[i + 1]
    BY <2>1
  <2>3. QED
    BY <2>1, <2>2 DEF In
<1>5. QED
  BY <1>1, <1>2, <1>3, <1>4

\* What a working copy is made of.
LEMMA Parts ==
  ASSUME NEW w \in Work
  PROVE /\ w.c \in Ctl /\ w.inbox \in Queues /\ w.next \in Nat \ {0}
        /\ w.inbox.controller \in Seq(Event) /\ w.inbox.runtime \in Seq(Runnable)
        /\ w.inbox.memory \in Seq(Recall)
        /\ w.c.pending \in Pending /\ w.c.pending.id \in Nat \cup {NoId}
        /\ w.c.pending.act \in Nat /\ w.c.state \in AgentStates
        /\ w.c.iter \in Nat /\ w.c.max \in Nat
        /\ w.c.abandoned \subseteq Nat /\ w.c.unnamed \subseteq Nat
        /\ w.c.asked \subseteq Nat /\ w.c.approved \subseteq Nat
        /\ w.thread \in Threads /\ w.thread.action \in Pending
        /\ w.thread.action.act \in Nat
        /\ w.thread.at \in {"idle", "recall", "reissue", "step", "llm", "ask", "add"}
  BY DEF Work, Ctl, Queues, Pending, Threads

\* Nothing is pending: its fields.
LEMMA NoActionIsPending ==
  NoAction \in Pending /\ NoAction.kind = "none" /\ NoAction.id = -1 /\ NoAction.act = 0
  BY DEF NoAction, Act, Pending, ConfStates, NoId

\* What a place of the thread is made of.
LEMMA Places ==
  ASSUME NEW at \in {"idle", "recall", "reissue", "step", "llm", "ask", "add"}, NEW p \in Pending
  PROVE Thread(at, p) \in Threads /\ Thread(at, p).at = at /\ Thread(at, p).action = p
  BY DEF Thread, Threads

\* An event is put on the controller's queue.
LEMMA Tells ==
  ASSUME NEW w \in Work, NEW e \in Event
  PROVE LET v == AddTo(w, "controller", e) IN
        /\ v \in Work /\ v.c = w.c /\ v.next = w.next /\ v.thread = w.thread
        /\ v.inbox.controller = Append(w.inbox.controller, e)
        /\ v.inbox.runtime = w.inbox.runtime /\ v.inbox.memory = w.inbox.memory
<1>1. Append(w.inbox.controller, e) \in Seq(Event)
  BY Parts
<1>2. QED
  BY <1>1 DEF AddTo, Work, Queues

\* The head of a queue is taken off.
LEMMA Takes ==
  ASSUME NEW w \in Work,
         NEW s \in {"controller", "runtime", "memory"}, w.inbox[s] # <<>>
  PROVE LET v == [w EXCEPT !.inbox[s] = Tail(@)] IN
        /\ v \in Work /\ v.c = w.c /\ v.next = w.next /\ v.thread = w.thread
        /\ v.inbox[s] = Tail(w.inbox[s])
        /\ \A r \in {"controller", "runtime", "memory"} \ {s} : v.inbox[r] = w.inbox[r]
<1>1. CASE s = "controller"
  <2>1. Tail(w.inbox.controller) \in Seq(Event)
    BY <1>1, Parts
  <2>2. QED
    BY <1>1, <2>1 DEF Work, Queues
<1>2. CASE s = "runtime"
  <2>1. Tail(w.inbox.runtime) \in Seq(Runnable)
    BY <1>2, Parts
  <2>2. QED
    BY <1>2, <2>1 DEF Work, Queues
<1>3. CASE s = "memory"
  <2>1. Tail(w.inbox.memory) \in Seq(Recall)
    BY <1>3, Parts
  <2>2. QED
    BY <1>3, <2>1 DEF Work, Queues
<1>4. QED
  BY <1>1, <1>2, <1>3

Given(w) == [w.thread.action EXCEPT !.id = w.next]

\* The action that the thread holds is added under an id of its own, and stays
\* pending if it is.
LEMMA AddsAction ==
  ASSUME NEW w \in Work, NEW s \in {"runtime", "memory"}, NEW at \in {"idle", "step"},
         s = "runtime" => w.thread.action.kind = "run",
         s = "memory" => w.thread.action.kind = "recall"
  PROVE LET v == AddAction(w, s, at)
            p == w.thread.action
            r == Given(w) IN
        /\ v \in Work /\ v.next = w.next + 1 /\ v.thread = Thread(at, NoAction)
        /\ v.c.pending = IF w.c.pending = NoAction THEN NoAction ELSE r
        /\ v.c.abandoned = w.c.abandoned /\ v.c.unnamed = w.c.unnamed
        /\ v.c.asked = w.c.asked
        /\ v.c.approved = w.c.approved /\ v.c.iter = w.c.iter /\ v.c.max = w.c.max
        /\ v.inbox[s] = Append(w.inbox[s], r)
        /\ \A q \in {"controller", "runtime", "memory"} \ {s} : v.inbox[q] = w.inbox[q]
        /\ r.id = w.next /\ r.kind = p.kind /\ r.act = p.act /\ r.conf = p.conf
        /\ r \in Pending
<1> DEFINE p == w.thread.action
           r == Given(w)
           held == IF w.c.pending = NoAction THEN NoAction ELSE r
           c1 == [w.c EXCEPT !.pending = held]
           v == AddAction(w, s, at)
<1>1. /\ r.id = w.next /\ r.kind = p.kind /\ r.act = p.act /\ r.conf = p.conf
      /\ r \in Pending
  BY Parts DEF Pending, Given
<1> HIDE DEF r
<1>2. held \in Pending
  BY <1>1, NoActionIsPending
<1> HIDE DEF held
<1>3. /\ c1 \in Ctl /\ c1.pending = held /\ c1.unnamed = w.c.unnamed
      /\ c1.abandoned = w.c.abandoned /\ c1.asked = w.c.asked
      /\ c1.approved = w.c.approved /\ c1.iter = w.c.iter /\ c1.max = w.c.max
  BY <1>2, Parts DEF Ctl
<1>4. w.next + 1 \in Nat \ {0} /\ Thread(at, NoAction) \in Threads
  BY Parts, Places, NoActionIsPending
<1>5. ASSUME NEW Q \in Queues, v = [w EXCEPT !.inbox = Q, !.c = c1, !.next = w.next + 1,
                                             !.thread = Thread(at, NoAction)]
      PROVE /\ v \in Work /\ v.c = c1 /\ v.inbox = Q /\ v.next = w.next + 1
            /\ v.thread = Thread(at, NoAction)
  <2> HIDE DEF v, c1
  <2>1. QED
    BY <1>3, <1>4, <1>5 DEF Work
<1>6. CASE s = "runtime"
  <2> DEFINE Q == [w.inbox EXCEPT !.runtime = Append(@, r)]
  <2>1. r \in Runnable
    BY <1>1, <1>6, Parts DEF Pending, Runnable
  <2>2. Append(w.inbox.runtime, r) \in Seq(Runnable)
    BY <2>1, Parts
  <2>3. /\ Q \in Queues /\ Q.runtime = Append(w.inbox.runtime, r)
        /\ Q.controller = w.inbox.controller /\ Q.memory = w.inbox.memory
    BY <2>2, Parts DEF Queues
  <2>4. v = [w EXCEPT !.inbox = Q, !.c = c1, !.next = w.next + 1,
                      !.thread = Thread(at, NoAction)]
    BY <1>6 DEF AddAction, AddTo, Work, held, r, Given
  <2> HIDE DEF Q, c1, v
  <2>5. QED
    BY <1>1, <1>3, <1>5, <1>6, <2>3, <2>4 DEF held, v, r
<1>7. CASE s = "memory"
  <2> DEFINE Q == [w.inbox EXCEPT !.memory = Append(@, r)]
  <2>1. r \in Recall
    BY <1>1, <1>7, Parts DEF Pending, Recall
  <2>2. Append(w.inbox.memory, r) \in Seq(Recall)
    BY <2>1, Parts
  <2>3. /\ Q \in Queues /\ Q.memory = Append(w.inbox.memory, r)
        /\ Q.controller = w.inbox.controller /\ Q.runtime = w.inbox.runtime
    BY <2>2, Parts DEF Queues
  <2>4. v = [w EXCEPT !.inbox = Q, !.c = c1, !.next = w.next + 1,
                      !.thread = Thread(at, NoAction)]
    BY <1>7 DEF AddAction, AddTo, Work, held, r, Given
  <2> HIDE DEF Q, c1, v
  <2>5. QED
    BY <1>1, <1>3, <1>5, <1>7, <2>3, <2>4 DEF held, v, r
<1>8. QED
  BY <1>6, <1>7

----------------------------------------------------------------------------
(* What the controller does, by what becomes of the pending action         *)

\* No queue changes; the pending action stays, or goes once it is answered or
\* given up.
LEMMA Moves ==
  ASSUME NEW w, NEW v \in Work, NEW b, NEW ex, NEW n \in Nat, NEW k, NEW l,
         Good(w, b, ex, n, k),
         v.inbox = w.inbox, v.next = w.next,
         \/ v.c.pending = w.c.pending
         \/ v.c.pending = NoAction /\ GivenUp(v, b, w.c.pending.id),
         w.c.abandoned \subseteq v.c.abandoned, w.c.unnamed \subseteq v.c.unnamed,
         v.c.asked = w.c.asked, w.c.approved \subseteq v.c.approved, Limited(v, l),
         Adding(v.c, v.thread), Bounded(v.thread, n)
  PROVE Good(v, b, ex, n, l)
<1>1. Numbered(v, b)
  BY DEF Good, Numbered
<1>2. Outstanding(v, b)
  BY DEF Good, Outstanding, GivenUp, Accounted
<1>3. NoAction.act = 0
  BY DEF NoAction, Act
<1>4. Confirms(v, b, ex, n)
  BY <1>3 DEF Good, Confirms, Approves
<1>5. QED
  BY <1>1, <1>2, <1>4 DEF Good

\* The controller tells itself something.
LEMMA TellsGood ==
  ASSUME NEW w, NEW b, NEW ex, NEW n \in Nat, NEW k, Good(w, b, ex, n, k), NEW e \in Event,
         e.kind \in {"observation", "null"} => e.cause < w.next /\ GivenUp(w, b, e.cause)
  PROVE Good(AddTo(w, "controller", e), b, ex, n, k)
<1> DEFINE v == AddTo(w, "controller", e)
<1>1. w \in Work
  BY DEF Good
<1>2. /\ v \in Work /\ v.c = w.c /\ v.next = w.next /\ v.thread = w.thread
      /\ v.inbox.controller = Append(w.inbox.controller, e)
      /\ v.inbox.runtime = w.inbox.runtime /\ v.inbox.memory = w.inbox.memory
  BY <1>1, Tells
<1>3. In(v.inbox.controller) = In(w.inbox.controller) \cup {e}
  <2>1. w.inbox.controller \in Seq(Event)
    BY <1>1, Parts
  <2>2. In(Append(w.inbox.controller, e)) = In(w.inbox.controller) \cup {e}
    BY <2>1, QueueMembers
  <2>3. QED
    BY <1>2, <2>2
<1> HIDE DEF v
<1>4. Numbered(v, b)
  BY <1>2 DEF Good, Numbered
<1>5. Outstanding(v, b)
  BY <1>2, <1>3 DEF Good, Outstanding, GivenUp, Accounted
<1>6. /\ Confirms(v, b, ex, n) /\ Limited(v, k)
      /\ Adding(v.c, v.thread) /\ Bounded(v.thread, n)
  BY <1>2 DEF Good, Confirms, Approves, Limited
<1>7. QED
  BY <1>2, <1>4, <1>5, <1>6 DEF Good, v

\* An action that no one else holds is put on a queue: it is pending, or the
\* runtime may know it as one given up.
LEMMA AddsGood ==
  ASSUME NEW w, NEW b, NEW ex, NEW n \in Nat, NEW k, Good(w, b, ex, n, k),
         NEW v \in Work, NEW r, NEW s \in {"runtime", "memory"},
         v.next = w.next + 1, v.c.pending \in {r, NoAction}, r \in Pending, r.id = w.next,
         r.act \in Nat, r.act <= n,
         s = "runtime" => r.kind = "run", s = "memory" => r.kind = "recall",
         v.inbox[s] = Append(w.inbox[s], r),
         \A q \in {"controller", "runtime", "memory"} \ {s} : v.inbox[q] = w.inbox[q],
         w.c.abandoned \subseteq v.c.abandoned, w.c.unnamed \subseteq v.c.unnamed,
         w.c.pending.id = NoId,
         s = "runtime" /\ v.c.pending = NoAction => r.act \in v.c.unnamed,
         v.c.approved = w.c.approved, v.c.asked = w.c.asked,
         s = "runtime" => Approves(v, r), Limited(v, k), Ran(b, ex),
         Adding(v.c, v.thread), Bounded(v.thread, n)
  PROVE Good(v, b, ex, n, k)
<1>1. /\ w \in Work /\ Numbered(w, b) /\ Outstanding(w, b) /\ Confirms(w, b, ex, n)
      /\ Limited(w, k)
  BY DEF Good
<1>2. /\ w.inbox.controller \in Seq(Event) /\ w.inbox.runtime \in Seq(Runnable)
      /\ w.inbox.memory \in Seq(Recall) /\ w.next \in Nat \ {0}
      /\ w.c.abandoned \subseteq Nat
  BY <1>1, Parts
<1>0. /\ b.id \in Nat \cup {NoId} /\ b.act \in Nat /\ ex \subseteq Nat
      /\ b = NoAction \/ b.id \in Nat \ {0}
  BY DEF Ran, Busy
<1>3. /\ r # NoAction /\ NoAction.kind = "none" /\ NoAction.id = -1
  BY DEF NoAction, Act, NoId
<1>4. /\ In(w.inbox.runtime) \subseteq Runnable /\ In(w.inbox.memory) \subseteq Recall
      /\ In(w.inbox.controller) \subseteq Event
  BY <1>2, QueueMembers
<1>5. /\ \A e \in In(w.inbox.runtime) : e.id \in Nat \ {0} /\ e.act \in Nat
      /\ \A e \in In(w.inbox.memory) : e.id \in Nat \ {0}
      /\ \A e \in In(w.inbox.controller) : e.kind \in {"observation", "null"} => e.cause \in Nat \cup {NoId}
  BY <1>4 DEF Runnable, Recall, Event
<1>6. \/ /\ s = "runtime" /\ v.inbox.controller = w.inbox.controller
         /\ v.inbox.memory = w.inbox.memory
         /\ v.inbox.runtime = Append(w.inbox.runtime, r) /\ r \in Runnable
         /\ In(v.inbox.runtime) = In(w.inbox.runtime) \cup {r}
         /\ DOMAIN v.inbox.runtime = DOMAIN w.inbox.runtime \cup {Len(w.inbox.runtime) + 1}
         /\ v.inbox.runtime[Len(w.inbox.runtime) + 1] = r
         /\ \A i \in DOMAIN w.inbox.runtime : v.inbox.runtime[i] = w.inbox.runtime[i]
      \/ /\ s = "memory" /\ v.inbox.controller = w.inbox.controller
         /\ v.inbox.runtime = w.inbox.runtime
         /\ In(v.inbox.memory) = In(w.inbox.memory) \cup {r}
  <2>1. CASE s = "runtime"
    <3>1. r \in Runnable
      BY <1>2, <2>1 DEF Pending, Runnable
    <3>2. LET q == w.inbox.runtime IN
          /\ In(Append(q, r)) = In(q) \cup {r}
          /\ DOMAIN Append(q, r) = DOMAIN q \cup {Len(q) + 1}
          /\ Append(q, r)[Len(q) + 1] = r
          /\ \A i \in DOMAIN q : Append(q, r)[i] = q[i]
      BY <1>2, <3>1, QueueMembers
    <3>3. QED
      BY <2>1, <3>1, <3>2
  <2>2. CASE s = "memory"
    <3>1. r \in Recall
      BY <1>2, <2>2 DEF Pending, Recall
    <3>2. In(Append(w.inbox.memory, r)) = In(w.inbox.memory) \cup {r}
      BY <1>2, <3>1, QueueMembers
    <3>3. QED
      BY <2>2, <3>2
  <2>3. QED
    BY <2>1, <2>2
<1>7. Numbered(v, b)
  <2>1. \A i, j \in DOMAIN v.inbox.runtime : i # j => v.inbox.runtime[i].id # v.inbox.runtime[j].id
    <3>1. \A i \in DOMAIN w.inbox.runtime :
            w.inbox.runtime[i].id \in Nat /\ w.inbox.runtime[i].id < w.next
      <4>1. \A i \in DOMAIN w.inbox.runtime : w.inbox.runtime[i] \in In(w.inbox.runtime)
        BY DEF In
      <4>2. QED
        BY <1>1, <1>5, <4>1 DEF Numbered
    <3>2. \A i \in DOMAIN w.inbox.runtime : w.inbox.runtime[i].id # w.next
      BY <1>2, <3>1
    <3>3. \A i, j \in DOMAIN w.inbox.runtime :
            i # j => w.inbox.runtime[i].id # w.inbox.runtime[j].id
      BY <1>1 DEF Numbered
    <3>4. CASE s = "memory"
      BY <1>6, <3>3, <3>4
    <3>5. CASE s = "runtime"
      <4> DEFINE L == Len(w.inbox.runtime) + 1
      <4>1. /\ DOMAIN v.inbox.runtime = DOMAIN w.inbox.runtime \cup {L}
            /\ v.inbox.runtime[L].id = w.next
            /\ \A i \in DOMAIN w.inbox.runtime : v.inbox.runtime[i] = w.inbox.runtime[i]
        BY <1>6, <3>5
      <4> HIDE DEF L
      <4>2. QED
        BY <3>2, <3>3, <4>1
    <3>6. QED
      BY <3>4, <3>5
  <2>2. \A e \in In(v.inbox.runtime) : e.id < v.next /\ (b # NoAction => e.id # b.id)
    BY <1>0, <1>1, <1>2, <1>5, <1>6 DEF Numbered
  <2>3. b # NoAction => b.id < v.next
    BY <1>0, <1>1, <1>2 DEF Numbered
  <2>4. \A e \in In(v.inbox.memory) :
          /\ e.id < v.next /\ (b # NoAction => e.id # b.id)
          /\ \A f \in In(v.inbox.runtime) : e.id # f.id
    <3>1. /\ \A e \in In(w.inbox.memory) :
               /\ e.id \in Nat /\ e.id < w.next /\ (b # NoAction => e.id # b.id)
               /\ \A f \in In(w.inbox.runtime) : e.id # f.id
          /\ \A f \in In(w.inbox.runtime) : f.id \in Nat /\ f.id < w.next
          /\ b # NoAction => b.id \in Nat /\ b.id < w.next
      BY <1>0, <1>1, <1>5 DEF Numbered
    <3>2. CASE s = "runtime"
      BY <1>2, <1>6, <3>1, <3>2
    <3>3. CASE s = "memory"
      <4>1. /\ v.inbox.runtime = w.inbox.runtime
            /\ In(v.inbox.memory) = In(w.inbox.memory) \cup {r}
        BY <1>6, <3>3
      <4>2. \A f \in In(w.inbox.runtime) : r.id # f.id
        BY <1>2, <3>1
      <4>3. r.id < v.next /\ (b # NoAction => r.id # b.id)
        BY <1>2, <3>1
      <4>4. \A e \in In(w.inbox.memory) : e.id < v.next
        BY <1>2, <3>1
      <4>5. QED
        BY <3>1, <4>1, <4>2, <4>3, <4>4
    <3>4. QED
      BY <3>2, <3>3
  <2>5. v.c.pending # NoAction =>
          v.c.pending.kind # "none" /\ v.c.pending.id \in {NoId} \cup 1 .. v.next - 1
    <3>1. w.next \in 1 .. v.next - 1 /\ r.kind # "none"
      BY <1>2
    <3>2. QED
      BY <3>1
  <2>6. QED
    BY <2>1, <2>2, <2>3, <2>4, <2>5 DEF Numbered
<1>8. Outstanding(v, b)
  <2>1. ASSUME NEW e \in In(v.inbox.runtime) \cup {b}, e.kind = "run" PROVE Accounted(v, e)
    <3>1. CASE e = r
      <4>1. s = "runtime" \/ e \in In(w.inbox.runtime) \cup {b}
        BY <1>6, <3>1
      <4>2. CASE s = "runtime"
        BY <3>1, <4>2 DEF Accounted
      <4>3. CASE e \in In(w.inbox.runtime) \cup {b}
        <5>1. e.id \in Nat \ {0}
          BY <1>0, <1>3, <1>5, <2>1, <4>3
        <5>2. e.id \in w.c.abandoned \/ e.act \in w.c.unnamed
          BY <1>1, <2>1, <4>3, <5>1 DEF Outstanding, Accounted, NoId
        <5>3. QED
          BY <5>2 DEF Accounted
      <4>4. QED
        BY <4>1, <4>2, <4>3
    <3>2. CASE e \in In(w.inbox.runtime) \cup {b}
      <4>1. e.id \in Nat \ {0}
        BY <1>0, <1>3, <1>5, <2>1, <3>2
      <4>2. e.id \in w.c.abandoned \/ e.act \in w.c.unnamed
        BY <1>1, <2>1, <3>2, <4>1 DEF Outstanding, Accounted, NoId
      <4>3. QED
        BY <4>2 DEF Accounted
    <3>3. QED
      BY <1>6, <2>1, <3>1, <3>2
  <2>2. ASSUME NEW o \in In(v.inbox.controller), o.kind \in {"observation", "null"}
        PROVE o.cause < v.next /\ GivenUp(v, b, o.cause)
    <3>1. o \in In(w.inbox.controller) /\ o.cause \in Nat \cup {NoId}
      BY <1>5, <1>6, <2>2
    <3>2. o.cause < w.next /\ GivenUp(w, b, o.cause)
      BY <1>1, <2>2, <3>1 DEF Outstanding
    <3>3. o.cause < v.next /\ o.cause # r.id
      BY <1>2, <3>1, <3>2 DEF NoId
    <3>4. QED
      BY <1>6, <3>2, <3>3 DEF GivenUp
  <2>3. QED
    BY <2>1, <2>2 DEF Outstanding
<1>9. Confirms(v, b, ex, n)
  <2>1. \A e \in In(w.inbox.runtime) \cup {b} : e.kind = "run" => Approves(v, e) /\ e.act <= n
    BY <1>1 DEF Confirms, Approves
  <2>2. \A e \in In(v.inbox.runtime) \cup {b} : e.kind = "run" => Approves(v, e) /\ e.act <= n
    BY <1>6, <2>1
  <2>3. v.c.pending.act <= n
    BY NoActionIsPending
  <2>4. QED
    BY <1>1, <2>2, <2>3 DEF Confirms
<1>10. QED
  BY <1>7, <1>8, <1>9 DEF Good

----------------------------------------------------------------------------
(* The controller's operators                                              *)

\* The pending action is noted as given up, by its id or its call.
LEMMA Marks ==
  ASSUME NEW w \in Work
  PROVE LET v == MarkGivenUp(w) IN
        /\ v \in Work /\ v.inbox = w.inbox /\ v.next = w.next /\ v.thread = w.thread
        /\ v.c.pending = w.c.pending
        /\ w.c.abandoned \subseteq v.c.abandoned /\ w.c.unnamed \subseteq v.c.unnamed
        /\ w.c.pending # NoAction /\ w.c.pending.id # NoId => w.c.pending.id \in v.c.abandoned
        /\ w.c.pending # NoAction /\ w.c.pending.id = NoId => w.c.pending.act \in v.c.unnamed
        /\ v.c.asked = w.c.asked /\ v.c.approved = w.c.approved
        /\ v.c.iter = w.c.iter /\ v.c.max = w.c.max /\ v.c.state = w.c.state
<1> DEFINE p == w.c.pending
<1>1. CASE p = NoAction
  BY <1>1 DEF MarkGivenUp
<1>2. CASE p # NoAction /\ p.id = NoId
  <2> DEFINE c1 == [w.c EXCEPT !.unnamed = @ \cup {p.act}]
  <2>1. w.c.unnamed \cup {p.act} \in SUBSET Nat /\ w.c \in Ctl
    BY Parts
  <2>2. /\ c1 \in Ctl /\ c1.unnamed = w.c.unnamed \cup {p.act} /\ c1.pending = p
        /\ c1.abandoned = w.c.abandoned /\ c1.asked = w.c.asked
        /\ c1.approved = w.c.approved
        /\ c1.iter = w.c.iter /\ c1.max = w.c.max /\ c1.state = w.c.state
    BY <2>1 DEF Ctl
  <2>3. MarkGivenUp(w) = [w EXCEPT !.c = c1]
    BY <1>2 DEF MarkGivenUp, Work
  <2> HIDE DEF c1
  <2>4. LET v == [w EXCEPT !.c = c1] IN
        v \in Work /\ v.c = c1 /\ v.inbox = w.inbox /\ v.next = w.next /\ v.thread = w.thread
    BY <2>2 DEF Work
  <2>5. QED
    BY <1>2, <2>2, <2>3, <2>4
<1>3. CASE p # NoAction /\ p.id # NoId
  <2> DEFINE c1 == [w.c EXCEPT !.abandoned = @ \cup {p.id}]
  <2>1. w.c.abandoned \cup {p.id} \in SUBSET Nat /\ w.c \in Ctl
    BY <1>3, Parts
  <2>2. /\ c1 \in Ctl /\ c1.abandoned = w.c.abandoned \cup {p.id} /\ c1.pending = p
        /\ c1.unnamed = w.c.unnamed /\ c1.asked = w.c.asked
        /\ c1.approved = w.c.approved
        /\ c1.iter = w.c.iter /\ c1.max = w.c.max /\ c1.state = w.c.state
    BY <2>1 DEF Ctl
  <2>3. MarkGivenUp(w) = [w EXCEPT !.c = c1]
    BY <1>3 DEF MarkGivenUp, Work
  <2> HIDE DEF c1
  <2>4. LET v == [w EXCEPT !.c = c1] IN
        v \in Work /\ v.c = c1 /\ v.inbox = w.inbox /\ v.next = w.next /\ v.thread = w.thread
    BY <2>2 DEF Work
  <2>5. QED
    BY <1>3, <2>2, <2>3, <2>4
<1>4. QED
  BY <1>1, <1>2, <1>3

\* What is held under the id of the pending action may be given up by name.
LEMMA NoIdIsFree ==
  ASSUME NEW w \in Work, NEW b, NEW ex, Ran(b, ex)
  PROVE GivenUp(w, b, NoId)
<1>1. \A e \in In(w.inbox.runtime) : e.id # NoId
  <2>1. w.inbox.runtime \in Seq(Runnable)
    BY Parts
  <2>2. In(w.inbox.runtime) \subseteq Runnable
    BY <2>1, QueueMembers
  <2>3. QED
    BY <2>2 DEF Runnable, NoId
<1>2. b.kind = "run" => b.id # NoId
  BY NoActionIsPending DEF Ran, NoId
<1>3. QED
  BY <1>1, <1>2 DEF GivenUp

\* Noting it keeps the copy good, and then an answer to it may be sent.
LEMMA MarkGood ==
  ASSUME NEW w, NEW b, NEW ex, NEW n \in Nat, NEW k, Good(w, b, ex, n, k), Ran(b, ex)
  PROVE LET v == MarkGivenUp(w) IN
        /\ Good(v, b, ex, n, k) /\ GivenUp(v, b, w.c.pending.id)
        /\ v.c.pending = w.c.pending /\ v.thread = w.thread
        /\ w.c.pending # NoAction /\ w.c.pending.id = NoId => w.c.pending.act \in v.c.unnamed
<1> DEFINE v == MarkGivenUp(w)
<1>1. w \in Work /\ Adding(w.c, w.thread) /\ Bounded(w.thread, n) /\ Limited(w, k)
  BY DEF Good
<1>2. /\ v \in Work /\ v.inbox = w.inbox /\ v.next = w.next /\ v.thread = w.thread
      /\ v.c.pending = w.c.pending
      /\ w.c.abandoned \subseteq v.c.abandoned /\ w.c.unnamed \subseteq v.c.unnamed
      /\ w.c.pending # NoAction /\ w.c.pending.id # NoId => w.c.pending.id \in v.c.abandoned
      /\ w.c.pending # NoAction /\ w.c.pending.id = NoId => w.c.pending.act \in v.c.unnamed
      /\ v.c.asked = w.c.asked /\ v.c.approved = w.c.approved
      /\ v.c.iter = w.c.iter /\ v.c.max = w.c.max
  BY <1>1, Marks
<1> HIDE DEF v
<1>3. Adding(v.c, v.thread)
  BY <1>1, <1>2 DEF Adding
<1>4. Limited(v, k) /\ Bounded(v.thread, n)
  BY <1>1, <1>2 DEF Limited
<1>5. Good(v, b, ex, n, k)
  BY <1>2, <1>3, <1>4, Moves
<1>6. GivenUp(v, b, w.c.pending.id)
  <2>1. CASE w.c.pending.id = NoId
    BY <1>2, <2>1, NoIdIsFree
  <2>2. CASE w.c.pending.id # NoId
    <3>1. w.c.pending # NoAction
      BY <2>2, NoActionIsPending DEF NoId
    <3>2. QED
      BY <1>2, <2>2, <3>1 DEF GivenUp
  <2>3. QED
    BY <2>1, <2>2
<1>7. QED
  BY <1>2, <1>5, <1>6 DEF v

\* The pending action that was given up, or answered, is pending no more.
LEMMA Clears ==
  ASSUME NEW w, NEW b, NEW ex, NEW n \in Nat, NEW k, Good(w, b, ex, n, k), Ran(b, ex),
         GivenUp(w, b, w.c.pending.id),
         w.thread.at \in {"ask", "add"} /\ w.c.pending # NoAction /\ w.c.pending.id = NoId
           => w.c.pending.act \in w.c.unnamed
  PROVE LET v == [w EXCEPT !.c.pending = NoAction] IN
        /\ Good(v, b, ex, n, k) /\ v.c.pending = NoAction /\ v.thread = w.thread
        /\ v.c.state = w.c.state /\ v.inbox = w.inbox /\ v.next = w.next
<1> DEFINE v == [w EXCEPT !.c.pending = NoAction]
           c1 == [w.c EXCEPT !.pending = NoAction]
<1>1. w \in Work /\ w.c \in Ctl /\ Adding(w.c, w.thread) /\ Bounded(w.thread, n) /\ Limited(w, k)
  BY Parts DEF Good
<1>2. /\ c1 \in Ctl /\ c1.pending = NoAction /\ c1.abandoned = w.c.abandoned
      /\ c1.unnamed = w.c.unnamed /\ c1.asked = w.c.asked /\ c1.approved = w.c.approved
      /\ c1.iter = w.c.iter /\ c1.max = w.c.max /\ c1.state = w.c.state
  BY <1>1, NoActionIsPending DEF Ctl
<1>3. v = [w EXCEPT !.c = c1]
  BY <1>1 DEF Work
<1> HIDE DEF c1, v
<1>4. /\ v \in Work /\ v.c = c1 /\ v.inbox = w.inbox /\ v.next = w.next /\ v.thread = w.thread
  BY <1>1, <1>2, <1>3 DEF Work
<1>5. Adding(v.c, v.thread)
  BY <1>1, <1>2, <1>4 DEF Adding
<1>6. Limited(v, k) /\ Bounded(v.thread, n)
  BY <1>1, <1>2, <1>4 DEF Limited
<1>7. GivenUp(v, b, w.c.pending.id)
  BY <1>2, <1>4 DEF GivenUp
<1>8. Good(v, b, ex, n, k)
  BY <1>2, <1>4, <1>5, <1>6, <1>7, Moves
<1>9. QED
  BY <1>2, <1>4, <1>8 DEF v

\* Giving up the pending action keeps the copy good.
LEMMA GiveUpGood ==
  ASSUME NEW w, NEW b, NEW ex, NEW n \in Nat, NEW k, Good(w, b, ex, n, k), Ran(b, ex)
  PROVE LET v == GiveUp(w) IN
        Good(v, b, ex, n, k) /\ v.c.pending = NoAction /\ v.thread = w.thread
<1> DEFINE u == MarkGivenUp(w)
<1>1. /\ Good(u, b, ex, n, k) /\ GivenUp(u, b, w.c.pending.id)
      /\ u.c.pending = w.c.pending /\ u.thread = w.thread
      /\ w.c.pending # NoAction /\ w.c.pending.id = NoId => w.c.pending.act \in u.c.unnamed
  BY MarkGood
<1>2. GiveUp(w) = [u EXCEPT !.c.pending = NoAction]
  BY DEF GiveUp
<1> HIDE DEF u
<1>3. QED
  BY <1>1, <1>2, Clears

\* A working copy whose bookkeeping alone changes.
LEMMA Notes ==
  ASSUME NEW w, NEW b, NEW ex, NEW n \in Nat, NEW k, Good(w, b, ex, n, k), NEW c \in Ctl,
         c.pending = w.c.pending, c.abandoned = w.c.abandoned, c.unnamed = w.c.unnamed,
         c.asked = w.c.asked, w.c.approved \subseteq c.approved,
         c.iter = w.c.iter, Headless => c.max = w.c.max
  PROVE LET v == [w EXCEPT !.c = c] IN
        /\ Good(v, b, ex, n, k) /\ v.c = c /\ v.inbox = w.inbox /\ v.next = w.next
        /\ v.thread = w.thread
<1> DEFINE v == [w EXCEPT !.c = c]
<1>1. /\ v \in Work /\ v.c = c /\ v.inbox = w.inbox /\ v.next = w.next
      /\ v.thread = w.thread
  BY DEF Good, Work
<1> HIDE DEF v
<1>2. Limited(v, k)
  BY <1>1 DEF Good, Limited
<1>3. Adding(v.c, v.thread) /\ Bounded(v.thread, n)
  BY <1>1 DEF Good, Adding
<1>4. QED
  BY <1>1, <1>2, <1>3, Moves DEF v

\* A reset answers for the pending action, which is given up.
LEMMA BeginResetGood ==
  ASSUME NEW w, NEW b, NEW ex, NEW n \in Nat, NEW k, Good(w, b, ex, n, k), Ran(b, ex)
  PROVE LET v == BeginReset(w) IN Good(v, b, ex, n, k) /\ v.thread = w.thread
<1> DEFINE p == w.c.pending
           o == Obs("observation", p.act, p.id)
           u == MarkGivenUp(w)
<1>1. w \in Work /\ p.id \in Nat \cup {NoId} /\ p.act \in Nat
  BY Parts DEF Good
<1>2. /\ Good(u, b, ex, n, k) /\ GivenUp(u, b, p.id) /\ u.thread = w.thread
      /\ u.next = w.next /\ u \in Work
  BY <1>1, MarkGood, Marks
<1>3. CASE p = NoAction \/ p.act \in w.c.answered
  BY <1>2, <1>3 DEF BeginReset
<1>4. CASE ~(p = NoAction \/ p.act \in w.c.answered)
  <2>1. BeginReset(w) = AddTo(u, "controller", o)
    BY <1>4 DEF BeginReset
  <2>2. o \in Event /\ o.cause = p.id
    BY <1>1 DEF Obs, Event
  <2>3. p.id < u.next
    BY <1>1, <1>2, <1>4, Parts DEF Good, Numbered, NoId
  <2> HIDE DEF o, u
  <2>4. Good(AddTo(u, "controller", o), b, ex, n, k)
    BY <1>2, <2>2, <2>3, TellsGood
  <2>5. AddTo(u, "controller", o).thread = u.thread
    BY <1>2, <2>2, Tells
  <2>6. QED
    BY <1>2, <2>1, <2>4, <2>5
<1>5. QED
  BY <1>3, <1>4

\* A reset keeps the copy good.
LEMMA ResetGood ==
  ASSUME NEW w, NEW b, NEW ex, NEW n \in Nat, NEW k, Good(w, b, ex, n, k), Ran(b, ex)
  PROVE LET v == Reset(w) IN Good(v, b, ex, n, k) /\ v.thread = w.thread
<1> DEFINE u == BeginReset(w)
<1>1. Good(u, b, ex, n, k) /\ u.thread = w.thread
  BY BeginResetGood
<1> HIDE DEF u
<1>2. Good(GiveUp(u), b, ex, n, k) /\ GiveUp(u).thread = u.thread
  BY <1>1, GiveUpGood
<1>3. QED
  BY <1>1, <1>2 DEF Reset, u

\* The limit grows only where a user may be asked.
LEMMA IncreaseGood ==
  ASSUME NEW w, NEW b, NEW ex, NEW n \in Nat, NEW k, Good(w, b, ex, n, k)
  PROVE LET v == IncreaseLimit(w) IN Good(v, b, ex, n, k) /\ v.thread = w.thread
<1>1. CASE ~(~Headless /\ w.c.hit)
  BY <1>1 DEF IncreaseLimit
<1>2. CASE ~Headless /\ w.c.hit
  <2> DEFINE c1 == [w.c EXCEPT !.max = @ + IterationDelta]
             c2 == [c1 EXCEPT !.hit = FALSE]
  <2>1. w \in Work /\ w.c \in Ctl /\ w.c.max + IterationDelta \in Nat
    BY Parts, IterationsOK DEF Good
  <2>2. /\ c1 \in Ctl /\ c1.pending = w.c.pending /\ c1.abandoned = w.c.abandoned
        /\ c1.unnamed = w.c.unnamed
        /\ c1.asked = w.c.asked /\ c1.approved = w.c.approved /\ c1.iter = w.c.iter
    BY <2>1 DEF Ctl
  <2> HIDE DEF c1
  <2>3. /\ c2 \in Ctl /\ c2.pending = c1.pending /\ c2.abandoned = c1.abandoned
        /\ c2.unnamed = c1.unnamed
        /\ c2.asked = c1.asked /\ c2.approved = c1.approved /\ c2.iter = c1.iter
    BY <2>2 DEF Ctl
  <2>4. IncreaseLimit(w) = [w EXCEPT !.c = c2]
    BY <1>2, <2>1 DEF IncreaseLimit, c1, Work
  <2> HIDE DEF c2
  <2>5. QED
    BY <1>2, <2>2, <2>3, <2>4, Notes
<1>3. QED
  BY <1>1, <1>2

\* An action that nobody has given up becomes the pending one, without an id.
LEMMA SetPendingGood ==
  ASSUME NEW w, NEW b, NEW ex, NEW n \in Nat, NEW k, Good(w, b, ex, n, k), Ran(b, ex),
         NEW at \in {"recall", "reissue", "ask", "add"}, NEW p \in Pending,
         GivenUp(w, b, w.c.pending.id), p.kind # "none", p.id = NoId, p.act <= n,
         at = "recall" => p.kind = "recall",
         at \in {"ask", "add"} => p.kind = "run",
         at # "recall" => Approves(w, p)
  PROVE LET v == SetPending(w, at, p) IN
        /\ Good(v, b, ex, n, k) /\ v.thread = Thread(at, p)
        /\ v.c = [w.c EXCEPT !.pending = p] /\ v.inbox = w.inbox /\ v.next = w.next
<1> DEFINE v == SetPending(w, at, p)
           c1 == [w.c EXCEPT !.pending = p]
           t == Thread(at, p)
<1>1. /\ w \in Work /\ w.c \in Ctl /\ Numbered(w, b) /\ Outstanding(w, b)
      /\ Confirms(w, b, ex, n) /\ Limited(w, k)
  BY Parts DEF Good
<1>2. /\ c1 \in Ctl /\ c1.pending = p /\ c1.abandoned = w.c.abandoned
      /\ c1.unnamed = w.c.unnamed /\ c1.asked = w.c.asked /\ c1.approved = w.c.approved
      /\ c1.iter = w.c.iter /\ c1.max = w.c.max
  BY <1>1 DEF Ctl
<1>3. t \in Threads /\ t.at = at /\ t.action = p
  BY Places
<1>4. v = [w EXCEPT !.c = c1, !.thread = t]
  BY <1>1 DEF SetPending, Work
<1> HIDE DEF c1, t, v
<1>5. /\ v \in Work /\ v.c = c1 /\ v.thread = t /\ v.inbox = w.inbox /\ v.next = w.next
  BY <1>1, <1>2, <1>3, <1>4 DEF Work
<1>6. p # NoAction
  BY NoActionIsPending
<1>7. Numbered(v, b)
  BY <1>1, <1>2, <1>5 DEF Numbered
<1>8. Outstanding(v, b)
  <2>1. \A e \in In(w.inbox.runtime) \cup {b} :
          e.kind = "run" => e.id \in w.c.abandoned \/ e.act \in w.c.unnamed
    BY <1>1 DEF Outstanding, Accounted, GivenUp
  <2>2. QED
    BY <1>1, <1>2, <1>5, <2>1 DEF Outstanding, Accounted, GivenUp
<1>9. Confirms(v, b, ex, n) /\ Limited(v, k) /\ Bounded(v.thread, n)
  BY <1>1, <1>2, <1>3, <1>5 DEF Confirms, Approves, Limited, Bounded
<1>10. Adding(v.c, v.thread)
  BY <1>2, <1>3, <1>5, <1>6 DEF Adding, Approves
<1>11. QED
  BY <1>5, <1>7, <1>8, <1>9, <1>10 DEF Good, v, c1, t

\* A pending action that the user decided about is to be added again.
LEMMA ReissueGood ==
  ASSUME NEW w, NEW b, NEW ex, NEW n \in Nat, NEW k, Good(w, b, ex, n, k), Ran(b, ex),
         w.c.pending # NoAction, NEW conf \in {"confirmed", "rejected"},
         conf = "confirmed" => w.c.pending.act \in w.c.approved
  PROVE Good(Reissue(w, conf), b, ex, n, k) /\ Reissue(w, conf).thread.at = "reissue"
<1> DEFINE q == [w.c.pending EXCEPT !.conf = conf, !.id = NoId]
           u == MarkGivenUp(w)
<1>1. w \in Work /\ w.c.pending \in Pending /\ w.c.pending.act <= n
  BY Parts DEF Good, Confirms
<1>2. w.c.pending.kind # "none"
  BY DEF Good, Numbered
<1>3. /\ Good(u, b, ex, n, k) /\ GivenUp(u, b, w.c.pending.id)
      /\ u.c.pending = w.c.pending /\ u.c.approved = w.c.approved
  BY <1>1, MarkGood, Marks
<1>4. /\ q \in Pending /\ q.kind = w.c.pending.kind /\ q.act = w.c.pending.act
      /\ q.conf = conf /\ q.id = NoId
  BY <1>1 DEF Pending, ConfStates
<1>5. Approves(u, q)
  BY <1>3, <1>4 DEF Approves
<1>6. Reissue(w, conf) = SetPending(u, "reissue", q)
  BY DEF Reissue
<1> HIDE DEF u, q
<1>7. GivenUp(u, b, u.c.pending.id) /\ q.kind # "none" /\ q.act <= n
  BY <1>1, <1>2, <1>3, <1>4
<1>8. Good(SetPending(u, "reissue", q), b, ex, n, k)
  BY <1>3, <1>4, <1>5, <1>7, SetPendingGood
<1>9. SetPending(u, "reissue", q).thread = Thread("reissue", q)
  BY <1>3 DEF SetPending, Good, Work
<1>10. QED
  BY <1>4, <1>6, <1>8, <1>9, Places

\* The state itself is bookkeeping.
LEMMA EnterStateGood ==
  ASSUME NEW w, NEW b, NEW ex, NEW n \in Nat, NEW k, Good(w, b, ex, n, k),
         NEW new \in AgentStates
  PROVE LET v == EnterState(w, new) IN Good(v, b, ex, n, k) /\ v.thread = w.thread
<1> DEFINE c1 == [w.c EXCEPT !.state = new]
           c2 == [c1 EXCEPT !.awaited = @ /\ new = Running]
<1>1. w \in Work /\ w.c \in Ctl
  BY Parts DEF Good
<1>2. /\ c1 \in Ctl /\ c1.pending = w.c.pending /\ c1.abandoned = w.c.abandoned
      /\ c1.unnamed = w.c.unnamed /\ c1.asked = w.c.asked /\ c1.approved = w.c.approved
      /\ c1.iter = w.c.iter /\ c1.max = w.c.max /\ c1.awaited = w.c.awaited
  BY <1>1 DEF Ctl
<1>3. /\ c2 \in Ctl /\ c2.pending = c1.pending /\ c2.abandoned = c1.abandoned
      /\ c2.unnamed = c1.unnamed /\ c2.asked = c1.asked /\ c2.approved = c1.approved
      /\ c2.iter = c1.iter /\ c2.max = c1.max
  <2> HIDE DEF c1
  <2>1. (c1.awaited /\ new = Running) \in BOOLEAN
    OBVIOUS
  <2>2. QED
    BY <1>2, <2>1 DEF Ctl
<1>4. EnterState(w, new) = [w EXCEPT !.c = c2]
  BY <1>1, <1>2 DEF EnterState, Work, Ctl
<1> HIDE DEF c1, c2
<1>5. QED
  BY <1>2, <1>3, <1>4, Notes

\* A change of state, with the reset and the raise it brings about, keeps the copy
\* good; so does the decision about the pending action, made by an idle thread.
LEMMA SetAgentStateGood ==
  ASSUME NEW w, NEW b, NEW ex, NEW n \in Nat, NEW k, Good(w, b, ex, n, k), Ran(b, ex),
         NEW new \in AgentStates
  PROVE LET v == SetAgentState(w, new) IN
        /\ Good(v, b, ex, n, k)
        /\ new \notin {Confirmed, Rejected} => v.thread = w.thread
        /\ v.thread = w.thread \/ v.thread.at = "reissue"
<1> DEFINE w1 == EnterState(w, new)
           w2 == IF new \in {Stopped, Error} THEN Reset(w1) ELSE w1
           w3 == IF w.c.state = Error /\ new = Running THEN IncreaseLimit(w2) ELSE w2
           w4 == IF w3.c.pending = NoAction \/ new \notin {Confirmed, Rejected} THEN w3
                 ELSE IF new = Confirmed
                      THEN Reissue([w3 EXCEPT !.c.approved = @ \cup {w3.c.pending.act}],
                                   "confirmed")
                      ELSE Reissue(w3, "rejected")
<1>1. SetAgentState(w, new) = IF new = w.c.state THEN w ELSE w4
  BY DEF SetAgentState
<1>2. Good(w1, b, ex, n, k) /\ w1.thread = w.thread
  BY EnterStateGood
<1> HIDE DEF w1
<1>3. Good(w2, b, ex, n, k) /\ w2.thread = w.thread
  BY <1>2, ResetGood
<1> HIDE DEF w2
<1>4. Good(w3, b, ex, n, k) /\ w3.thread = w.thread
  BY <1>3, IncreaseGood
<1> HIDE DEF w3
<1>5. /\ Good(w4, b, ex, n, k)
      /\ new \notin {Confirmed, Rejected} => w4.thread = w.thread
      /\ w4.thread = w.thread \/ w4.thread.at = "reissue"
  <2>1. CASE w3.c.pending = NoAction \/ new \notin {Confirmed, Rejected}
    BY <1>4, <2>1
  <2>2. CASE w3.c.pending # NoAction /\ new = Confirmed
    <3> DEFINE c1 == [w3.c EXCEPT !.approved = @ \cup {w3.c.pending.act}]
               u == [w3 EXCEPT !.c.approved = @ \cup {w3.c.pending.act}]
    <3>1. w3 \in Work /\ w3.c \in Ctl /\ w3.c.approved \cup {w3.c.pending.act} \in SUBSET Nat
      BY <1>4, Parts DEF Good
    <3>2. /\ c1 \in Ctl /\ c1.pending = w3.c.pending /\ c1.abandoned = w3.c.abandoned
          /\ c1.unnamed = w3.c.unnamed /\ c1.asked = w3.c.asked
          /\ c1.approved = w3.c.approved \cup {w3.c.pending.act}
          /\ c1.iter = w3.c.iter /\ c1.max = w3.c.max
      BY <3>1 DEF Ctl
    <3>3. u = [w3 EXCEPT !.c = c1]
      BY <3>1 DEF Work
    <3> HIDE DEF c1, u
    <3>4. Good(u, b, ex, n, k) /\ u.c = c1
      BY <1>4, <3>2, <3>3, Notes
    <3>5. /\ Good(Reissue(u, "confirmed"), b, ex, n, k)
          /\ Reissue(u, "confirmed").thread.at = "reissue"
      BY <2>2, <3>2, <3>4, ReissueGood
    <3>6. w4 = Reissue(u, "confirmed")
      BY <2>2 DEF u
    <3>7. QED
      BY <2>2, <3>5, <3>6
  <2>3. CASE w3.c.pending # NoAction /\ new = Rejected
    <3>1. /\ Good(Reissue(w3, "rejected"), b, ex, n, k)
          /\ Reissue(w3, "rejected").thread.at = "reissue"
      BY <1>4, <2>3, ReissueGood
    <3>2. w4 = Reissue(w3, "rejected")
      BY <2>3 DEF Confirmed, Rejected
    <3>3. QED
      BY <2>3, <3>1, <3>2
  <2>4. QED
    BY <2>1, <2>2, <2>3
<1>6. QED
  BY <1>1, <1>5

\* The states the controller itself goes to.
LEMMA States ==
  {Running, AwaitingInput, AwaitingConfirmation, Confirmed, Rejected, Error, Stopped,
   "finished", "rejected", "rate_limited"} \subseteq AgentStates
  BY DEF AgentStates

\* They ask for no decision about the pending action.
LEMMA NoDecisions ==
  /\ Running \notin {Confirmed, Rejected} /\ AwaitingInput \notin {Confirmed, Rejected}
  /\ Error \notin {Confirmed, Rejected} /\ AwaitingConfirmation \notin {Confirmed, Rejected}
  /\ "rate_limited" \notin {Confirmed, Rejected}
  BY DEF Running, AwaitingInput, Error, AwaitingConfirmation, Confirmed, Rejected

\* A user's message becomes a recall, which is pending until memory answers.
LEMMA HandleUserMessageGood ==
  ASSUME NEW w, NEW b, NEW ex, NEW n \in Nat, NEW k, Good(w, b, ex, n, k), Ran(b, ex)
  PROVE Good(HandleUserMessage(w), b, ex, n, k) /\ HandleUserMessage(w).thread.at = "recall"
<1> DEFINE p == Act("recall", 0, "none")
           g == GiveUp(w)
<1>1. p \in Pending /\ p.kind = "recall" /\ p.act = 0 /\ p.id = NoId /\ p.act <= n
  BY DEF Act, Pending, ConfStates
<1>2. Good(g, b, ex, n, k) /\ g.c.pending = NoAction
  BY GiveUpGood
<1>3. HandleUserMessage(w) = SetPending(g, "recall", p)
  BY DEF HandleUserMessage
<1> HIDE DEF p, g
<1>4. GivenUp(g, b, g.c.pending.id)
  BY <1>2, NoIdIsFree, NoActionIsPending DEF Good, NoId
<1>5. Good(SetPending(g, "recall", p), b, ex, n, k)
  BY <1>1, <1>2, <1>4, SetPendingGood
<1>6. SetPending(g, "recall", p).thread = Thread("recall", p)
  BY <1>2 DEF SetPending, Good, Work
<1>7. QED
  BY <1>1, <1>3, <1>5, <1>6, Places

\* Handling an event starts no call.
Free(w, v) == w.thread.at # "llm" => v.thread.at # "llm"

\* A message of the agent may make the controller nudge itself, or wait.
LEMMA HandleAgentMessageGood ==
  ASSUME NEW w, NEW b, NEW ex, NEW n \in Nat, NEW k, Good(w, b, ex, n, k), Ran(b, ex),
         NEW e, e.intent \in BOOLEAN
  PROVE LET v == HandleAgentMessage(w, e) IN Good(v, b, ex, n, k) /\ v.thread = w.thread
<1> DEFINE count == IF e.intent THEN w.c.intents + 1 ELSE 0
<1>1. w \in Work /\ w.c \in Ctl /\ w.c.intents \in Nat
  BY Parts DEF Good, Ctl
<1>2. count \in Nat
  BY <1>1
<1> HIDE DEF count
<1>3. ASSUME NEW u, Good(u, b, ex, n, k), NEW i \in Nat
      PROVE LET v == [u EXCEPT !.c.intents = i] IN Good(v, b, ex, n, k) /\ v.thread = u.thread
  <2> DEFINE c1 == [u.c EXCEPT !.intents = i]
  <2>1. u \in Work /\ u.c \in Ctl
    BY <1>3, Parts DEF Good
  <2>2. /\ c1 \in Ctl /\ c1.pending = u.c.pending /\ c1.abandoned = u.c.abandoned
        /\ c1.unnamed = u.c.unnamed
        /\ c1.asked = u.c.asked /\ c1.approved = u.c.approved
        /\ c1.iter = u.c.iter /\ c1.max = u.c.max
    BY <2>1 DEF Ctl
  <2>3. [u EXCEPT !.c.intents = i] = [u EXCEPT !.c = c1]
    BY <2>1 DEF Work
  <2> HIDE DEF c1
  <2>4. QED
    BY <1>3, <2>2, <2>3, Notes
<1>4. CASE count >= IntentRetries
  <2> DEFINE v == AddTo(w, "controller", [kind |-> "message"])
  <2>1. [kind |-> "message"] \in Event /\ [kind |-> "message"].kind \notin {"observation", "null"}
    BY DEF Event
  <2>2. Good(v, b, ex, n, k) /\ v.thread = w.thread
    BY <1>1, <2>1, TellsGood, Tells
  <2>3. HandleAgentMessage(w, e) = [v EXCEPT !.c.intents = 0]
    BY <1>4 DEF HandleAgentMessage, count
  <2> HIDE DEF v
  <2>4. QED
    BY <1>3, <2>2, <2>3
<1>5. CASE ~(count >= IntentRetries)
  <2> DEFINE w1 == [w EXCEPT !.c.intents = count]
  <2>1. Good(w1, b, ex, n, k) /\ w1.thread = w.thread
    BY <1>2, <1>3
  <2>2. HandleAgentMessage(w, e) = IF e.intent THEN w1 ELSE SetAgentState(w1, AwaitingInput)
    BY <1>5 DEF HandleAgentMessage, count
  <2> HIDE DEF w1
  <2>3. /\ Good(SetAgentState(w1, AwaitingInput), b, ex, n, k)
        /\ SetAgentState(w1, AwaitingInput).thread = w1.thread
    BY <2>1, SetAgentStateGood, States, NoDecisions
  <2>4. QED
    BY <2>1, <2>2, <2>3
<1>6. QED
  BY <1>4, <1>5

\* Whatever action is handled, the copy stays good.
LEMMA HandleActionGood ==
  ASSUME NEW w, NEW b, NEW ex, NEW n \in Nat, NEW k, Good(w, b, ex, n, k), Ran(b, ex),
         NEW e \in Event, e.kind \notin {"observation", "null"}
  PROVE LET v == HandleAction(w, e) IN Good(v, b, ex, n, k) /\ Free(w, v)
<1>1. e.kind \in {"message", "say", "change", "finish", "refuse", "condense"}
  BY DEF Event
<1>2. CASE e.kind = "message"
  <2>1. HandleAction(w, e) = HandleUserMessage(w)
    BY <1>2 DEF HandleAction
  <2>2. QED
    BY <2>1, HandleUserMessageGood DEF Free
<1>3. CASE e.kind = "say"
  <2>1. HandleAction(w, e) = HandleAgentMessage(w, e)
    BY <1>3 DEF HandleAction
  <2>2. e.intent \in BOOLEAN
    BY <1>3 DEF Event
  <2>3. QED
    BY <2>1, <2>2, HandleAgentMessageGood DEF Free
<1>4. CASE e.kind = "change"
  <2>1. HandleAction(w, e) = SetAgentState(w, e.state)
    BY <1>4 DEF HandleAction
  <2>2. e.state \in AgentStates
    BY <1>4 DEF Event
  <2>3. QED
    BY <2>1, <2>2, SetAgentStateGood DEF Free
<1>5. CASE e.kind = "finish"
  <2>1. HandleAction(w, e) = SetAgentState(w, "finished")
    BY <1>5 DEF HandleAction
  <2>2. QED
    BY <2>1, States, SetAgentStateGood DEF Free
<1>6. CASE e.kind = "refuse"
  <2>1. HandleAction(w, e) = SetAgentState(w, "rejected")
    BY <1>6 DEF HandleAction
  <2>2. QED
    BY <2>1, States, SetAgentStateGood DEF Free
<1>7. CASE e.kind = "condense"
  <2>1. HandleAction(w, e) = w
    BY <1>7 DEF HandleAction
  <2>2. QED
    BY <2>1 DEF Free
<1>8. QED
  BY <1>1, <1>2, <1>3, <1>4, <1>5, <1>6, <1>7

\* An observation releases the action it answers, which the runtime no longer
\* holds, and no other.
LEMMA HandleObservationGood ==
  ASSUME NEW w, NEW b, NEW ex, NEW n \in Nat, NEW k, Good(w, b, ex, n, k), Ran(b, ex),
         w.thread = Idle,
         NEW e, GivenUp(w, b, e.cause)
  PROVE LET v == HandleObservation(w, e) IN Good(v, b, ex, n, k) /\ Free(w, v)
<1> DEFINE w1 == [w EXCEPT !.c.pending = NoAction]
<1>1. CASE ~Answers(w, e) \/ w.c.state = AwaitingConfirmation
  BY <1>1 DEF HandleObservation, Free
<1>2. CASE Answers(w, e) /\ w.c.state # AwaitingConfirmation
  <2>1. e.cause = w.c.pending.id
    BY <1>2 DEF Answers
  <2>2. w.thread.at = "idle" /\ GivenUp(w, b, w.c.pending.id)
    BY <2>1, Places, NoActionIsPending DEF Idle
  <2>3. Good(w1, b, ex, n, k) /\ w1.thread = w.thread
    BY <2>2, Clears
  <2>4. HandleObservation(w, e) \in
          {SetAgentState(w1, Running), SetAgentState(w1, AwaitingInput), w1}
    BY <1>2 DEF HandleObservation
  <2> HIDE DEF w1
  <2>5. QED
    BY <2>3, <2>4, SetAgentStateGood, States DEF Free
<1>3. QED
  BY <1>1, <1>2

\* The history notes which calls were answered.
LEMMA AddHistoryGood ==
  ASSUME NEW w, NEW b, NEW ex, NEW n \in Nat, NEW k, Good(w, b, ex, n, k), NEW e \in Event
  PROVE LET v == AddHistory(w, e) IN Good(v, b, ex, n, k) /\ v.inbox = w.inbox
          /\ v.c.abandoned = w.c.abandoned /\ v.thread = w.thread
<1> DEFINE c1 == [w.c EXCEPT !.answered = @ \cup {e.act}]
<1>1. CASE e.kind # "observation"
  BY <1>1 DEF AddHistory
<1>2. CASE e.kind = "observation"
  <2>1. w \in Work /\ w.c \in Ctl /\ e.act \in Nat
    BY <1>2, Parts DEF Good, Event
  <2>2. w.c.answered \cup {e.act} \in SUBSET Nat
    BY <2>1 DEF Ctl
  <2>3. /\ c1 \in Ctl /\ c1.pending = w.c.pending /\ c1.abandoned = w.c.abandoned
        /\ c1.unnamed = w.c.unnamed
        /\ c1.asked = w.c.asked /\ c1.approved = w.c.approved
        /\ c1.iter = w.c.iter /\ c1.max = w.c.max
    BY <2>1, <2>2 DEF Ctl
  <2>4. AddHistory(w, e) = [w EXCEPT !.c = c1]
    BY <1>2, <2>1 DEF AddHistory, Work
  <2> HIDE DEF c1
  <2>5. QED
    BY <2>3, <2>4, Notes
<1>3. QED
  BY <1>1, <1>2

\* Any event the controller finds in its queue is handled well.
LEMMA HandleGood ==
  ASSUME NEW w, NEW b, NEW ex, NEW n \in Nat, NEW k, Good(w, b, ex, n, k), Ran(b, ex),
         w.thread = Idle,
         NEW e \in Event, e.kind \in {"observation", "null"} => GivenUp(w, b, e.cause)
  PROVE LET v == Handle(w, e) IN Good(v, b, ex, n, k) /\ Free(w, v)
<1>1. CASE e.kind \in {"observation", "null"}
  <2> DEFINE v == AddHistory(w, e)
  <2>1. Good(v, b, ex, n, k) /\ v.inbox = w.inbox /\ v.c.abandoned = w.c.abandoned
        /\ v.thread = w.thread
    BY AddHistoryGood
  <2>2. Handle(w, e) = HandleObservation(v, e)
    BY <1>1 DEF Handle
  <2> HIDE DEF v
  <2>3. GivenUp(v, b, e.cause)
    BY <1>1, <2>1 DEF GivenUp
  <2>4. QED
    BY <2>1, <2>2, <2>3, HandleObservationGood DEF Free
<1>2. CASE e.kind \notin {"observation", "null"}
  BY <1>2, HandleActionGood DEF Handle
<1>3. QED
  BY <1>1, <1>2

----------------------------------------------------------------------------
(* Actions                                                                 *)

\* The queues and the controller after a step are those of the working copy.
LEMMA Posted ==
  ASSUME NEW w, w \in Work, Post(w)
  PROVE Now' = w
<1>1. Now' = [c |-> w.c, inbox |-> w.inbox, next |-> w.next, thread |-> w.thread]
  BY DEF Now, Post
<1>2. QED
  BY <1>1 DEF Work

\* Taking the head of a queue: what may be said of it.
LEMMA TakeController ==
  ASSUME NEW b, NEW ex, NEW n \in Nat, NEW k, Good(Now, b, ex, n, k), inbox.controller # <<>>
  PROVE LET w == Take("controller")
            e == Head(inbox.controller) IN
        /\ Good(w, b, ex, n, k) /\ e \in Event /\ w.c = ctl
        /\ w.thread = thread
        /\ e.kind \in {"observation", "null"} => GivenUp(w, b, e.cause)
<1> DEFINE w == Take("controller")
           e == Head(inbox.controller)
<1>1. Now \in Work /\ Now.c = ctl /\ Now.inbox = inbox /\ Now.next = nextId
      /\ Now.thread = thread
  BY DEF Good, Now
<1>2. inbox.controller \in Seq(Event)
  BY <1>1, Parts
<1>3. /\ e \in In(inbox.controller) /\ e \in Event
      /\ In(Tail(inbox.controller)) \subseteq In(inbox.controller)
  BY <1>2, QueueMembers
<1>4. /\ w \in Work /\ w.c = ctl /\ w.next = nextId /\ w.thread = thread
      /\ w.inbox.controller = Tail(inbox.controller)
      /\ w.inbox.runtime = inbox.runtime /\ w.inbox.memory = inbox.memory
  <2>1. Now.inbox["controller"] # <<>>
    BY <1>1
  <2>2. w = [Now EXCEPT !.inbox["controller"] = Tail(@)]
    BY DEF Take
  <2> HIDE DEF w
  <2>3. /\ w \in Work /\ w.c = Now.c /\ w.next = Now.next /\ w.thread = Now.thread
        /\ w.inbox["controller"] = Tail(Now.inbox["controller"])
        /\ \A r \in {"controller", "runtime", "memory"} \ {"controller"} : w.inbox[r] = Now.inbox[r]
    BY <1>1, <2>1, <2>2, Takes
  <2>4. QED
    BY <1>1, <2>3
<1> HIDE DEF w, e
<1>5. Numbered(w, b)
  BY <1>1, <1>4 DEF Good, Numbered
<1>6. Outstanding(w, b)
  BY <1>1, <1>3, <1>4 DEF Good, Outstanding, GivenUp, Accounted
<1>7. /\ Confirms(w, b, ex, n) /\ Limited(w, k)
      /\ Adding(w.c, w.thread) /\ Bounded(w.thread, n)
  BY <1>1, <1>4 DEF Good, Confirms, Approves, Limited
<1>8. e.kind \in {"observation", "null"} => GivenUp(w, b, e.cause)
  BY <1>1, <1>3, <1>4 DEF Good, Outstanding, GivenUp
<1>9. QED
  BY <1>3, <1>4, <1>5, <1>6, <1>7, <1>8 DEF Good, w, e

\* A step that leaves a good copy behind keeps the invariant.
LEMMA Ends ==
  ASSUME NEW v, Post(v), Good(v, busy', executed', Known', calls'),
         Ran(busy', executed'), clearing' \in BOOLEAN, calls' \in Nat, errs' \in Nat,
         users' \in 0 .. MaxUser, v.thread.at = "llm" => calls' > 0
  PROVE IInv'
<1>1. Now' = v /\ thread' = v.thread
  BY Posted DEF Good, Post
<1>2. QED
  BY <1>1 DEF IInv

\* What the invariant says of the last call.
LEMMA Calls ==
  ASSUME IInv
  PROVE /\ calls \in Nat /\ Known \in Nat /\ clearing \in BOOLEAN /\ errs \in Nat
        /\ users \in 0 .. MaxUser /\ Ran(busy, executed)
        /\ Good(Now, busy, executed, Known, calls)
        /\ Now \in Work /\ Now.c = ctl /\ Now.inbox = inbox /\ Now.next = nextId
        /\ Now.thread = thread
        /\ thread.at = "llm" => Known = calls - 1 /\ calls > 0
        /\ thread.at # "llm" => Known = calls
  BY DEF IInv, Known, Good, Now

\* A step of another thread that keeps the controller's where it is.
LEMMA Others ==
  ASSUME IInv, NEW v, Post(v), Good(v, busy', executed', Known, calls),
         Ran(busy', executed'), v.thread = thread, UNCHANGED calls,
         clearing' \in BOOLEAN, errs' \in Nat, users' \in 0 .. MaxUser
  PROVE IInv'
<1>1. thread' = thread
  BY DEF Post
<1>2. Known' = Known
  BY <1>1 DEF Known
<1>3. calls \in Nat /\ (thread.at = "llm" => calls > 0)
  BY Calls
<1>4. Good(v, busy', executed', Known', calls')
  BY <1>2
<1>5. QED
  BY <1>3, <1>4, Ends

\* A step of the controller's that leaves it outside a call.
LEMMA Mine ==
  ASSUME IInv, NEW v, Post(v), Good(v, busy, executed, calls, calls),
         v.thread.at # "llm", UNCHANGED <<clearing, calls, busy, users, executed>>,
         errs' \in Nat
  PROVE IInv'
<1>1. thread' = v.thread
  BY DEF Post
<1>2. Known' = calls
  BY <1>1 DEF Known
<1>3. /\ calls \in Nat /\ Ran(busy, executed) /\ clearing \in BOOLEAN
      /\ users \in 0 .. MaxUser
  BY Calls
<1>4. Good(v, busy', executed', Known', calls') /\ Ran(busy', executed')
  BY <1>2, <1>3
<1>5. QED
  BY <1>3, <1>4, Ends

\* The thread goes on with nothing to add.
LEMMA GoesGood ==
  ASSUME NEW w, NEW b, NEW ex, NEW n \in Nat, NEW k, Good(w, b, ex, n, k),
         NEW at \in {"idle", "step", "llm"},
         w.thread.action = NoAction \/ w.c.pending = NoAction,
         at = "llm" => w.c.pending = NoAction
  PROVE LET v == At(w, at) IN
        /\ Good(v, b, ex, n, k) /\ v.thread = Thread(at, NoAction) /\ v.thread.at = at
        /\ v.c = w.c /\ v.inbox = w.inbox /\ v.next = w.next
<1> DEFINE t == Thread(at, NoAction)
           v == At(w, at)
<1>1. t \in Threads /\ t.at = at /\ t.action = NoAction
  BY Places, NoActionIsPending
<1>2. v = [w EXCEPT !.thread = t]
  BY DEF At
<1> HIDE DEF t, v
<1>3. v \in Work /\ v.c = w.c /\ v.inbox = w.inbox /\ v.next = w.next /\ v.thread = t
  BY <1>1, <1>2 DEF Good, Work
<1>4. Adding(v.c, v.thread)
  BY <1>1, <1>3 DEF Good, Adding
<1>5. Bounded(v.thread, n) /\ Limited(v, k)
  BY <1>1, <1>3, NoActionIsPending DEF Good, Bounded, Limited
<1>6. Good(v, b, ex, n, k)
  BY <1>3, <1>4, <1>5, Moves
<1>7. QED
  BY <1>1, <1>3, <1>6 DEF v, t

\* Where the thread is idle, or not, by where it is.
LEMMA IdleIs == Idle.at = "idle" /\ Idle.action = NoAction
  BY Places, NoActionIsPending DEF Idle

\* Handling an event keeps the invariant.
LEMMA OnEventInv == ASSUME IInv, OnEvent PROVE IInv'
<1> DEFINE e == Head(inbox.controller)
           w == Handle(Take("controller"), e)
           v == IF w.thread = Idle /\ ShouldStep(w, e) THEN At(w, "step") ELSE w
<1>1. /\ thread = Idle /\ inbox.controller # <<>> /\ Post(v)
      /\ UNCHANGED <<clearing, calls, busy, errs, users, executed>>
  BY DEF OnEvent
<1>2. /\ calls \in Nat /\ Ran(busy, executed) /\ Known = calls
      /\ Good(Now, busy, executed, calls, calls) /\ errs \in Nat
  BY <1>1, Calls, IdleIs
<1>3. /\ Good(Take("controller"), busy, executed, calls, calls) /\ e \in Event
      /\ Take("controller").thread = Idle
      /\ e.kind \in {"observation", "null"} => GivenUp(Take("controller"), busy, e.cause)
  BY <1>1, <1>2, TakeController
<1>4. Good(w, busy, executed, calls, calls) /\ Free(Take("controller"), w)
  BY <1>2, <1>3, HandleGood
<1> HIDE DEF w
<1>5. w.thread.at # "llm"
  BY <1>3, <1>4, IdleIs DEF Free
<1>6. CASE ~(w.thread = Idle /\ ShouldStep(w, e))
  <2>1. v = w
    BY <1>6
  <2>2. QED
    BY <1>1, <1>2, <1>4, <1>5, <2>1, Mine
<1>7. CASE w.thread = Idle /\ ShouldStep(w, e)
  <2>1. v = At(w, "step")
    BY <1>7
  <2>2. Good(At(w, "step"), busy, executed, calls, calls) /\ At(w, "step").thread.at = "step"
    BY <1>2, <1>4, <1>7, GoesGood, IdleIs
  <2>3. QED
    BY <1>1, <1>2, <2>1, <2>2, Mine
<1>8. QED
  BY <1>6, <1>7

\* The action that the thread holds is added, and whoever gets it may have it.
LEMMA AddedGood ==
  ASSUME NEW w, NEW b, NEW ex, NEW n \in Nat, NEW k, Good(w, b, ex, n, k), Ran(b, ex),
         NEW s \in {"runtime", "memory"}, NEW at \in {"idle", "step"},
         w.thread.at \in {"recall", "reissue", "add"},
         s = "runtime" => w.thread.action.kind = "run" /\ w.thread.at # "recall",
         s = "memory" => w.thread.action.kind = "recall",
         w.thread.at = "reissue" => w.c.pending # NoAction
  PROVE LET v == AddAction(w, s, at) IN
        Good(v, b, ex, n, k) /\ v.thread = Thread(at, NoAction) /\ v.thread.at = at
<1> DEFINE v == AddAction(w, s, at)
           a == w.thread.action
           r == Given(w)
<1>1. /\ w \in Work /\ Adding(w.c, w.thread) /\ Bounded(w.thread, n) /\ Limited(w, k)
      /\ w.next \in Nat \ {0} /\ a \in Pending /\ a.act \in Nat
  BY Parts DEF Good
<1>2. /\ v \in Work /\ v.next = w.next + 1 /\ v.thread = Thread(at, NoAction)
      /\ v.c.pending = IF w.c.pending = NoAction THEN NoAction ELSE r
      /\ v.c.abandoned = w.c.abandoned /\ v.c.unnamed = w.c.unnamed
      /\ v.c.asked = w.c.asked
      /\ v.c.approved = w.c.approved /\ v.c.iter = w.c.iter /\ v.c.max = w.c.max
      /\ v.inbox[s] = Append(w.inbox[s], r)
      /\ \A q \in {"controller", "runtime", "memory"} \ {s} : v.inbox[q] = w.inbox[q]
      /\ r.id = w.next /\ r.kind = a.kind /\ r.act = a.act /\ r.conf = a.conf
      /\ r \in Pending
  BY <1>1, AddsAction
<1> HIDE DEF v, r
<1>3. v.thread.at = at /\ v.thread.action = NoAction
  BY <1>2, Places, NoActionIsPending
<1>4. w.c.pending \in {a, NoAction} /\ a.id = NoId /\ NoAction.id = NoId
  BY <1>1, NoActionIsPending DEF Adding, NoId
<1>5. Adding(v.c, v.thread)
  <2>1. v.c.pending # NoAction => v.c.pending.id # NoId
    BY <1>1, <1>2 DEF NoId
  <2>2. QED
    BY <1>3, <2>1 DEF Adding
<1>6. Bounded(v.thread, n) /\ Limited(v, k)
  BY <1>1, <1>2, <1>3, NoActionIsPending DEF Bounded, Limited
<1>7. s = "runtime" => Approves(v, r)
  <2>1. s = "runtime" => (a.conf \in {"none", "confirmed"} /\ a.act \in w.c.asked
                            => a.act \in w.c.approved)
    BY <1>1 DEF Adding
  <2>2. QED
    BY <1>2, <2>1 DEF Approves
<1>8. s = "runtime" /\ v.c.pending = NoAction => r.act \in v.c.unnamed
  <2>1. ASSUME s = "runtime", w.c.pending = NoAction PROVE a.act \in w.c.unnamed
    BY <1>1, <2>1 DEF Adding
  <2>2. r # NoAction
    BY <1>1, <1>2, NoActionIsPending
  <2>3. QED
    BY <1>2, <2>1, <2>2
<1>9. r.act \in Nat /\ r.act <= n /\ v.c.pending \in {r, NoAction} /\ w.c.pending.id = NoId
  BY <1>1, <1>2, <1>4 DEF Bounded
<1>10. /\ s = "runtime" => r.kind = "run"
       /\ s = "memory" => r.kind = "recall"
  BY <1>2
<1>11. /\ w.c.abandoned \subseteq v.c.abandoned /\ w.c.unnamed \subseteq v.c.unnamed
  BY <1>2
<1>12. Good(v, b, ex, n, k)
  BY <1>2, <1>5, <1>6, <1>7, <1>8, <1>9, <1>10, <1>11, AddsGood
<1>13. QED
  BY <1>2, <1>3, <1>12 DEF v

\* The recall of a user's message is added; the agent may be set running.
LEMMA AddRecallInv == ASSUME IInv, AddRecall PROVE IInv'
<1> DEFINE u == AddAction(Now, "memory", "step")
           x == SetAgentState(u, Running)
           c1 == [x.c EXCEPT !.awaited = TRUE]
           v == [x EXCEPT !.c.awaited = TRUE]
<1>1. /\ thread.at = "recall" /\ Post(v)
      /\ UNCHANGED <<clearing, calls, busy, errs, users, executed>>
  BY DEF AddRecall
<1>2. /\ calls \in Nat /\ Ran(busy, executed) /\ Known = calls
      /\ Good(Now, busy, executed, calls, calls) /\ errs \in Nat /\ Now.thread = thread
  BY <1>1, Calls
<1>3. Now.thread.action.kind = "recall"
  BY <1>1, <1>2 DEF Good, Adding
<1>4. Good(u, busy, executed, calls, calls) /\ u.thread.at = "step"
  BY <1>1, <1>2, <1>3, AddedGood
<1> HIDE DEF u
<1>5. Good(x, busy, executed, calls, calls) /\ x.thread = u.thread
  BY <1>2, <1>4, SetAgentStateGood, States, NoDecisions
<1> HIDE DEF x
<1>6. x \in Work /\ x.c \in Ctl
  BY <1>5, Parts DEF Good
<1>7. /\ c1 \in Ctl /\ c1.pending = x.c.pending /\ c1.abandoned = x.c.abandoned
      /\ c1.unnamed = x.c.unnamed /\ c1.asked = x.c.asked /\ c1.approved = x.c.approved
      /\ c1.iter = x.c.iter /\ c1.max = x.c.max
  BY <1>6 DEF Ctl
<1>8. v = [x EXCEPT !.c = c1]
  BY <1>6 DEF Work
<1> HIDE DEF c1, v
<1>9. Good(v, busy, executed, calls, calls) /\ v.thread = x.thread
  BY <1>2, <1>5, <1>7, <1>8, Notes
<1>10. v.thread.at # "llm" /\ errs' \in Nat
  BY <1>1, <1>2, <1>4, <1>5, <1>9
<1>11. QED
  BY <1>1, <1>9, <1>10, Mine

\* The action that was decided about is added again, unless it was given up.
LEMMA AddReissuedInv == ASSUME IInv, AddReissued PROVE IInv'
<1> DEFINE s == IF ctl.pending.kind = "recall" THEN "memory" ELSE "runtime"
           v == IF ctl.pending = NoAction THEN At(Now, "idle") ELSE AddAction(Now, s, "idle")
<1>1. /\ thread.at = "reissue" /\ Post(v)
      /\ UNCHANGED <<clearing, calls, busy, errs, users, executed>>
  BY DEF AddReissued
<1>2. /\ calls \in Nat /\ Ran(busy, executed) /\ Known = calls
      /\ Good(Now, busy, executed, calls, calls) /\ errs \in Nat /\ Now.thread = thread
      /\ Now.c = ctl /\ Now \in Work
  BY <1>1, Calls
<1>3. errs' \in Nat
  BY <1>1, <1>2
<1>4. CASE ctl.pending = NoAction
  <2>1. v = At(Now, "idle")
    BY <1>4
  <2>2. Good(At(Now, "idle"), busy, executed, calls, calls) /\ At(Now, "idle").thread.at = "idle"
    BY <1>2, <1>4, GoesGood
  <2>3. v.thread.at # "llm"
    BY <2>1, <2>2
  <2>4. QED
    BY <1>1, <1>3, <2>1, <2>2, <2>3, Mine
<1>5. CASE ctl.pending # NoAction
  <2>1. v = AddAction(Now, s, "idle")
    BY <1>5
  <2>2. ctl.pending.kind \in {"run", "recall"}
    BY <1>2, <1>5, Parts DEF Good, Numbered, Pending
  <2>3. Now.thread.action = ctl.pending
    BY <1>1, <1>2, <1>5 DEF Good, Adding
  <2>4. /\ s \in {"runtime", "memory"}
        /\ s = "runtime" => Now.thread.action.kind = "run" /\ Now.thread.at # "recall"
        /\ s = "memory" => Now.thread.action.kind = "recall"
        /\ Now.thread.at \in {"recall", "reissue", "add"}
        /\ Now.thread.at = "reissue" => Now.c.pending # NoAction
    BY <1>1, <1>2, <1>5, <2>2, <2>3
  <2> HIDE DEF s
  <2>5. /\ Good(AddAction(Now, s, "idle"), busy, executed, calls, calls)
        /\ AddAction(Now, s, "idle").thread.at = "idle"
    BY <1>2, <2>4, AddedGood
  <2>6. v.thread.at # "llm"
    BY <2>1, <2>5
  <2> HIDE DEF v
  <2>7. QED
    BY <1>1, <1>3, <2>1, <2>5, <2>6, Mine
<1>6. QED
  BY <1>4, <1>5

\* A step keeps the invariant, also the one that starts a call: that was allowed,
\* and its action is not known yet.
LEMMA StepInv == ASSUME IInv, Step PROVE IInv'
<1> DEFINE w == At(Now, "idle")
           c1 == [w.c EXCEPT !.hit = LimitReached]
           flagged == [w EXCEPT !.c.hit = LimitReached]
           z == At(flagged, "llm")
           v == [z EXCEPT !.c.iter = @ + 1, !.c.awaited = FALSE]
<1>1. /\ thread.at = "step" /\ UNCHANGED <<clearing, busy, users, executed>>
  BY DEF Step
<1>2. /\ calls \in Nat /\ Ran(busy, executed) /\ Known = calls
      /\ Good(Now, busy, executed, calls, calls) /\ errs \in Nat /\ Now.thread = thread
      /\ Now.c = ctl /\ Now \in Work /\ users \in 0 .. MaxUser /\ clearing \in BOOLEAN
  BY <1>1, Calls
<1>3. Now.thread.action = NoAction
  BY <1>1, <1>2 DEF Good, Adding
<1>4. /\ Good(w, busy, executed, calls, calls) /\ w.thread = Thread("idle", NoAction)
      /\ w.thread.at = "idle" /\ w.c = ctl
  BY <1>2, <1>3, GoesGood
<1>5. \/ Post(w) /\ UNCHANGED <<calls, errs>>
      \/ React(w) /\ UNCHANGED calls
      \/ React(flagged) /\ UNCHANGED calls
      \/ MayStep /\ ~LimitReached /\ Post(v) /\ calls' = calls + 1 /\ UNCHANGED errs
  BY DEF Step
<1> HIDE DEF w
<1>6. w \in Work /\ w.c \in Ctl /\ ctl.iter = calls /\ ctl.max \in Nat
  BY <1>4, Parts DEF Good, Limited
<1>7. /\ c1 \in Ctl /\ c1.pending = w.c.pending /\ c1.abandoned = w.c.abandoned
      /\ c1.unnamed = w.c.unnamed /\ c1.asked = w.c.asked /\ c1.approved = w.c.approved
      /\ c1.iter = w.c.iter /\ c1.max = w.c.max
  <2>1. LimitReached \in BOOLEAN
    BY DEF LimitReached
  <2>2. QED
    BY <1>6, <2>1 DEF Ctl
<1>8. flagged = [w EXCEPT !.c = c1]
  BY <1>6 DEF Work
<1> HIDE DEF c1, flagged
<1>9. /\ Good(flagged, busy, executed, calls, calls) /\ flagged.c = c1
      /\ flagged.thread = w.thread
  BY <1>2, <1>4, <1>7, <1>8, Notes
<1>10. ASSUME NEW u, Good(u, busy, executed, calls, calls), u.thread = w.thread,
              React(u), UNCHANGED calls
       PROVE IInv'
  <2>1. /\ Good(SetAgentState(u, Error), busy, executed, calls, calls)
        /\ SetAgentState(u, Error).thread = u.thread
    BY <1>2, <1>10, SetAgentStateGood, States, NoDecisions
  <2>2. Post(SetAgentState(u, Error)) /\ errs' = errs + 1
    BY <1>10 DEF React
  <2>3. SetAgentState(u, Error).thread.at # "llm" /\ errs' \in Nat
    BY <1>2, <1>4, <1>10, <2>1, <2>2
  <2>4. QED
    BY <1>1, <1>10, <2>1, <2>2, <2>3, Mine
<1>11. CASE Post(w) /\ UNCHANGED <<calls, errs>>
  <2>1. w.thread.at # "llm" /\ errs' \in Nat
    BY <1>2, <1>4, <1>11
  <2>2. QED
    BY <1>1, <1>4, <1>11, <2>1, Mine
<1>12. CASE MayStep /\ ~LimitReached /\ Post(v) /\ calls' = calls + 1 /\ UNCHANGED errs
  <2> DEFINE c2 == [z.c EXCEPT !.iter = @ + 1]
             c3 == [c2 EXCEPT !.awaited = FALSE]
  <2>1. flagged.c.pending = NoAction
    BY <1>4, <1>7, <1>9, <1>12 DEF MayStep
  <2>2. /\ Good(z, busy, executed, calls, calls) /\ z.thread = Thread("llm", NoAction)
        /\ z.thread.at = "llm" /\ z.c = c1
    BY <1>2, <1>9, <2>1, GoesGood
  <2> HIDE DEF z
  <2>3. z \in Work /\ z.c \in Ctl /\ z.c.iter = calls /\ z.c.max = ctl.max
        /\ z.c.pending = NoAction
    BY <1>4, <1>6, <1>7, <1>9, <2>1, <2>2 DEF Good
  <2>4. /\ c2 \in Ctl /\ c2.pending = z.c.pending /\ c2.abandoned = z.c.abandoned
        /\ c2.unnamed = z.c.unnamed /\ c2.asked = z.c.asked
        /\ c2.approved = z.c.approved /\ c2.iter = calls + 1 /\ c2.max = z.c.max
    BY <1>2, <2>3 DEF Ctl
  <2> HIDE DEF c2
  <2>5. /\ c3 \in Ctl /\ c3.pending = c2.pending /\ c3.abandoned = c2.abandoned
        /\ c3.unnamed = c2.unnamed /\ c3.asked = c2.asked /\ c3.approved = c2.approved
        /\ c3.iter = c2.iter /\ c3.max = c2.max
    BY <2>4 DEF Ctl
  <2>6. v = [z EXCEPT !.c = c3]
    BY <2>3 DEF c2, Work
  <2> HIDE DEF c3, v
  <2>7. v \in Work /\ v.c = c3 /\ v.inbox = z.inbox /\ v.next = z.next /\ v.thread = z.thread
    BY <2>3, <2>5, <2>6 DEF Work
  <2>8. Headless => v.c.max = IterationDelta /\ v.c.iter <= v.c.max
    <3>1. ~(ctl.iter >= ctl.max)
      BY <1>12 DEF LimitReached
    <3>2. ctl.iter + 1 <= ctl.max
      BY <1>2, <1>6, <3>1
    <3>3. v.c.iter = ctl.iter + 1 /\ v.c.max = ctl.max
      BY <1>6, <2>3, <2>4, <2>5, <2>7
    <3>4. Headless => ctl.max = IterationDelta
      BY <1>4 DEF Good, Limited
    <3>5. QED
      BY <3>2, <3>3, <3>4
  <2>9. Limited(v, calls + 1)
    BY <2>4, <2>5, <2>7, <2>8 DEF Limited
  <2>10. Adding(v.c, v.thread) /\ Bounded(v.thread, calls)
    BY <2>2, <2>4, <2>5, <2>7 DEF Good, Adding
  <2>11. Good(v, busy, executed, calls, calls + 1)
    BY <1>2, <2>2, <2>4, <2>5, <2>7, <2>9, <2>10, Moves
  <2>12. thread' = v.thread
    BY <1>12 DEF Post
  <2>13. Known' = calls
    BY <1>2, <1>12, <2>2, <2>7, <2>12 DEF Known
  <2>14. Good(v, busy', executed', Known', calls')
    BY <1>1, <1>12, <2>11, <2>13
  <2>15. calls' \in Nat /\ calls' > 0
    BY <1>2, <1>12
  <2>16. /\ errs' \in Nat /\ users' \in 0 .. MaxUser /\ clearing' \in BOOLEAN
         /\ Ran(busy', executed')
    BY <1>1, <1>2, <1>12
  <2>17. QED
    BY <1>12, <2>14, <2>15, <2>16, Ends
<1>13. QED
  BY <1>4, <1>5, <1>9, <1>10, <1>11, <1>12

\* What is good while a call is under way is good once it has returned.
LEMMA Later ==
  ASSUME NEW w, NEW b, NEW ex, NEW n \in Nat, NEW m \in Nat, NEW k, n <= m,
         Good(w, b, ex, n, k), Ran(b, ex)
  PROVE Good(w, b, ex, m, k)
<1>1. /\ w \in Work /\ w.c.asked \subseteq Nat /\ w.c.pending.act \in Nat
      /\ ex \subseteq Nat /\ b.act \in Nat /\ w.thread.action.act \in Nat
  BY Parts DEF Good, Ran, Busy
<1>2. \A e \in In(w.inbox.runtime) \cup {b} : e.act \in Nat
  <2>1. w.inbox.runtime \in Seq(Runnable)
    BY <1>1, Parts
  <2>2. In(w.inbox.runtime) \subseteq Runnable
    BY <2>1, QueueMembers
  <2>3. QED
    BY <1>1, <2>2 DEF Runnable
<1>3. \A e \in In(w.inbox.runtime) \cup {b} :
         e.kind = "run" => Approves(w, e) /\ e.act <= m
  BY <1>2 DEF Good, Confirms
<1>4. ASSUME NEW a \in ex PROVE a <= m /\ (a \in w.c.asked => a \in w.c.approved)
  <2>1. a <= n /\ a \in Nat /\ (a \in w.c.asked => a \in w.c.approved)
    BY <1>1 DEF Good, Confirms
  <2>2. a <= m
    BY <2>1
  <2>3. QED
    BY <2>1, <2>2
<1>5. w.c.pending.act <= m /\ \A a \in w.c.asked : a <= m
  BY <1>1 DEF Good, Confirms
<1>6. Bounded(w.thread, m)
  BY <1>1 DEF Good, Bounded
<1>7. QED
  BY <1>3, <1>4, <1>5, <1>6 DEF Good, Confirms

\* An action the call returned becomes the pending one.
LEMMA ProposeGood ==
  ASSUME IInv, thread.at = "llm", NEW conf \in {"none", "awaiting"}
  PROVE /\ Good(Propose(conf), busy, executed, calls, calls)
        /\ Propose(conf).thread.at \in {"ask", "add"}
<1> DEFINE p == Act("run", calls, conf)
           late == IF ctl.state = Running THEN ctl.late ELSE ctl.late \cup {calls}
           asked == IF conf = "awaiting" THEN ctl.asked \cup {calls} ELSE ctl.asked
           c1 == [ctl EXCEPT !.late = late]
           c2 == [c1 EXCEPT !.asked = asked]
           w == [Now EXCEPT !.c.late = IF ctl.state = Running THEN @ ELSE @ \cup {calls},
                            !.c.asked = IF conf = "awaiting" THEN @ \cup {calls} ELSE @]
           at == IF conf = "awaiting" THEN "ask" ELSE "add"
<1>1. /\ calls \in Nat /\ Known \in Nat /\ Known = calls - 1 /\ Ran(busy, executed)
      /\ Good(Now, busy, executed, Known, calls) /\ Now \in Work /\ Now.c = ctl
      /\ Now.inbox = inbox /\ Now.next = nextId /\ Now.thread = thread
  BY Calls
<1>2. p \in Pending /\ p.kind = "run" /\ p.act = calls /\ p.conf = conf /\ p.id = NoId
  BY <1>1 DEF Act, Pending, ConfStates
<1> HIDE DEF p
<1>3. /\ ctl \in Ctl /\ late \in SUBSET Nat /\ asked \in SUBSET Nat
      /\ \A a \in ctl.asked : a \in Nat
  <2>1. ctl \in Ctl
    BY <1>1, Parts
  <2>2. ctl.late \in SUBSET Nat /\ ctl.asked \in SUBSET Nat
    BY <2>1 DEF Ctl
  <2>3. QED
    BY <1>1, <2>1, <2>2
<1>4. /\ c1 \in Ctl /\ c1.pending = ctl.pending /\ c1.abandoned = ctl.abandoned
      /\ c1.unnamed = ctl.unnamed /\ c1.asked = ctl.asked /\ c1.approved = ctl.approved
      /\ c1.iter = ctl.iter /\ c1.max = ctl.max
  <2> HIDE DEF late
  <2>1. QED
    BY <1>3 DEF Ctl
<1>5. /\ c2 \in Ctl /\ c2.pending = ctl.pending /\ c2.abandoned = ctl.abandoned
      /\ c2.unnamed = ctl.unnamed /\ c2.asked = asked /\ c2.approved = ctl.approved
      /\ c2.iter = ctl.iter /\ c2.max = ctl.max
  <2> HIDE DEF asked, c1
  <2>1. QED
    BY <1>3, <1>4 DEF Ctl
<1>6. w = [Now EXCEPT !.c = c2]
  BY <1>1, <1>3 DEF Work, Ctl
<1> HIDE DEF c1, c2, w, late, at
<1>7. /\ w \in Work /\ w.c = c2 /\ w.inbox = inbox /\ w.next = nextId /\ w.thread = thread
  BY <1>1, <1>5, <1>6 DEF Work
<1>8. /\ ctl.pending = NoAction /\ thread.action = NoAction
  BY <1>1 DEF Good, Adding
<1>9. Numbered(w, busy) /\ Outstanding(w, busy) /\ Limited(w, calls)
  BY <1>1, <1>5, <1>7 DEF Good, Numbered, Outstanding, GivenUp, Accounted, Limited
<1>10. Adding(w.c, w.thread) /\ Bounded(w.thread, calls)
  BY <1>1, <1>5, <1>7, <1>8, NoActionIsPending DEF Adding, Bounded
<1>11. \A a \in ctl.asked : a <= Known
  BY <1>1 DEF Good, Confirms
<1>12. \A a \in Nat : a <= Known => a <= calls /\ a # calls
  BY <1>1
<1>13. Confirms(w, busy, executed, calls)
  <2>1. \A e \in In(inbox.runtime) \cup {busy} : e.act \in Nat
    <3>1. In(inbox.runtime) \subseteq Runnable
      BY <1>1, Parts, QueueMembers
    <3>2. QED
      BY <1>1, <3>1 DEF Runnable, Ran, Busy
  <2>2. \A e \in In(inbox.runtime) \cup {busy} :
          e.kind = "run" => Approves(Now, e) /\ e.act <= Known
    BY <1>1 DEF Good, Confirms
  <2>3. \A e \in In(inbox.runtime) \cup {busy} :
          e.kind = "run" => Approves(w, e) /\ e.act <= calls
    BY <1>1, <1>5, <1>7, <1>12, <2>1, <2>2 DEF Approves, asked
  <2>4. \A a \in executed : a \in Nat /\ a <= Known /\ (a \in ctl.asked => a \in ctl.approved)
    BY <1>1 DEF Good, Confirms, Ran
  <2>5. \A a \in executed : a <= calls /\ (a \in w.c.asked => a \in w.c.approved)
    BY <1>5, <1>7, <1>12, <2>4 DEF asked
  <2>6. w.c.pending.act <= calls
    BY <1>1, <1>5, <1>7, <1>8, NoActionIsPending
  <2>7. \A a \in w.c.asked : a <= calls
    BY <1>1, <1>3, <1>5, <1>7, <1>11, <1>12 DEF asked
  <2>8. QED
    BY <1>7, <2>3, <2>5, <2>6, <2>7 DEF Confirms
<1>14. Good(w, busy, executed, calls, calls)
  BY <1>7, <1>9, <1>10, <1>13 DEF Good
<1>15. GivenUp(w, busy, w.c.pending.id)
  BY <1>1, <1>5, <1>7, <1>8, NoIdIsFree, NoActionIsPending DEF NoId
<1>16. Approves(w, p)
  <2>1. calls \notin ctl.asked
    BY <1>1, <1>3, <1>11, <1>12
  <2>2. QED
    BY <1>2, <1>5, <1>7, <2>1 DEF Approves, asked
<1>17. /\ at \in {"recall", "reissue", "ask", "add"} /\ at \in {"ask", "add"} /\ at # "recall"
       /\ p.kind # "none" /\ p.act <= calls
  BY <1>1, <1>2 DEF at
<1>18. /\ Good(SetPending(w, at, p), busy, executed, calls, calls)
       /\ SetPending(w, at, p).thread = Thread(at, p)
  <2>1. /\ at = "recall" => p.kind = "recall"
        /\ at \in {"ask", "add"} => p.kind = "run"
        /\ at # "recall" => Approves(w, p)
    BY <1>2, <1>16, <1>17
  <2>2. Good(SetPending(w, at, p), busy, executed, calls, calls)
    BY <1>1, <1>2, <1>14, <1>15, <1>17, <2>1, SetPendingGood
  <2>3. SetPending(w, at, p).thread = Thread(at, p)
    BY <1>7 DEF SetPending, Work
  <2>4. QED
    BY <2>2, <2>3
<1>19. Propose(conf) = SetPending(w, at, p)
  BY DEF Propose, w, at, p
<1>20. Thread(at, p).at = at
  BY DEF Thread
<1>21. QED
  BY <1>17, <1>18, <1>19, <1>20

\* An action nobody waits for goes to the runtime.
LEMMA ThinkGood ==
  ASSUME NEW w, NEW ex, NEW n \in Nat, NEW k, Good(w, busy, ex, n, k), Ran(busy, ex),
         calls \in Nat, w.next = nextId
  PROVE LET v == [AddTo(w, "runtime", [Act("think", calls, "none") EXCEPT !.id = nextId])
                    EXCEPT !.next = @ + 1] IN
        Good(v, busy, ex, n, k) /\ v.thread = w.thread
<1> DEFINE r == [Act("think", calls, "none") EXCEPT !.id = nextId]
           v == [AddTo(w, "runtime", r) EXCEPT !.next = @ + 1]
           q == w.inbox.runtime
<1>1. w \in Work
  BY DEF Good
<1>2. /\ nextId \in Nat \ {0} /\ q \in Seq(Runnable) /\ w.inbox \in Queues
      /\ w.inbox.memory \in Seq(Recall) /\ w.inbox.controller \in Seq(Event)
  BY <1>1, Parts
<1>3. r \in Runnable /\ r.id = nextId /\ r.kind = "think"
  <2>1. r = [kind |-> "think", id |-> nextId, act |-> calls, conf |-> "none"]
    BY DEF Act
  <2>2. QED
    BY <1>1, <1>2, <2>1 DEF Runnable, ConfStates
<1> HIDE DEF r
<1>4. /\ Append(q, r) \in Seq(Runnable) /\ In(Append(q, r)) = In(q) \cup {r}
      /\ DOMAIN Append(q, r) = DOMAIN q \cup {Len(q) + 1} /\ Append(q, r)[Len(q) + 1] = r
      /\ \A i \in DOMAIN q : Append(q, r)[i] = q[i]
  BY <1>2, <1>3, QueueMembers
<1>5. /\ v \in Work /\ v.c = w.c /\ v.next = nextId + 1 /\ v.thread = w.thread
      /\ v.inbox.runtime = Append(q, r) /\ v.inbox.memory = w.inbox.memory
      /\ v.inbox.controller = w.inbox.controller
  <2> DEFINE Q == [w.inbox EXCEPT !.runtime = Append(@, r)]
             u == AddTo(w, "runtime", r)
  <2>1. Q \in Queues /\ Q.runtime = Append(q, r) /\ Q.memory = w.inbox.memory
        /\ Q.controller = w.inbox.controller
    BY <1>2, <1>4 DEF Queues
  <2>2. u = [w EXCEPT !.inbox = Q]
    BY <1>1 DEF AddTo, Work
  <2> HIDE DEF Q, u
  <2>3. u \in Work /\ u.c = w.c /\ u.next = nextId /\ u.inbox = Q /\ u.thread = w.thread
    BY <1>1, <2>1, <2>2 DEF Work
  <2>4. v = [u EXCEPT !.next = nextId + 1]
    BY <2>3 DEF u
  <2> HIDE DEF v
  <2>5. v \in Work /\ v.c = w.c /\ v.next = nextId + 1 /\ v.inbox = Q /\ v.thread = w.thread
    BY <1>2, <2>3, <2>4 DEF Work
  <2>6. QED
    BY <2>1, <2>5
<1> HIDE DEF v
<1>6. /\ \A e \in In(q) : e.id \in Nat \ {0}
      /\ \A e \in In(w.inbox.memory) : e.id \in Nat \ {0}
      /\ \A e \in In(w.inbox.controller) :
           e.kind \in {"observation", "null"} => e.cause \in Nat \cup {NoId}
      /\ busy # NoAction => busy.id \in Nat
  <2>1. /\ In(q) \subseteq Runnable /\ In(w.inbox.memory) \subseteq Recall
        /\ In(w.inbox.controller) \subseteq Event
    BY <1>2, QueueMembers
  <2>2. QED
    BY <1>1, <2>1 DEF Runnable, Recall, Event, Ran
<1>7. /\ \A i, j \in DOMAIN q : i # j => q[i].id # q[j].id
      /\ \A e \in In(q) : e.id < nextId /\ (busy # NoAction => e.id # busy.id)
      /\ busy # NoAction => busy.id < nextId
      /\ \A m \in In(w.inbox.memory) :
           /\ m.id < nextId /\ (busy # NoAction => m.id # busy.id)
           /\ \A e \in In(q) : m.id # e.id
      /\ w.c.pending # NoAction =>
           w.c.pending.kind # "none" /\ w.c.pending.id \in {NoId} \cup 1 .. nextId - 1
  BY <1>1 DEF Good, Numbered
<1>8. Numbered(v, busy)
  <2>1. \A i \in DOMAIN q : q[i].id # nextId
    <3>1. \A i \in DOMAIN q : q[i] \in In(q)
      BY DEF In
    <3>2. QED
      BY <1>2, <1>6, <1>7, <3>1
  <2>2. \A i, j \in DOMAIN v.inbox.runtime :
          i # j => v.inbox.runtime[i].id # v.inbox.runtime[j].id
    <3> DEFINE L == Len(q) + 1
    <3>1. /\ DOMAIN v.inbox.runtime = DOMAIN q \cup {L} /\ v.inbox.runtime[L].id = nextId
          /\ \A i \in DOMAIN q : v.inbox.runtime[i] = q[i]
      BY <1>3, <1>4, <1>5
    <3> HIDE DEF L
    <3>2. QED
      BY <1>7, <2>1, <3>1
  <2>3. \A e \in In(q) : e.id < nextId + 1
    BY <1>2, <1>6, <1>7
  <2>4. nextId < nextId + 1 /\ (busy # NoAction => nextId # busy.id /\ busy.id < nextId + 1)
    BY <1>2, <1>6, <1>7
  <2>5. \A m \in In(w.inbox.memory) : m.id < nextId + 1 /\ m.id # nextId
    BY <1>2, <1>6, <1>7
  <2>6. w.c.pending # NoAction => w.c.pending.kind # "none"
          /\ w.c.pending.id \in {NoId} \cup 1 .. (nextId + 1) - 1
    BY <1>2, <1>7
  <2>7. QED
    BY <1>3, <1>4, <1>5, <1>7, <2>2, <2>3, <2>4, <2>5, <2>6 DEF Numbered
<1>9. Outstanding(v, busy)
  <2>1. /\ \A e \in In(q) \cup {busy} : e.kind = "run" => Accounted(w, e)
        /\ \A o \in In(w.inbox.controller) :
             o.kind \in {"observation", "null"} =>
               o.cause < nextId /\ GivenUp(w, busy, o.cause)
    BY <1>1 DEF Good, Outstanding
  <2>2. \A e \in In(v.inbox.runtime) \cup {busy} : e.kind = "run" => Accounted(v, e)
    BY <1>3, <1>4, <1>5, <2>1 DEF Accounted
  <2>3. ASSUME NEW o \in In(v.inbox.controller), o.kind \in {"observation", "null"}
        PROVE o.cause < v.next /\ GivenUp(v, busy, o.cause)
    <3>1. o.cause < nextId /\ GivenUp(w, busy, o.cause) /\ o.cause \in Nat \cup {NoId}
      BY <1>5, <1>6, <2>1, <2>3
    <3>2. o.cause < v.next
      BY <1>2, <1>5, <3>1 DEF NoId
    <3>3. GivenUp(v, busy, o.cause)
      BY <1>3, <1>4, <1>5, <3>1 DEF GivenUp
    <3>4. QED
      BY <3>2, <3>3
  <2>4. QED
    BY <2>2, <2>3 DEF Outstanding
<1>10. Confirms(v, busy, ex, n) /\ Limited(v, k)
  BY <1>3, <1>4, <1>5 DEF Good, Confirms, Approves, Limited
<1>11. Adding(v.c, v.thread) /\ Bounded(v.thread, n)
  BY <1>5 DEF Good
<1>12. QED
  BY <1>5, <1>8, <1>9, <1>10, <1>11 DEF Good, v, r

\* Whatever a call returns, the invariant is kept.
LEMMA StepReturnsInv == ASSUME IInv, StepReturns PROVE IInv'
<1> DEFINE w == At(Now, "idle")
<1>1. thread.at = "llm" /\ UNCHANGED <<clearing, calls, busy, users, executed>>
  BY DEF StepReturns
<1>2. /\ calls \in Nat /\ Known \in Nat /\ Known = calls - 1 /\ calls > 0
      /\ Ran(busy, executed) /\ errs \in Nat
      /\ Good(Now, busy, executed, Known, calls) /\ Now.next = nextId /\ nextId \in Nat \ {0}
      /\ Now.thread = thread
  BY <1>1, Calls, Parts
<1>3. Known <= calls /\ Now.thread.action = NoAction
  BY <1>1, <1>2 DEF Good, Adding
<1>4. /\ Good(w, busy, executed, Known, calls) /\ w.thread.at = "idle" /\ w.next = nextId
  BY <1>2, <1>3, GoesGood
<1>5. /\ Good(w, busy, executed, calls, calls) /\ w \in Work
  BY <1>2, <1>3, <1>4, Later DEF Good
<1> HIDE DEF w
<1>6. ASSUME NEW v, Post(v), Good(v, busy, executed, calls, calls), v.thread.at # "llm",
             errs' \in Nat
      PROVE IInv'
  BY <1>1, <1>6, Mine
<1>7. ASSUME NEW e \in Event, e.kind \in {"observation", "null"} => e.cause = NoId,
             Post(AddTo(w, "controller", e)), UNCHANGED errs
      PROVE IInv'
  <2>1. e.kind \in {"observation", "null"} => e.cause < w.next /\ GivenUp(w, busy, e.cause)
    BY <1>2, <1>4, <1>5, <1>7, NoIdIsFree DEF NoId
  <2>2. /\ Good(AddTo(w, "controller", e), busy, executed, calls, calls)
        /\ AddTo(w, "controller", e).thread = w.thread
    BY <1>2, <1>5, <1>7, <2>1, TellsGood, Tells
  <2>3. AddTo(w, "controller", e).thread.at # "llm" /\ errs' \in Nat
    BY <1>2, <1>4, <1>7, <2>2
  <2>4. QED
    BY <1>6, <1>7, <2>2, <2>3
<1>8. ASSUME NEW conf \in {"none", "awaiting"}, Post(Propose(conf)), UNCHANGED errs
      PROVE IInv'
  <2>1. /\ Good(Propose(conf), busy, executed, calls, calls)
        /\ Propose(conf).thread.at # "llm"
    BY <1>1, ProposeGood
  <2>2. QED
    BY <1>2, <1>6, <1>8, <2>1
<1>9. ASSUME NEW new \in {"rate_limited", Error}, Post(SetAgentState(w, new)),
             errs' \in Nat
      PROVE IInv'
  <2>1. /\ Good(SetAgentState(w, new), busy, executed, calls, calls)
        /\ SetAgentState(w, new).thread = w.thread
    BY <1>2, <1>5, SetAgentStateGood, States, NoDecisions
  <2>2. QED
    BY <1>4, <1>6, <1>9, <2>1
<1>10. CASE \E conf \in IF Confirmation THEN {"none", "awaiting"} ELSE {"none"} :
              Post(Propose(conf)) /\ UNCHANGED errs
  <2>1. \E conf \in {"none", "awaiting"} : Post(Propose(conf)) /\ UNCHANGED errs
    BY <1>10
  <2>2. QED
    BY <1>8, <2>1
<1>11. CASE /\ Post([AddTo(w, "runtime", [Act("think", calls, "none") EXCEPT !.id = nextId])
                       EXCEPT !.next = @ + 1])
            /\ UNCHANGED errs
  <2> DEFINE v == [AddTo(w, "runtime", [Act("think", calls, "none") EXCEPT !.id = nextId])
                     EXCEPT !.next = @ + 1]
  <2>1. Good(v, busy, executed, calls, calls) /\ v.thread = w.thread
    BY <1>2, <1>4, <1>5, ThinkGood
  <2>2. Post(v) /\ errs' \in Nat
    BY <1>2, <1>11
  <2> HIDE DEF v
  <2>3. QED
    BY <1>4, <1>6, <2>1, <2>2
<1>12. CASE \E intent \in BOOLEAN :
              /\ Post(AddTo(w, "controller", [kind |-> "say", intent |-> intent]))
              /\ UNCHANGED errs
  <2>1. PICK intent \in BOOLEAN :
          /\ Post(AddTo(w, "controller", [kind |-> "say", intent |-> intent]))
          /\ UNCHANGED errs
    BY <1>12
  <2>2. /\ [kind |-> "say", intent |-> intent] \in Event
        /\ [kind |-> "say", intent |-> intent].kind \notin {"observation", "null"}
    BY DEF Event
  <2>3. QED
    BY <1>7, <2>1, <2>2
<1>13. CASE \E kind \in {"finish", "refuse", "condense"} :
              Post(AddTo(w, "controller", [kind |-> kind])) /\ UNCHANGED errs
  <2>1. PICK kind \in {"finish", "refuse", "condense"} :
          Post(AddTo(w, "controller", [kind |-> kind])) /\ UNCHANGED errs
    BY <1>13
  <2>2. [kind |-> kind] \in Event /\ [kind |-> kind].kind \notin {"observation", "null"}
    BY DEF Event
  <2>3. QED
    BY <1>7, <2>1, <2>2
<1>14. CASE Post(AddTo(w, "controller", Obs("observation", 0, NoId))) /\ UNCHANGED errs
  <2>1. /\ Obs("observation", 0, NoId) \in Event
        /\ Obs("observation", 0, NoId).cause = NoId
    BY DEF Obs, Event
  <2>2. QED
    BY <1>7, <1>14, <2>1
<1>15. CASE Post(SetAgentState(w, "rate_limited")) /\ UNCHANGED errs
  BY <1>2, <1>9, <1>15
<1>16. CASE React(w)
  <2>1. Post(SetAgentState(w, Error)) /\ errs' = errs + 1
    BY <1>16 DEF React
  <2>2. errs' \in Nat
    BY <1>2, <2>1
  <2>3. QED
    BY <1>9, <2>1, <2>2
<1>17. QED
  BY <1>10, <1>11, <1>12, <1>13, <1>14, <1>15, <1>16 DEF StepReturns, w

\* Asking the user keeps the invariant.
LEMMA AskInv == ASSUME IInv, Ask PROVE IInv'
<1> DEFINE u == SetAgentState(Now, AwaitingConfirmation)
           t == [u.thread EXCEPT !.at = "add"]
           v == [u EXCEPT !.thread.at = "add"]
<1>1. /\ thread.at = "ask" /\ Post(v)
      /\ UNCHANGED <<clearing, calls, busy, errs, users, executed>>
  BY DEF Ask
<1>2. /\ calls \in Nat /\ Ran(busy, executed) /\ Known = calls
      /\ Good(Now, busy, executed, calls, calls) /\ errs \in Nat /\ Now.thread = thread
  BY <1>1, Calls
<1>3. Good(u, busy, executed, calls, calls) /\ u.thread = thread
  BY <1>2, SetAgentStateGood, States, NoDecisions
<1> HIDE DEF u
<1>4. u \in Work /\ u.thread \in Threads
  BY <1>3, Parts DEF Good
<1>5. t \in Threads /\ t.at = "add" /\ t.action = u.thread.action
  BY <1>4 DEF Threads
<1>6. v = [u EXCEPT !.thread = t]
  BY <1>4 DEF Work
<1> HIDE DEF t, v
<1>7. v \in Work /\ v.c = u.c /\ v.inbox = u.inbox /\ v.next = u.next /\ v.thread = t
  BY <1>4, <1>5, <1>6 DEF Work
<1>8. Adding(v.c, v.thread)
  BY <1>1, <1>3, <1>5, <1>7 DEF Good, Adding
<1>9. Bounded(v.thread, calls) /\ Limited(v, calls)
  BY <1>3, <1>5, <1>7 DEF Good, Bounded, Limited
<1>10. Good(v, busy, executed, calls, calls)
  BY <1>2, <1>3, <1>7, <1>8, <1>9, Moves
<1>11. v.thread.at # "llm" /\ errs' \in Nat
  BY <1>1, <1>2, <1>5, <1>7
<1>12. QED
  BY <1>1, <1>10, <1>11, Mine

\* The proposed action is added, given up meanwhile or not.
LEMMA AddProposedInv == ASSUME IInv, AddProposed PROVE IInv'
<1> DEFINE v == AddAction(Now, "runtime", "idle")
<1>1. /\ thread.at = "add" /\ Post(v)
      /\ UNCHANGED <<clearing, calls, busy, errs, users, executed>>
  BY DEF AddProposed
<1>2. /\ calls \in Nat /\ Ran(busy, executed) /\ Known = calls
      /\ Good(Now, busy, executed, calls, calls) /\ errs \in Nat /\ Now.thread = thread
  BY <1>1, Calls
<1>3. Now.thread.action.kind = "run"
  BY <1>1, <1>2 DEF Good, Adding
<1>4. Good(v, busy, executed, calls, calls) /\ v.thread.at = "idle"
  BY <1>1, <1>2, <1>3, AddedGood
<1> HIDE DEF v
<1>5. v.thread.at # "llm" /\ errs' \in Nat
  BY <1>1, <1>2, <1>4
<1>6. QED
  BY <1>1, <1>4, <1>5, Mine

\* What the runtime took is in its queue no longer; nothing else has its id.
LEMMA TakeRuntime ==
  ASSUME IInv, busy = NoAction, inbox.runtime # <<>>
  PROVE LET w == Take("runtime")
            e == Head(inbox.runtime) IN
        /\ Good(w, NoAction, executed, Known, calls) /\ e \in Runnable
        /\ GivenUp(w, NoAction, e.id) /\ e.id < w.next
        /\ w.thread = thread
        /\ e.kind = "run" /\ e.conf \notin {"awaiting", "rejected"} =>
             Good(w, e, executed \cup {e.act}, Known, calls)
<1> DEFINE w == Take("runtime")
           e == Head(inbox.runtime)
           q == inbox.runtime
<1>1. /\ Good(Now, NoAction, executed, Known, calls) /\ Now \in Work /\ Now.c = ctl
      /\ Now.inbox = inbox /\ Now.next = nextId /\ Now.thread = thread
  BY Calls
<1>2. q \in Seq(Runnable)
  BY <1>1, Parts
<1>3. /\ e \in In(q) /\ e \in Runnable /\ In(Tail(q)) \subseteq In(q)
      /\ Head(q) = q[1] /\ 1 \in DOMAIN q
      /\ \A i \in DOMAIN Tail(q) : i + 1 \in DOMAIN q /\ i \in Nat \ {0} /\ Tail(q)[i] = q[i + 1]
  BY <1>2, QueueMembers
<1>4. /\ w \in Work /\ w.c = ctl /\ w.next = nextId /\ w.thread = thread
      /\ w.inbox.runtime = Tail(q)
      /\ w.inbox.controller = inbox.controller /\ w.inbox.memory = inbox.memory
  <2>1. Now.inbox["runtime"] # <<>>
    BY <1>1
  <2>2. w = [Now EXCEPT !.inbox["runtime"] = Tail(@)]
    BY DEF Take
  <2> HIDE DEF w
  <2>3. /\ w \in Work /\ w.c = Now.c /\ w.next = Now.next /\ w.thread = Now.thread
        /\ w.inbox["runtime"] = Tail(Now.inbox["runtime"])
        /\ \A x \in {"controller", "runtime", "memory"} \ {"runtime"} : w.inbox[x] = Now.inbox[x]
    BY <1>1, <2>1, <2>2, Takes
  <2>4. QED
    BY <1>1, <2>3
<1>5. /\ \A i, j \in DOMAIN q : i # j => q[i].id # q[j].id
      /\ \A f \in In(q) : f.id < nextId
      /\ \A m \in In(inbox.memory) : m.id < nextId /\ \A f \in In(q) : m.id # f.id
      /\ ctl.pending # NoAction => ctl.pending.kind # "none" /\ ctl.pending.id \in {NoId} \cup 1 .. nextId - 1
  BY <1>1 DEF Good, Numbered
<1>6. \A f \in In(Tail(q)) : f.id # e.id
  <2>1. ASSUME NEW i \in DOMAIN Tail(q) PROVE Tail(q)[i].id # e.id
    <3>1. i + 1 # 1 /\ Tail(q)[i] = q[i + 1] /\ i + 1 \in DOMAIN q
      BY <1>3
    <3>2. QED
      BY <1>3, <1>5, <3>1
  <2>2. QED
    BY <2>1 DEF In
<1>7. \A i, j \in DOMAIN Tail(q) : i # j => Tail(q)[i].id # Tail(q)[j].id
  <2>1. ASSUME NEW i \in DOMAIN Tail(q), NEW j \in DOMAIN Tail(q), i # j
        PROVE Tail(q)[i].id # Tail(q)[j].id
    <3>1. i + 1 # j + 1 /\ i + 1 \in DOMAIN q /\ j + 1 \in DOMAIN q
      BY <1>3, <2>1
    <3>2. QED
      BY <1>3, <1>5, <3>1
  <2>2. QED
    BY <2>1
<1> HIDE DEF w, e
<1>8. Numbered(w, NoAction) /\ (e # NoAction => Numbered(w, e))
  BY <1>3, <1>4, <1>5, <1>6, <1>7 DEF Numbered
<1>9. /\ \A f \in In(q) \cup {NoAction} : f.kind = "run" => Accounted(Now, f)
      /\ \A o \in In(inbox.controller) :
           o.kind \in {"observation", "null"} =>
             o.cause < nextId /\ GivenUp(Now, NoAction, o.cause)
  BY <1>1 DEF Good, Outstanding
<1>10. Outstanding(w, NoAction) /\ Outstanding(w, e)
  BY <1>1, <1>3, <1>4, <1>9, NoActionIsPending DEF Outstanding, GivenUp, Accounted
<1>11. /\ \A f \in In(q) : f.kind = "run" => Approves(Now, f) /\ f.act <= Known
       /\ \A a \in executed : a <= Known /\ (a \in ctl.asked => a \in ctl.approved)
       /\ ctl.pending.act <= Known /\ \A a \in ctl.asked : a <= Known
  BY <1>1 DEF Good, Confirms
<1>12. Confirms(w, NoAction, executed, Known)
  BY <1>1, <1>3, <1>4, <1>11, NoActionIsPending DEF Confirms, Approves
<1>13. e.kind = "run" /\ e.conf \notin {"awaiting", "rejected"} =>
         Confirms(w, e, executed \cup {e.act}, Known)
  <2>1. e.conf \in {"none", "awaiting", "confirmed", "rejected"}
    BY <1>3 DEF Runnable, ConfStates
  <2>2. QED
    BY <1>1, <1>3, <1>4, <1>11, <2>1 DEF Confirms, Approves
<1>14. Limited(w, calls) /\ Adding(w.c, w.thread) /\ Bounded(w.thread, Known)
  BY <1>1, <1>4 DEF Good, Limited
<1>15. GivenUp(w, NoAction, e.id)
  BY <1>4, <1>6, NoActionIsPending DEF GivenUp
<1>16. e.id < w.next
  BY <1>3, <1>4, <1>5
<1>17. e.kind = "run" => e # NoAction
  BY NoActionIsPending
<1>18. QED
  BY <1>3, <1>4, <1>8, <1>10, <1>12, <1>13, <1>14, <1>15, <1>16, <1>17 DEF Good, w, e

\* Whatever the runtime does with what it takes, the invariant is kept.
LEMMA RuntimeTakesInv == ASSUME IInv, RuntimeTakes PROVE IInv'
<1> DEFINE w == Take("runtime")
           e == Head(inbox.runtime)
           o == Obs("observation", e.act, e.id)
<1>1. busy = NoAction /\ inbox.runtime # <<>> /\ UNCHANGED <<clearing, calls, errs, users>>
  BY DEF RuntimeTakes
<1>2. /\ calls \in Nat /\ Known \in Nat /\ Ran(NoAction, executed)
      /\ clearing' \in BOOLEAN /\ errs' \in Nat /\ users' \in 0 .. MaxUser /\ UNCHANGED calls
  BY <1>1, Calls
<1>3. /\ Good(w, NoAction, executed, Known, calls) /\ e \in Runnable /\ w.thread = thread
      /\ GivenUp(w, NoAction, e.id) /\ e.id < w.next
      /\ e.kind = "run" /\ e.conf \notin {"awaiting", "rejected"} =>
           Good(w, e, executed \cup {e.act}, Known, calls)
  BY <1>1, TakeRuntime
<1>4. \/ Post(w) /\ UNCHANGED <<busy, executed>>
      \/ Post(AddTo(w, "controller", o)) /\ UNCHANGED <<busy, executed>>
      \/ /\ e.kind = "run" /\ e.conf \notin {"awaiting", "rejected"} /\ Post(w)
         /\ busy' = e /\ executed' = executed \cup {e.act}
  BY DEF RuntimeTakes, Runs
<1>5. o \in Event /\ o.cause = e.id
  BY <1>3 DEF Runnable, Obs, Event
<1> HIDE DEF w, e, o
<1>6. CASE Post(w) /\ UNCHANGED <<busy, executed>>
  <2>1. Good(w, busy', executed', Known, calls) /\ Ran(busy', executed')
    BY <1>1, <1>2, <1>3, <1>6
  <2>2. QED
    BY <1>2, <1>3, <1>6, <2>1, Others
<1>7. CASE Post(AddTo(w, "controller", o)) /\ UNCHANGED <<busy, executed>>
  <2>1. /\ Good(AddTo(w, "controller", o), NoAction, executed, Known, calls)
        /\ AddTo(w, "controller", o).thread = w.thread
    BY <1>2, <1>3, <1>5, TellsGood, Tells DEF Good
  <2>2. Good(AddTo(w, "controller", o), busy', executed', Known, calls)
        /\ Ran(busy', executed')
    BY <1>1, <1>2, <1>7, <2>1
  <2>3. AddTo(w, "controller", o).thread = thread
    BY <1>3, <2>1
  <2>4. QED
    BY <1>2, <1>7, <2>2, <2>3, Others
<1>8. CASE /\ e.kind = "run" /\ e.conf \notin {"awaiting", "rejected"} /\ Post(w)
           /\ busy' = e /\ executed' = executed \cup {e.act}
  <2>1. Good(w, busy', executed', Known, calls)
    BY <1>1, <1>2, <1>3, <1>8
  <2>2. e \in Busy /\ e.id \in Nat \ {0} /\ e.act \in Nat
    BY <1>3 DEF Runnable, Busy
  <2>3. executed \subseteq Nat
    BY <1>2 DEF Ran
  <2>4. Ran(busy', executed')
    BY <1>8, <2>2, <2>3 DEF Ran
  <2>5. QED
    BY <1>2, <1>3, <1>8, <2>1, <2>4, Others
<1>9. QED
  BY <1>4, <1>6, <1>7, <1>8

\* The end of an execution, reported or answered, keeps the invariant.
LEMMA RuntimeEndsInv == ASSUME IInv, RuntimeEnds PROVE IInv'
<1> DEFINE o == Obs("observation", busy.act, busy.id)
<1>1. /\ busy # NoAction /\ busy' = NoAction /\ UNCHANGED <<clearing, calls, users, executed>>
      /\ \/ Post(AddTo(Now, "controller", o)) /\ UNCHANGED errs
         \/ errs' = errs + 1 /\ UNCHANGED <<ctl, inbox, nextId, thread>>
  BY DEF RuntimeEnds
<1>2. /\ calls \in Nat /\ Known \in Nat /\ errs \in Nat /\ Ran(busy, executed)
      /\ clearing' \in BOOLEAN /\ users' \in 0 .. MaxUser /\ UNCHANGED calls
      /\ Good(Now, busy, executed, Known, calls) /\ Now.thread = thread
  BY <1>1, Calls
<1>3. /\ busy \in Busy /\ busy.kind = "run" /\ busy.id \in Nat \ {0} /\ busy.act \in Nat
  BY <1>1, <1>2 DEF Ran, Busy
<1>4. Ran(NoAction, executed)
  BY <1>2, NoActionIsPending DEF Ran, Busy, Pending
<1>5. Good(Now, NoAction, executed, Known, calls)
  <2>1. Numbered(Now, NoAction)
    BY <1>2 DEF Good, Numbered
  <2>2. Outstanding(Now, NoAction)
    BY <1>2, NoActionIsPending DEF Good, Outstanding, GivenUp
  <2>3. Confirms(Now, NoAction, executed, Known)
    BY <1>2, NoActionIsPending DEF Good, Confirms
  <2>4. QED
    BY <1>2, <2>1, <2>2, <2>3 DEF Good
<1>6. GivenUp(Now, NoAction, busy.id) /\ busy.id < Now.next
  BY <1>1, <1>2, NoActionIsPending DEF Good, Numbered, GivenUp
<1>7. o \in Event /\ o.cause = busy.id
  BY <1>3 DEF Obs, Event
<1> HIDE DEF o
<1>8. CASE Post(AddTo(Now, "controller", o)) /\ UNCHANGED errs
  <2>1. /\ Good(AddTo(Now, "controller", o), NoAction, executed, Known, calls)
        /\ AddTo(Now, "controller", o).thread = thread
    BY <1>2, <1>5, <1>6, <1>7, TellsGood, Tells DEF Good
  <2>2. Good(AddTo(Now, "controller", o), busy', executed', Known, calls)
        /\ Ran(busy', executed') /\ errs' \in Nat
    BY <1>1, <1>2, <1>4, <1>8, <2>1
  <2>3. QED
    BY <1>2, <1>8, <2>1, <2>2, Others
<1>9. CASE errs' = errs + 1 /\ UNCHANGED <<ctl, inbox, nextId, thread>>
  <2>1. Post(Now)
    BY <1>9 DEF Post, Now
  <2>2. Good(Now, busy', executed', Known, calls) /\ Ran(busy', executed')
    BY <1>1, <1>2, <1>4, <1>5
  <2>3. errs' \in Nat
    BY <1>2, <1>9
  <2>4. QED
    BY <1>2, <2>1, <2>2, <2>3, Others
<1>10. QED
  BY <1>1, <1>8, <1>9

\* What memory took was not the runtime's.
LEMMA TakeMemory ==
  ASSUME IInv, inbox.memory # <<>>
  PROVE LET w == Take("memory")
            e == Head(inbox.memory) IN
        /\ Good(w, busy, executed, Known, calls) /\ e \in Recall
        /\ GivenUp(w, busy, e.id) /\ e.id < w.next /\ w.thread = thread
<1> DEFINE w == Take("memory")
           e == Head(inbox.memory)
<1>1. /\ Good(Now, busy, executed, Known, calls) /\ Now \in Work /\ Now.c = ctl
      /\ Now.inbox = inbox /\ Now.next = nextId /\ Now.thread = thread
  BY Calls
<1>2. inbox.memory \in Seq(Recall)
  BY <1>1, Parts
<1>3. /\ e \in In(inbox.memory) /\ e \in Recall
      /\ In(Tail(inbox.memory)) \subseteq In(inbox.memory)
  BY <1>2, QueueMembers
<1>4. /\ w \in Work /\ w.c = ctl /\ w.next = nextId /\ w.thread = thread
      /\ w.inbox.memory = Tail(inbox.memory)
      /\ w.inbox.runtime = inbox.runtime /\ w.inbox.controller = inbox.controller
  <2>1. Now.inbox["memory"] # <<>>
    BY <1>1
  <2>2. w = [Now EXCEPT !.inbox["memory"] = Tail(@)]
    BY DEF Take
  <2> HIDE DEF w
  <2>3. /\ w \in Work /\ w.c = Now.c /\ w.next = Now.next /\ w.thread = Now.thread
        /\ w.inbox["memory"] = Tail(Now.inbox["memory"])
        /\ \A x \in {"controller", "runtime", "memory"} \ {"memory"} : w.inbox[x] = Now.inbox[x]
    BY <1>1, <2>1, <2>2, Takes
  <2>4. QED
    BY <1>1, <2>3
<1> HIDE DEF w, e
<1>5. Numbered(w, busy)
  BY <1>1, <1>3, <1>4 DEF Good, Numbered
<1>6. Outstanding(w, busy)
  BY <1>1, <1>4 DEF Good, Outstanding, GivenUp, Accounted
<1>7. /\ Confirms(w, busy, executed, Known) /\ Limited(w, calls)
      /\ Adding(w.c, w.thread) /\ Bounded(w.thread, Known)
  BY <1>1, <1>4 DEF Good, Confirms, Approves, Limited
<1>8. e.id < w.next
  BY <1>1, <1>3, <1>4 DEF Good, Numbered
<1>9. GivenUp(w, busy, e.id)
  BY <1>1, <1>3, <1>4, NoActionIsPending DEF Good, Numbered, GivenUp
<1>10. QED
  BY <1>3, <1>4, <1>5, <1>6, <1>7, <1>8, <1>9 DEF Good, w, e

\* Whatever memory answers, the invariant is kept.
LEMMA MemoryRecallsInv == ASSUME IInv, MemoryRecalls PROVE IInv'
<1> DEFINE w == Take("memory")
           e == Head(inbox.memory)
<1>1. inbox.memory # <<>> /\ UNCHANGED <<clearing, calls, busy, users, executed>>
  BY DEF MemoryRecalls
<1>2. /\ calls \in Nat /\ Known \in Nat /\ Ran(busy, executed) /\ errs \in Nat
      /\ clearing' \in BOOLEAN /\ users' \in 0 .. MaxUser /\ UNCHANGED calls
  BY <1>1, Calls
<1>3. /\ Good(w, busy, executed, Known, calls) /\ e \in Recall /\ w.thread = thread
      /\ GivenUp(w, busy, e.id) /\ e.id < w.next
  BY <1>1, TakeMemory
<1>4. \/ \E kind \in {"observation", "null"} :
           Post(AddTo(w, "controller", Obs(kind, 0, e.id))) /\ UNCHANGED errs
      \/ Post(w) /\ errs' = errs + 1
  BY DEF MemoryRecalls
<1> HIDE DEF w, e
<1>5. ASSUME NEW kind \in {"observation", "null"},
             Post(AddTo(w, "controller", Obs(kind, 0, e.id))), UNCHANGED errs
      PROVE IInv'
  <2> DEFINE o == Obs(kind, 0, e.id)
  <2>1. o \in Event /\ o.cause = e.id
    BY <1>3 DEF Recall, Obs, Event
  <2> HIDE DEF o
  <2>2. /\ Good(AddTo(w, "controller", o), busy, executed, Known, calls)
        /\ AddTo(w, "controller", o).thread = thread
    BY <1>2, <1>3, <2>1, TellsGood, Tells DEF Good
  <2>3. Good(AddTo(w, "controller", o), busy', executed', Known, calls)
        /\ Ran(busy', executed') /\ errs' \in Nat
    BY <1>1, <1>2, <1>5, <2>2
  <2>4. Post(AddTo(w, "controller", o))
    BY <1>5 DEF o
  <2>5. QED
    BY <1>2, <2>2, <2>3, <2>4, Others
<1>6. CASE Post(w) /\ errs' = errs + 1
  <2>1. Good(w, busy', executed', Known, calls) /\ Ran(busy', executed') /\ errs' \in Nat
    BY <1>1, <1>2, <1>3, <1>6
  <2>2. QED
    BY <1>2, <1>3, <1>6, <2>1, Others
<1>7. QED
  BY <1>4, <1>5, <1>6

\* An error message that the main loop handles keeps the invariant: the reset
\* begins, and nothing is answered but what is given up.
LEMMA StatusErrorInv == ASSUME IInv, StatusError PROVE IInv'
<1> DEFINE u == EnterState(Now, Error)
           v == IF ctl.state = Error THEN Now ELSE BeginReset(u)
<1>1. /\ errs > 0 /\ errs' = errs - 1 /\ Post(v)
      /\ clearing' \in {clearing, TRUE}
      /\ UNCHANGED <<calls, busy, users, executed>>
  BY DEF StatusError, StatusQueued
<1>2. /\ calls \in Nat /\ Known \in Nat /\ errs \in Nat /\ Ran(busy, executed)
      /\ clearing \in BOOLEAN /\ users' \in 0 .. MaxUser /\ UNCHANGED calls
      /\ Good(Now, busy, executed, Known, calls) /\ Now.thread = thread
  BY <1>1, Calls
<1>3. Good(u, busy, executed, Known, calls) /\ u.thread = thread
  BY <1>2, EnterStateGood, States
<1> HIDE DEF u
<1>4. Good(BeginReset(u), busy, executed, Known, calls) /\ BeginReset(u).thread = thread
  BY <1>2, <1>3, BeginResetGood
<1>5. Good(v, busy, executed, Known, calls) /\ v.thread = thread
  BY <1>2, <1>4
<1> HIDE DEF v
<1>6. errs' \in Nat
  BY <1>1, <1>2
<1>7. Good(v, busy', executed', Known, calls) /\ Ran(busy', executed') /\ clearing' \in BOOLEAN
  BY <1>1, <1>2, <1>5
<1>8. QED
  BY <1>1, <1>2, <1>5, <1>6, <1>7, Others

\* The end of that reset gives up what is pending by then.
LEMMA ResetEndsInv == ASSUME IInv, ResetEnds PROVE IInv'
<1>1. clearing' = FALSE /\ Post(GiveUp(Now)) /\ UNCHANGED <<calls, busy, errs, users, executed>>
  BY DEF ResetEnds
<1>2. /\ calls \in Nat /\ Known \in Nat /\ errs' \in Nat /\ Ran(busy, executed)
      /\ clearing' \in BOOLEAN /\ users' \in 0 .. MaxUser /\ UNCHANGED calls
      /\ Good(Now, busy, executed, Known, calls) /\ Now.thread = thread
  BY <1>1, Calls
<1>3. Good(GiveUp(Now), busy, executed, Known, calls) /\ GiveUp(Now).thread = thread
  BY <1>2, GiveUpGood
<1>4. Good(GiveUp(Now), busy', executed', Known, calls) /\ Ran(busy', executed')
  BY <1>1, <1>2, <1>3
<1>5. QED
  BY <1>1, <1>2, <1>3, <1>4, Others

\* What a client sends keeps the invariant.
LEMMA ClientSendsInv == ASSUME IInv, ClientSends PROVE IInv'
<1>1. /\ users < MaxUser /\ users' = users + 1
      /\ UNCHANGED <<clearing, calls, busy, errs, executed>>
      /\ \E e \in {[kind |-> "message"]} \cup {[kind |-> "change", state |-> st] : st \in UserStates} :
           Post(AddTo(Now, "controller", e))
  BY DEF ClientSends
<1>2. PICK e \in {[kind |-> "message"]} \cup {[kind |-> "change", state |-> st] : st \in UserStates} :
        Post(AddTo(Now, "controller", e))
  BY <1>1
<1>3. /\ calls \in Nat /\ Known \in Nat /\ errs' \in Nat /\ Ran(busy, executed)
      /\ clearing' \in BOOLEAN /\ users \in 0 .. MaxUser /\ UNCHANGED calls
      /\ Good(Now, busy, executed, Known, calls) /\ Now.thread = thread
  BY <1>1, Calls
<1>4. e \in Event /\ e.kind \notin {"observation", "null"}
  BY <1>2, UserStatesOK DEF Event
<1>5. /\ Good(AddTo(Now, "controller", e), busy, executed, Known, calls)
      /\ AddTo(Now, "controller", e).thread = thread
  BY <1>3, <1>4, TellsGood, Tells DEF Good
<1>6. /\ Good(AddTo(Now, "controller", e), busy', executed', Known, calls)
      /\ Ran(busy', executed')
  BY <1>1, <1>3, <1>5
<1>7. users' \in 0 .. MaxUser
  BY <1>1, <1>3, MaxUserOK
<1>8. QED
  BY <1>2, <1>3, <1>5, <1>6, <1>7, Others

\* The controller starts with nothing pending, asked or called.
LEMMA InitInv == Init => IInv
<1> SUFFICES ASSUME Init PROVE IInv
  OBVIOUS
<1>1. /\ ctl.pending = NoAction /\ ctl.iter = 0 /\ ctl.max = IterationDelta
      /\ ctl.abandoned = {} /\ ctl.asked = {} /\ ctl.approved = {}
      /\ inbox.controller = <<>> /\ inbox.runtime = <<>> /\ inbox.memory = <<>>
      /\ nextId = 1 /\ busy = NoAction /\ executed = {} /\ calls = 0 /\ thread = Idle
      /\ ctl.unnamed = {} /\ clearing = FALSE
      /\ errs = 0 /\ users = 0
  BY DEF Init
<1>2. ctl \in Ctl
  BY IterationsOK, NoActionIsPending DEF Init, Ctl, AgentStates
<1>3. inbox \in Queues
  BY DEF Init, Queues
<1>4. Now \in Work /\ Now.c = ctl /\ Now.inbox = inbox /\ Now.next = nextId
      /\ Now.thread = thread
  BY <1>1, <1>2, <1>3, Places, NoActionIsPending DEF Now, Work, Idle
<1>5. /\ In(inbox.controller) = {} /\ In(inbox.runtime) = {} /\ In(inbox.memory) = {}
      /\ DOMAIN inbox.runtime = {}
  BY <1>1 DEF In
<1>6. Numbered(Now, busy)
  BY <1>1, <1>4, <1>5 DEF Numbered
<1>7. Outstanding(Now, busy)
  BY <1>1, <1>4, <1>5, NoActionIsPending DEF Outstanding
<1>8. Known = 0
  BY <1>1, IdleIs DEF Known
<1>9. Confirms(Now, busy, executed, Known)
  BY <1>1, <1>4, <1>5, <1>8, NoActionIsPending DEF Confirms
<1>10. Limited(Now, calls)
  BY <1>1, <1>4, IterationsOK DEF Limited
<1>11. Ran(busy, executed)
  BY <1>1, NoActionIsPending DEF Ran, Busy, Pending
<1>12. Adding(Now.c, Now.thread) /\ Bounded(Now.thread, Known)
  BY <1>1, <1>4, <1>8, IdleIs, NoActionIsPending DEF Adding, Bounded
<1>13. Good(Now, busy, executed, Known, calls)
  BY <1>4, <1>6, <1>7, <1>9, <1>10, <1>12 DEF Good
<1>14. calls \in Nat /\ errs \in Nat /\ users \in 0 .. MaxUser
  BY <1>1, MaxUserOK
<1>15. clearing \in BOOLEAN /\ thread.at # "llm"
  BY <1>1, IdleIs
<1>16. QED
  BY <1>11, <1>13, <1>14, <1>15 DEF IInv

\* Every step keeps the invariant.
LEMMA NextInv == IInv /\ [Next]_vars => IInv'
<1> SUFFICES ASSUME IInv, [Next]_vars PROVE IInv'
  OBVIOUS
<1>1. CASE UNCHANGED vars
  <2>1. /\ Post(Now) /\ UNCHANGED <<clearing, calls, busy, errs, users, executed>>
    BY <1>1 DEF vars, Post, Now
  <2>2. /\ Good(Now, busy', executed', Known, calls) /\ Ran(busy', executed')
        /\ Now.thread = thread /\ UNCHANGED calls
        /\ clearing' \in BOOLEAN /\ errs' \in Nat /\ users' \in 0 .. MaxUser
    BY <2>1, Calls
  <2>3. QED
    BY <2>1, <2>2, Others
<1>2. CASE Controller
  BY <1>2, OnEventInv, AddRecallInv, AddReissuedInv, StepInv, StepReturnsInv, AskInv,
     AddProposedInv DEF Controller
<1>3. QED
  BY <1>1, <1>2, RuntimeTakesInv, RuntimeEndsInv, MemoryRecallsInv, StatusErrorInv,
     ResetEndsInv, ClientSendsInv DEF Next

----------------------------------------------------------------------------
(* Theorems                                                                *)

\* In every reachable state the controller and its queues are good.
THEOREM Invariant == Spec => []IInv
  BY InitInv, NextInv, PTL DEF Spec

\* The variables keep their shape, whatever the events and their order.
THEOREM TypeCorrect == Spec => []TypeOK
<1>1. ASSUME IInv PROVE TypeOK
  <2>1. /\ Now \in Work /\ Now.c = ctl /\ Now.next = nextId
        /\ calls \in Nat /\ clearing \in BOOLEAN /\ errs \in Nat /\ users \in 0 .. MaxUser
        /\ Ran(busy, executed) /\ Now.thread = thread
    BY <1>1, Calls
  <2>2. ctl \in Ctl /\ nextId \in Nat /\ thread \in Threads
    BY <2>1, Parts
  <2>3. busy \in Busy /\ executed \subseteq Nat
    BY <2>1 DEF Ran
  <2>4. QED
    BY <2>1, <2>2, <2>3 DEF TypeOK, Ctl, Busy, Threads
<1>2. QED
  BY <1>1, Invariant, PTL

\* Whatever is confirmed, rejected, interrupted or lost meanwhile, an action that
\* was put to the user runs only if that very action was confirmed.
THEOREM ConfirmedBeforeRun == Spec => []OnlyConfirmedRuns
<1>1. ASSUME IInv PROVE OnlyConfirmedRuns
  <2>1. Good(Now, busy, executed, Known, calls) /\ Now.c = ctl
    BY <1>1, Calls
  <2>2. QED
    BY <2>1 DEF Good, Confirms, OnlyConfirmedRuns
<1>2. QED
  BY <1>1, Invariant, PTL

\* What the runtime holds is the pending action or one that was given up, by its
\* id or, before it had one, by its call.
THEOREM HeldIsAccounted == Spec => []OneOutstanding
<1>1. ASSUME IInv PROVE OneOutstanding
  <2>1. /\ Good(Now, busy, executed, Known, calls)
        /\ Now.c = ctl /\ Now.inbox = inbox
    BY <1>1, Calls
  <2>2. \A e \in In(inbox.runtime) \cup {busy} : e.kind = "run" => Accounted(Now, e)
    BY <2>1 DEF Good, Outstanding
  <2>3. InRuntime \subseteq In(inbox.runtime) \cup {busy} /\ \A e \in InRuntime : e.kind = "run"
    BY DEF InRuntime, In
  <2>4. QED
    BY <2>1, <2>2, <2>3 DEF OneOutstanding, Accounted
<1>2. QED
  BY <1>1, Invariant, PTL

\* A headless run ends at its limit: nobody and nothing raises it.
THEOREM HeadlessEnds == Spec => []CallsBounded
<1>1. ASSUME IInv PROVE CallsBounded
  <2>1. Good(Now, busy, executed, Known, calls)
    BY <1>1, Calls
  <2>2. Now.c.iter = calls /\ (Headless => Now.c.max = IterationDelta /\ Now.c.iter <= Now.c.max)
    BY <2>1 DEF Good, Limited
  <2>3. QED
    BY <2>2 DEF CallsBounded
<1>2. QED
  BY <1>1, Invariant, PTL
===============================================================================
