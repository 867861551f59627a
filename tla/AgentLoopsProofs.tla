---------------------------- MODULE AgentLoopsProofs ----------------------------
(***************************************************************************)
(* Proofs about AgentLoops for any conversations, connections, requests,   *)
(* cleanup tasks and limit: its types, that a loop which can be found is   *)
(* open, that no session is closed twice, and how far the limit is passed. *)
(***************************************************************************)
EXTENDS AgentLoops, TLAPS, FiniteSetTheorems

Session == [sid : Sids, life : {"open", "closing", "closed"}]
Job == [pc : {"idle", "evict", "selected", "disconnect", "closing"},
        sid : Sids \cup {Nobody}, victims : SUBSET Sids,
        target : Sids \cup {Nobody}, todo : SUBSET Conns, mine : Nat]
Conn == [Conns -> Sids \cup {"new", "gone"}]

\* A job and the sessions S: a session that is being closed is not open.
JobOK(job, S) ==
  /\ job.mine \in 0 .. Len(S)
  /\ job.pc = "idle" => job = Idle
  /\ job.pc \in {"selected", "disconnect"} => job.target \in Sids
  /\ job.pc = "closing" => job.mine # 0 /\ S[job.mine].life # "open"
Registered(L, S) ==
  \A s \in Sids : L[s] # 0 => S[L[s]] = [sid |-> s, life |-> "open"]
Apart(T) ==
  \A t, u \in Tasks :
    T[t].pc = "closing" /\ T[u].pc = "closing" /\ t # u => T[t].mine # T[u].mine

Good(L, S, T) ==
  /\ S \in Seq(Session) /\ L \in [Sids -> 0 .. Len(S)] /\ T \in [Tasks -> Job]
  /\ \A t \in Tasks : JobOK(T[t], S)
  /\ Registered(L, S) /\ Apart(T)
IInv == Good(loops, sess, task) /\ conn \in Conn

\* A task with nothing to do.
LEMMA IdleOK == Idle \in Job /\ \A S \in Seq(Session) : JobOK(Idle, S)
<1>1. Idle \in Job
  BY DEF Idle, Job
<1>2. ASSUME NEW S \in Seq(Session) PROVE JobOK(Idle, S)
  BY DEF Idle, JobOK
<1>3. QED
  BY <1>1, <1>2

\* The initial state satisfies the inductive invariant.
LEMMA InitInv == Init => IInv
<1> SUFFICES ASSUME Init PROVE IInv
  OBVIOUS
<1>1. sess \in Seq(Session) /\ sess = <<>> /\ Len(sess) = 0
  BY DEF Init
<1>2. loops \in [Sids -> 0 .. Len(sess)] /\ Registered(loops, sess)
  BY <1>1 DEF Init, Registered
<1>3. task \in [Tasks -> Job] /\ \A t \in Tasks : task[t] = Idle
  BY IdleOK DEF Init
<1>4. Idle.pc = "idle"
  BY DEF Idle
<1>5. Apart(task)
  BY <1>3, <1>4 DEF Apart
<1>6. conn \in Conn
  BY DEF Init, Conn
<1>7. QED
  BY <1>1, <1>2, <1>3, <1>5, <1>6, IdleOK DEF IInv, Good

----------------------------------------------------------------------------
(* How a state may change                                                  *)

\* A task takes up a job that does not close anything.
LEMMA TakesUp ==
  ASSUME NEW L, NEW S, NEW T, Good(L, S, T), NEW t \in Tasks, NEW job \in Job,
         JobOK(job, S), job.pc # "closing"
  PROVE Good(L, S, [T EXCEPT ![t] = job])
<1> DEFINE U == [T EXCEPT ![t] = job]
<1>1. /\ U \in [Tasks -> Job] /\ U[t] = job
      /\ \A u \in Tasks \ {t} : U[u] = T[u]
  BY DEF Good
<1>2. \A u \in Tasks : JobOK(U[u], S)
  BY <1>1 DEF Good
<1>3. Apart(U)
  BY <1>1 DEF Good, Apart
<1>4. QED
  BY <1>1, <1>2, <1>3 DEF Good

\* A session is made and registered, whatever was registered before.
LEMMA Makes ==
  ASSUME NEW L, NEW S, NEW T, Good(L, S, T), NEW s \in Sids
  PROVE Good([L EXCEPT ![s] = Len(S) + 1],
             Append(S, [sid |-> s, life |-> "open"]), T)
<1> DEFINE new == [sid |-> s, life |-> "open"]
           Q == Append(S, new)
           M == [L EXCEPT ![s] = Len(S) + 1]
<1>1. new \in Session /\ S \in Seq(Session)
  BY DEF Session, Good
<1>2. /\ Q \in Seq(Session) /\ Len(Q) = Len(S) + 1 /\ Q[Len(S) + 1] = new
      /\ \A i \in 1 .. Len(S) : Q[i] = S[i]
  BY <1>1
<1>3. Len(S) \in Nat
  BY <1>1
<1>4. L \in [Sids -> 0 .. Len(S)] /\ Len(S) + 1 \in 0 .. Len(Q)
  BY <1>2, <1>3 DEF Good
<1>5. \A r \in Sids : L[r] \in 0 .. Len(Q)
  BY <1>2, <1>3, <1>4
<1>6. /\ M \in [Sids -> 0 .. Len(Q)] /\ M[s] = Len(S) + 1
      /\ \A r \in Sids \ {s} : M[r] = L[r]
  BY <1>4, <1>5
<1>7. Registered(M, Q)
  <2> SUFFICES ASSUME NEW r \in Sids, M[r] # 0
               PROVE Q[M[r]] = [sid |-> r, life |-> "open"]
    BY DEF Registered
  <2>1. CASE r = s
    BY <1>2, <1>6, <2>1
  <2>2. CASE r # s
    <3>1. L[r] \in 1 .. Len(S) /\ M[r] = L[r]
      BY <1>3, <1>4, <1>6, <2>2
    <3>2. S[L[r]] = [sid |-> r, life |-> "open"]
      BY <3>1 DEF Good, Registered
    <3>3. QED
      BY <1>2, <3>1, <3>2
  <2>3. QED
    BY <2>1, <2>2
<1>8. ASSUME NEW t \in Tasks PROVE JobOK(T[t], Q)
  <2>1. JobOK(T[t], S)
    BY DEF Good
  <2>2. T[t].mine \in 0 .. Len(Q)
    BY <1>2, <1>3, <2>1 DEF JobOK
  <2>3. T[t].pc = "closing" => T[t].mine # 0 /\ Q[T[t].mine].life # "open"
    <3>1. SUFFICES ASSUME T[t].pc = "closing"
                   PROVE T[t].mine # 0 /\ Q[T[t].mine].life # "open"
      OBVIOUS
    <3>2. T[t].mine # 0 /\ T[t].mine \in 0 .. Len(S) /\ S[T[t].mine].life # "open"
      BY <2>1, <3>1 DEF JobOK
    <3>3. T[t].mine \in 1 .. Len(S)
      BY <1>3, <3>2
    <3>4. QED
      BY <1>2, <3>2, <3>3
  <2>4. QED
    BY <2>1, <2>2, <2>3 DEF JobOK
<1>9. QED
  BY <1>2, <1>6, <1>7, <1>8 DEF Good

\* What a task does when it is through with an await.
LEMMA Proceeds ==
  ASSUME NEW L, NEW S, Good(L, S, task), NEW t \in Tasks, NEW job \in Job,
         Proceed(t, job, S, L)
  PROVE Good(loops, sess, task)'
<1> DEFINE makes == job.sid # Nobody /\ job.victims = {}
<1>1. Rest(job) \in Job /\ Rest(job).pc # "closing" /\ JobOK(Rest(job), S)
  <2>1. CASE job.victims = {}
    <3>1. Rest(job) = Idle /\ S \in Seq(Session)
      BY <2>1 DEF Rest, Good
    <3>2. Idle.pc # "closing"
      BY DEF Idle
    <3>3. QED
      BY <3>1, <3>2, IdleOK
  <2>2. CASE job.victims # {}
    <3>1. Rest(job) = [pc |-> "evict", sid |-> job.sid, victims |-> job.victims,
                       target |-> Nobody, todo |-> {}, mine |-> 0]
      BY <2>2 DEF Rest, Idle
    <3>2. Len(S) \in Nat
      BY DEF Good
    <3>3. QED
      BY <3>1, <3>2 DEF Job, JobOK
  <2>3. QED
    BY <2>1, <2>2
<1>2. Good(L, S, task')
  BY <1>1, TakesUp DEF Proceed
<1>3. CASE makes
  <2>1. /\ job.sid \in Sids /\ sess' = Append(S, [sid |-> job.sid, life |-> "open"])
        /\ loops' = [L EXCEPT ![job.sid] = Len(S) + 1]
    BY <1>3 DEF Proceed, Job
  <2>2. QED
    BY <1>2, <2>1, Makes
<1>4. CASE ~makes
  BY <1>2, <1>4 DEF Proceed
<1>5. QED
  BY <1>3, <1>4

\* The session of a conversation leaves the loops, for one task to close.
LEMMA PopInv ==
  ASSUME IInv, NEW t \in Tasks, NEW job \in Job, job.target \in Sids,
         NEW C \in Conn, PopSession(t, job, C)
  PROVE IInv'
<1> DEFINE n == loops[job.target]
           mineJob == [job EXCEPT !.pc = "closing", !.mine = n, !.todo = {}]
<1>1. conn' \in Conn
  BY DEF PopSession
<1>2. CASE n = 0
  <2>1. Good(loops, sess, task)'
    BY <1>2, Proceeds DEF PopSession, IInv
  <2>2. QED
    BY <1>1, <2>1 DEF IInv
<1>3. CASE n # 0
  <2>1. /\ loops' = [loops EXCEPT ![job.target] = 0]
        /\ sess' = [sess EXCEPT ![n].life = "closing"]
        /\ task' = [task EXCEPT ![t] = mineJob]
    BY <1>3 DEF PopSession, Popped
  <2>2. /\ sess \in Seq(Session) /\ Len(sess) \in Nat /\ task \in [Tasks -> Job]
        /\ loops \in [Sids -> 0 .. Len(sess)]
    BY DEF IInv, Good
  <2>3. n \in 1 .. Len(sess) /\ sess[n] = [sid |-> job.target, life |-> "open"]
    BY <1>3, <2>2 DEF IInv, Good, Registered
  <2>4. /\ sess' \in Seq(Session) /\ Len(sess') = Len(sess)
        /\ sess'[n].life = "closing"
        /\ \A i \in 1 .. Len(sess) : i # n => sess'[i] = sess[i]
    BY <2>1, <2>2, <2>3 DEF Session
  <2>5. mineJob \in Job /\ mineJob.pc = "closing" /\ mineJob.mine = n
    <3>1. n \in Nat
      BY <2>2, <2>3
    <3>2. mineJob \in Job
      BY <3>1 DEF Job
    <3>3. mineJob.pc = "closing" /\ mineJob.mine = n
      BY <3>1 DEF Job
    <3>4. QED
      BY <3>2, <3>3
  <2>6. /\ task' \in [Tasks -> Job] /\ task'[t] = mineJob
        /\ \A u \in Tasks \ {t} : task'[u] = task[u]
    BY <2>1, <2>2, <2>5
  <2>7. /\ loops' \in [Sids -> 0 .. Len(sess')] /\ loops'[job.target] = 0
        /\ \A s \in Sids \ {job.target} : loops'[s] = loops[s]
    BY <2>1, <2>2, <2>4
  <2>8. Registered(loops', sess')
    <3> SUFFICES ASSUME NEW s \in Sids, loops'[s] # 0
                 PROVE sess'[loops'[s]] = [sid |-> s, life |-> "open"]
      BY DEF Registered
    <3>1. s # job.target /\ loops'[s] = loops[s]
      BY <2>7
    <3>2. loops[s] \in 1 .. Len(sess) /\ sess[loops[s]] = [sid |-> s, life |-> "open"]
      BY <2>2, <3>1 DEF IInv, Good, Registered
    <3>3. loops[s] # n
      BY <2>3, <3>1, <3>2
    <3>4. QED
      BY <2>4, <3>1, <3>2, <3>3
  <2>9. ASSUME NEW u \in Tasks, u # t, task[u].pc = "closing"
        PROVE /\ task[u].mine \in 1 .. Len(sess) /\ task[u].mine # n
              /\ sess'[task[u].mine].life # "open"
    <3>1. JobOK(task[u], sess)
      BY DEF IInv, Good
    <3>2. task[u].mine \in 1 .. Len(sess) /\ sess[task[u].mine].life # "open"
      BY <2>2, <2>9, <3>1 DEF JobOK
    <3>3. task[u].mine # n
      BY <2>3, <3>2
    <3>4. QED
      BY <2>4, <3>2, <3>3
  <2>10. ASSUME NEW u \in Tasks PROVE JobOK(task'[u], sess')
    <3>1. CASE u = t
      <4>1. task'[u].pc = "closing" /\ task'[u].mine = n
        BY <2>5, <2>6, <3>1
      <4>2. n # 0 /\ n \in 0 .. Len(sess')
        BY <2>2, <2>3, <2>4
      <4>3. QED
        BY <2>4, <4>1, <4>2 DEF JobOK
    <3>2. CASE u # t
      <4>1. JobOK(task[u], sess) /\ task'[u] = task[u]
        BY <2>6, <3>2 DEF IInv, Good
      <4>2. QED
        BY <2>4, <2>9, <3>2, <4>1 DEF JobOK
    <3>3. QED
      BY <3>1, <3>2
  <2>11. Apart(task')
    <3>1. \A u \in Tasks : u # t /\ task'[u].pc = "closing" =>
            task'[u].mine # n /\ task[u].pc = "closing" /\ task'[u] = task[u]
      BY <2>6, <2>9
    <3>2. Apart(task)
      BY DEF IInv, Good
    <3>3. task'[t].mine = n
      BY <2>5, <2>6
    <3>4. QED
      BY <3>1, <3>2, <3>3 DEF Apart
  <2>12. QED
    BY <1>1, <2>4, <2>6, <2>7, <2>8, <2>10, <2>11 DEF IInv, Good
<1>4. QED
  BY <1>2, <1>3

\* The beginning of a close keeps the invariant.
LEMMA BeginCloseInv ==
  ASSUME IInv, NEW t \in Tasks, NEW job \in Job, job.mine \in 0 .. Len(sess),
         NEW s \in Sids, BeginClose(t, job, s)
  PROVE IInv'
<1>1. CASE Joined(s) = {}
  <2>1. [job EXCEPT !.target = s] \in Job /\ [job EXCEPT !.target = s].target = s
    BY DEF Job
  <2>2. PopSession(t, [job EXCEPT !.target = s], conn) /\ conn \in Conn
    BY <1>1 DEF BeginClose, IInv
  <2>3. QED
    BY <2>1, <2>2, PopInv
<1>2. CASE Joined(s) # {}
  <2> DEFINE new == [job EXCEPT !.pc = "disconnect", !.target = s, !.todo = Joined(s)]
  <2>1. new \in Job /\ new.pc = "disconnect" /\ new.target = s
        /\ new.mine = job.mine
    BY DEF Job, Joined
  <2>2. JobOK(new, sess)
    BY <2>1 DEF JobOK
  <2>3. Good(loops, sess, [task EXCEPT ![t] = new])
    BY <2>1, <2>2, TakesUp DEF IInv
  <2>4. QED
    BY <1>2, <2>3 DEF BeginClose, IInv
<1>3. QED
  BY <1>1, <1>2

----------------------------------------------------------------------------
(* Actions                                                                 *)

\* A start keeps the invariant.
LEMMA MaybeStartInv ==
  ASSUME IInv, NEW t \in Tasks, NEW s \in Sids, MaybeStart(t, s), conn' \in Conn
  PROVE IInv'
<1>1. CASE UNCHANGED <<loops, sess, task>>
  BY <1>1 DEF IInv
<1>2. CASE /\ sess' = Append(sess, [sid |-> s, life |-> "open"])
           /\ loops' = [loops EXCEPT ![s] = Len(sess) + 1] /\ UNCHANGED task
  BY <1>2, Makes DEF IInv
<1>3. CASE /\ \E V \in Evictions : task' =
                [task EXCEPT ![t] = [Idle EXCEPT !.pc = "evict", !.sid = s, !.victims = V]]
           /\ UNCHANGED <<loops, sess>>
  <2>1. PICK V \in Evictions : task' =
          [task EXCEPT ![t] = [Idle EXCEPT !.pc = "evict", !.sid = s, !.victims = V]]
    BY <1>3
  <2> DEFINE new == [Idle EXCEPT !.pc = "evict", !.sid = s, !.victims = V]
  <2>2. V \subseteq Sids
    BY DEF Evictions, Running
  <2>3. new \in Job
    BY <2>2, IdleOK DEF Job
  <2>4. new.pc = "evict" /\ new.mine = 0 /\ Len(sess) \in Nat
    BY DEF Idle, IInv, Good
  <2>5. JobOK(new, sess)
    BY <2>4 DEF JobOK
  <2>6. Good(loops, sess, [task EXCEPT ![t] = new])
    BY <2>3, <2>4, <2>5, TakesUp DEF IInv
  <2>7. QED
    BY <1>3, <2>1, <2>6 DEF IInv
<1>4. QED
  BY <1>1, <1>2, <1>3 DEF MaybeStart

\* A client that joins, or a request that stops, keeps the invariant.
LEMMA JoinInv ==
  ASSUME IInv, NEW t \in Tasks, NEW s \in Sids, NEW c \in Conns, Join(t, c, s)
  PROVE IInv'
<1>1. conn' \in Conn
  BY DEF Join, IInv, Conn
<1>2. QED
  BY <1>1, MaybeStartInv DEF Join
LEMMA StopInv ==
  ASSUME IInv, NEW t \in Tasks, NEW s \in Sids, Stop(t, s) PROVE IInv'
<1>1. Idle.mine \in 0 .. Len(sess)
  BY IdleOK DEF JobOK, IInv, Good
<1>2. QED
  BY <1>1, IdleOK, BeginCloseInv DEF Stop

\* Selecting a loop for the cleanup, and giving up on it, keep the invariant.
LEMMA SelectInv ==
  ASSUME IInv, NEW t \in Tasks, NEW s \in Sids, Select(t, s) PROVE IInv'
<1> DEFINE new == [Idle EXCEPT !.pc = "selected", !.target = s]
<1>1. new \in Job
  BY IdleOK DEF Job
<1>2. new.pc = "selected" /\ new.target = s /\ new.mine = 0 /\ Len(sess) \in Nat
  BY DEF Idle, IInv, Good
<1>3. JobOK(new, sess)
  BY <1>2 DEF JobOK
<1>4. Good(loops, sess, [task EXCEPT ![t] = new])
  BY <1>1, <1>2, <1>3, TakesUp DEF IInv
<1>5. QED
  BY <1>4 DEF Select, IInv
LEMMA GiveUpInv ==
  ASSUME IInv, NEW t \in Tasks, GiveUp(t) PROVE IInv'
<1>1. Idle \in Job /\ Idle.pc # "closing"
  BY IdleOK DEF Idle
<1>2. JobOK(Idle, sess)
  BY IdleOK DEF IInv, Good
<1>3. Good(loops, sess, [task EXCEPT ![t] = Idle])
  BY <1>1, <1>2, TakesUp DEF IInv
<1>4. QED
  BY <1>3 DEF GiveUp, IInv

\* A task that goes on with a close, or with the next one, keeps the invariant.
LEMMA WorkInv ==
  ASSUME IInv, NEW t \in Tasks, Work(t) PROVE IInv'
<1>1. /\ task[t] \in Job /\ JobOK(task[t], sess) /\ Good(loops, sess, task)
      /\ task[t].mine \in 0 .. Len(sess)
  BY DEF IInv, Good, JobOK
<1>2. CASE Evict(t)
  <2>1. PICK v \in task[t].victims :
          LET job == [task[t] EXCEPT !.victims = @ \ {v}] IN
          IF loops[v] # 0
          THEN BeginClose(t, job, v)
          ELSE Proceed(t, job, sess, loops) /\ UNCHANGED conn
    BY <1>2 DEF Evict
  <2> DEFINE job == [task[t] EXCEPT !.victims = @ \ {v}]
  <2>2. v \in Sids /\ job \in Job /\ job.mine = task[t].mine
    BY <1>1 DEF Job
  <2>3. CASE loops[v] # 0
    <3>1. BeginClose(t, job, v) /\ job.mine \in 0 .. Len(sess)
      BY <1>1, <2>1, <2>2, <2>3
    <3>2. QED
      BY <2>2, <3>1, BeginCloseInv
  <2>4. CASE loops[v] = 0
    <3>1. Proceed(t, job, sess, loops) /\ UNCHANGED conn
      BY <2>1, <2>4
    <3>2. QED
      BY <1>1, <2>2, <3>1, Proceeds DEF IInv
  <2>5. QED
    BY <2>3, <2>4
<1>3. CASE Disconnect(t)
  <2>1. task[t].target \in Sids
    BY <1>1, <1>3 DEF Disconnect, JobOK
  <2>2. PICK c \in task[t].todo :
          LET job == [task[t] EXCEPT !.todo = @ \ {c}]
              C == [conn EXCEPT ![c] = "gone"] IN
          IF job.todo = {}
          THEN PopSession(t, job, C)
          ELSE /\ conn' = C /\ task' = [task EXCEPT ![t] = job]
               /\ UNCHANGED <<loops, sess>>
    BY <1>3 DEF Disconnect
  <2> DEFINE job == [task[t] EXCEPT !.todo = @ \ {c}]
             C == [conn EXCEPT ![c] = "gone"]
  <2>3. /\ job \in Job /\ job.target = task[t].target /\ job.mine = task[t].mine
        /\ job.pc = "disconnect"
    BY <1>1, <1>3 DEF Job, Disconnect
  <2>4. C \in Conn
    BY DEF IInv, Conn
  <2>5. CASE job.todo = {}
    <3>1. PopSession(t, job, C)
      BY <2>2, <2>5
    <3>2. QED
      BY <2>1, <2>3, <2>4, <3>1, PopInv
  <2>6. CASE job.todo # {}
    <3>1. conn' = C /\ task' = [task EXCEPT ![t] = job] /\ UNCHANGED <<loops, sess>>
      BY <2>2, <2>6
    <3>2. JobOK(job, sess)
      BY <1>1, <2>1, <2>3 DEF JobOK
    <3>3. Good(loops, sess, [task EXCEPT ![t] = job])
      BY <1>1, <2>3, <3>2, TakesUp
    <3>4. QED
      BY <2>4, <3>1, <3>3 DEF IInv
  <2>7. QED
    BY <2>5, <2>6
<1>4. CASE Closed(t)
  <2> DEFINE n == task[t].mine
             S == [sess EXCEPT ![n].life = "closed"]
  <2>1. Proceed(t, task[t], S, loops) /\ task[t].pc = "closing" /\ UNCHANGED conn
    BY <1>4 DEF Closed
  <2>2. sess \in Seq(Session) /\ Len(sess) \in Nat /\ loops \in [Sids -> 0 .. Len(sess)]
    BY <1>1 DEF Good
  <2>3. n \in 1 .. Len(sess) /\ sess[n].life # "open"
    BY <1>1, <2>1, <2>2 DEF JobOK
  <2>4. /\ S \in Seq(Session) /\ Len(S) = Len(sess) /\ S[n].life = "closed"
        /\ \A i \in 1 .. Len(sess) : i # n => S[i] = sess[i]
    <3>1. sess[n] \in Session
      BY <2>2, <2>3
    <3>2. /\ [sess[n] EXCEPT !.life = "closed"] \in Session
          /\ [sess[n] EXCEPT !.life = "closed"].life = "closed"
      BY <3>1 DEF Session
    <3>3. S = [sess EXCEPT ![n] = [sess[n] EXCEPT !.life = "closed"]]
      BY <2>2, <2>3
    <3>4. QED
      BY <2>2, <2>3, <3>2, <3>3
  <2>5. Registered(loops, S)
    <3> SUFFICES ASSUME NEW s \in Sids, loops[s] # 0
                 PROVE S[loops[s]] = [sid |-> s, life |-> "open"]
      BY DEF Registered
    <3>1. loops[s] \in 1 .. Len(sess) /\ sess[loops[s]] = [sid |-> s, life |-> "open"]
      BY <1>1, <2>2 DEF Good, Registered
    <3>2. loops[s] # n
      BY <2>3, <3>1
    <3>3. QED
      BY <2>4, <3>1, <3>2
  <2>6. ASSUME NEW u \in Tasks PROVE JobOK(task[u], S)
    <3>1. JobOK(task[u], sess)
      BY <1>1 DEF Good
    <3>2. task[u].pc = "closing" =>
            task[u].mine \in 1 .. Len(sess) /\ sess[task[u].mine].life # "open"
      BY <2>2, <3>1 DEF JobOK
    <3>3. task[u].pc = "closing" => S[task[u].mine].life # "open"
      BY <2>4, <3>2
    <3>4. QED
      BY <2>4, <3>1, <3>3 DEF JobOK
  <2>7. Good(loops, S, task)
    BY <1>1, <2>4, <2>5, <2>6 DEF Good
  <2>8. QED
    BY <1>1, <2>1, <2>7, Proceeds DEF IInv
<1>5. CASE CleanUp(t)
  <2>1. task[t].target \in Sids /\ BeginClose(t, task[t], task[t].target)
    BY <1>1, <1>5 DEF CleanUp, JobOK
  <2>2. QED
    BY <1>1, <2>1, BeginCloseInv
<1>6. QED
  BY <1>2, <1>3, <1>4, <1>5 DEF Work

\* Every step keeps the invariant.
LEMMA NextInv == IInv /\ [Next]_vars => IInv'
<1> SUFFICES ASSUME IInv, [Next]_vars PROVE IInv'
  OBVIOUS
<1>1. ASSUME NEW t \in Requests, NEW s \in Sids, Start(t, s) \/ Stop(t, s)
      PROVE IInv'
  <2>1. t \in Tasks
    BY DEF Tasks
  <2>2. CASE Start(t, s)
    BY <2>1, <2>2, MaybeStartInv DEF Start, IInv
  <2>3. CASE Stop(t, s)
    BY <2>1, <2>3, StopInv
  <2>4. QED
    BY <1>1, <2>2, <2>3
<1>2. ASSUME NEW t \in Requests, NEW s \in Sids, NEW c \in Conns, Join(t, c, s)
      PROVE IInv'
  BY <1>2, JoinInv DEF Tasks
<1>3. ASSUME NEW c \in Conns, Leave(c) PROVE IInv'
  BY <1>3 DEF Leave, IInv, Conn
<1>4. ASSUME NEW t \in Tasks, GiveUp(t) PROVE IInv'
  BY <1>4, GiveUpInv
<1>5. ASSUME NEW t \in Cleaners, NEW s \in Sids, Select(t, s) PROVE IInv'
  BY <1>5, SelectInv DEF Tasks
<1>6. CASE UNCHANGED vars
  BY <1>6 DEF vars, IInv
<1>7. QED
  BY <1>1, <1>2, <1>3, <1>4, <1>5, <1>6, WorkInv DEF Next

\* The invariant always holds.
THEOREM Invariant == Spec => []IInv
BY InitInv, NextInv, PTL DEF Spec

\* The variables keep their types, and an idle task remembers nothing.
THEOREM TypeCorrect == Spec => []TypeOK
<1>1. IInv => TypeOK
  <2> SUFFICES ASSUME IInv PROVE TypeOK
    OBVIOUS
  <2>1. /\ sess \in Seq([sid : Sids, life : {"open", "closing", "closed"}])
        /\ loops \in [Sids -> 0 .. Len(sess)]
        /\ conn \in [Conns -> Sids \cup {"new", "gone"}]
    BY DEF IInv, Good, Session, Conn
  <2>2. ASSUME NEW t \in Tasks
        PROVE task[t] \in Job /\ JobOK(task[t], sess)
    BY DEF IInv, Good
  <2>3. Idle.pc = "idle"
    BY DEF Idle
  <2>4. QED
    BY <2>1, <2>2, <2>3 DEF TypeOK, Job, JobOK
<1>2. QED
  BY <1>1, Invariant, PTL

\* What requests can find is open and of its conversation
\* (standalone_conversation_manager.py 388-392), whatever closes it meanwhile.
THEOREM FoundIsOpen == Spec => []RegisteredIsOpen
<1>1. IInv => RegisteredIsOpen
  BY DEF IInv, Good, Registered, RegisteredIsOpen
<1>2. QED
  BY <1>1, Invariant, PTL

\* A session is closed by one task, however many stop, evict or clean up its
\* conversation (lines 589-592).
THEOREM ClosedOnce == Spec => []ClosedByOne
<1>1. IInv => ClosedByOne
  BY DEF IInv, Good, Apart, ClosedByOne
<1>2. QED
  BY <1>1, Invariant, PTL

----------------------------------------------------------------------------
(* The limit, and how far requests that race can pass it                   *)

Living(L) == {s \in Sids : L[s] # 0}
Starting(T) == {t \in Requests : T[t].sid # Nobody}

\* The loops that a job is still to close before it makes its session.
Doomed(job) == job.victims \cup IF job.pc = "disconnect" THEN {job.target} ELSE {}
Spared(L, T, Q) == Living(L) \ UNION {Doomed(T[t]) : t \in Q}

\* Whichever starts are completed, what they spare and what they make stays
\* within the limit.
Spare(L, T) ==
  \A Q \in SUBSET Starting(T) :
    Cardinality(Spared(L, T, Q)) + Cardinality(Q) <= MaxLoops + Cardinality(Requests) - 1
SpareInv == Spare(loops, task) /\ \A t \in Tasks \ Requests : task[t].sid = Nobody

\* What is counted is finite.
LEMMA Counted ==
  ASSUME NEW L, NEW T, NEW Q \in SUBSET Starting(T)
  PROVE  /\ IsFiniteSet(Spared(L, T, Q)) /\ IsFiniteSet(Q) /\ IsFiniteSet(Living(L))
         /\ IsFiniteSet(Requests)
         /\ Cardinality(Spared(L, T, Q)) \in Nat /\ Cardinality(Q) \in Nat
         /\ Cardinality(Requests) \in Nat /\ Cardinality(Living(L)) \in Nat
         /\ Cardinality(Q) <= Cardinality(Requests)
<1>1. IsFiniteSet(Sids) /\ IsFiniteSet(Requests)
  BY TasksOK
<1>2. Living(L) \in SUBSET Sids /\ Q \in SUBSET Requests
  BY DEF Living, Starting
<1>3. IsFiniteSet(Living(L)) /\ IsFiniteSet(Q) /\ Cardinality(Q) <= Cardinality(Requests)
  BY <1>1, <1>2, FS_Subset
<1>4. Spared(L, T, Q) \in SUBSET Living(L)
  BY DEF Spared
<1>5. IsFiniteSet(Spared(L, T, Q))
  BY <1>3, <1>4, FS_Subset
<1>6. QED
  BY <1>1, <1>3, <1>5, FS_CardinalityType

\* Nothing is started, and what a task no longer dooms is gone.
LEMMA Frees ==
  ASSUME NEW L, NEW T, NEW M, NEW U, Spare(L, T), Living(M) \subseteq Living(L),
         Starting(U) \subseteq Starting(T),
         \A t \in Starting(U) : Living(M) \cap Doomed(T[t]) \subseteq Doomed(U[t])
  PROVE  Spare(M, U)
<1> SUFFICES ASSUME NEW Q \in SUBSET Starting(U)
             PROVE  Cardinality(Spared(M, U, Q)) + Cardinality(Q)
                      <= MaxLoops + Cardinality(Requests) - 1
  BY DEF Spare
<1>1. Q \in SUBSET Starting(T)
  OBVIOUS
<1>2. Spared(M, U, Q) \in SUBSET Spared(L, T, Q)
  BY DEF Spared
<1>3. Cardinality(Spared(M, U, Q)) <= Cardinality(Spared(L, T, Q))
  BY <1>1, <1>2, Counted, FS_Subset
<1>4. Cardinality(Spared(L, T, Q)) + Cardinality(Q) <= MaxLoops + Cardinality(Requests) - 1
  BY <1>1 DEF Spare
<1>5. /\ Cardinality(Spared(L, T, Q)) \in Nat /\ Cardinality(Q) \in Nat
      /\ Cardinality(Requests) \in Nat /\ Cardinality(Spared(M, U, Q)) \in Nat
      /\ MaxLoops \in Nat
  BY <1>1, Counted, LoopsOK
<1>6. QED
  BY <1>3, <1>4, <1>5

\* A start whose victims are gone makes its loop.
LEMMA Completes ==
  ASSUME NEW L, NEW T, NEW M, NEW U, Spare(L, T), NEW s, NEW t \in Starting(T),
         Living(M) \subseteq Living(L) \cup {s}, Living(L) \cap Doomed(T[t]) = {},
         Starting(U) \subseteq Starting(T) \ {t}, \A u \in Starting(U) : U[u] = T[u]
  PROVE  Spare(M, U)
<1> SUFFICES ASSUME NEW Q \in SUBSET Starting(U)
             PROVE  Cardinality(Spared(M, U, Q)) + Cardinality(Q)
                      <= MaxLoops + Cardinality(Requests) - 1
  BY DEF Spare
<1> DEFINE P == Q \cup {t}
<1>1. P \in SUBSET Starting(T) /\ t \notin Q
  OBVIOUS
<1>2. Spared(M, U, Q) \in SUBSET (Spared(L, T, P) \cup {s})
  <2>1. ASSUME NEW x \in Spared(M, U, Q), x # s PROVE x \in Spared(L, T, P)
    <3>1. x \in Living(L) /\ \A u \in Q : x \notin Doomed(T[u])
      BY <2>1 DEF Spared
    <3>2. x \notin Doomed(T[t])
      BY <3>1
    <3>3. QED
      BY <3>1, <3>2 DEF Spared
  <2>2. QED
    BY <2>1
<1>3. /\ IsFiniteSet(Spared(L, T, P)) /\ Cardinality(Spared(L, T, P)) \in Nat
      /\ Cardinality(Spared(M, U, Q)) \in Nat /\ Cardinality(Q) \in Nat
      /\ IsFiniteSet(Q) /\ Cardinality(P) \in Nat /\ Cardinality(Requests) \in Nat
  BY <1>1, Counted
<1>4. Cardinality(P) = Cardinality(Q) + 1
  BY <1>1, <1>3, FS_AddElement
<1>5. /\ IsFiniteSet(Spared(L, T, P) \cup {s})
      /\ Cardinality(Spared(L, T, P) \cup {s}) \in Nat
      /\ Cardinality(Spared(L, T, P) \cup {s}) <= Cardinality(Spared(L, T, P)) + 1
  <2>1. IsFiniteSet(Spared(L, T, P) \cup {s})
        /\ Cardinality(Spared(L, T, P) \cup {s}) =
             IF s \in Spared(L, T, P) THEN Cardinality(Spared(L, T, P)) ELSE Cardinality(Spared(L, T, P)) + 1
    BY <1>3, FS_AddElement
  <2>2. QED
    BY <1>3, <2>1
<1>6. Cardinality(Spared(M, U, Q)) <= Cardinality(Spared(L, T, P) \cup {s})
  BY <1>2, <1>5, FS_Subset
<1>7. Cardinality(Spared(L, T, P)) + Cardinality(P) <= MaxLoops + Cardinality(Requests) - 1
  BY <1>1 DEF Spare
<1>8. QED
  <2> HIDE DEF P
  <2> QED
    BY <1>3, <1>4, <1>5, <1>6, <1>7, LoopsOK

\* A request that finds room makes its loop at once: all the others may start.
LEMMA FindsRoom ==
  ASSUME NEW L, NEW T, NEW M, NEW s, NEW t \in Requests, T[t].sid = Nobody,
         Cardinality(Living(L)) < MaxLoops, Living(M) \subseteq Living(L) \cup {s}
  PROVE  Spare(M, T)
<1> SUFFICES ASSUME NEW Q \in SUBSET Starting(T)
             PROVE  Cardinality(Spared(M, T, Q)) + Cardinality(Q)
                      <= MaxLoops + Cardinality(Requests) - 1
  BY DEF Spare
<1>1. /\ IsFiniteSet(Living(L)) /\ Cardinality(Living(L)) \in Nat
      /\ Cardinality(Spared(M, T, Q)) \in Nat /\ Cardinality(Q) \in Nat
      /\ IsFiniteSet(Requests) /\ Cardinality(Requests) \in Nat /\ MaxLoops \in Nat
  BY Counted, LoopsOK
<1>2. /\ IsFiniteSet(Living(L) \cup {s}) /\ Cardinality(Living(L) \cup {s}) \in Nat
      /\ Cardinality(Living(L) \cup {s}) <= Cardinality(Living(L)) + 1
  <2>1. IsFiniteSet(Living(L) \cup {s})
        /\ Cardinality(Living(L) \cup {s}) =
             IF s \in Living(L) THEN Cardinality(Living(L)) ELSE Cardinality(Living(L)) + 1
    BY <1>1, FS_AddElement
  <2>2. QED
    BY <1>1, <2>1
<1>3. Spared(M, T, Q) \in SUBSET (Living(L) \cup {s})
  BY DEF Spared
<1>4. Cardinality(Spared(M, T, Q)) <= Cardinality(Living(L) \cup {s})
  BY <1>2, <1>3, FS_Subset
<1>5. Q \in SUBSET (Requests \ {t})
  BY DEF Starting
<1>6. /\ IsFiniteSet(Requests \ {t})
      /\ Cardinality(Requests \ {t}) = Cardinality(Requests) - 1
  BY <1>1, FS_RemoveElement
<1>7. Cardinality(Q) <= Cardinality(Requests) - 1
  BY <1>5, <1>6, FS_Subset
<1>8. QED
  BY <1>1, <1>2, <1>4, <1>7

\* A request that finds none picks what has to go; of what it spares, one less
\* than the limit remains.
LEMMA Picks ==
  ASSUME NEW L, NEW T, NEW U, Spare(L, T), NEW t \in Requests, NEW V \in SUBSET Living(L),
         Cardinality(V) = Cardinality(Living(L)) - MaxLoops + 1, V \subseteq Doomed(U[t]),
         \A u \in Starting(U) \ {t} : u \in Starting(T) /\ U[u] = T[u]
  PROVE  Spare(L, U)
<1> SUFFICES ASSUME NEW Q \in SUBSET Starting(U)
             PROVE  Cardinality(Spared(L, U, Q)) + Cardinality(Q)
                      <= MaxLoops + Cardinality(Requests) - 1
  BY DEF Spare
<1>1. /\ IsFiniteSet(Living(L)) /\ Cardinality(Living(L)) \in Nat
      /\ Cardinality(Spared(L, U, Q)) \in Nat /\ Cardinality(Q) \in Nat
      /\ Cardinality(Requests) \in Nat /\ MaxLoops \in Nat
      /\ Cardinality(Q) <= Cardinality(Requests)
  BY Counted, LoopsOK
<1>2. CASE t \in Q
  <2>1. Spared(L, U, Q) \in SUBSET (Living(L) \ V)
    BY <1>2 DEF Spared
  <2>2. IsFiniteSet(Living(L) \ V) /\ IsFiniteSet(V) /\ Living(L) \cap V = V
    BY <1>1, FS_Subset
  <2>3. Cardinality(Living(L) \ V) = Cardinality(Living(L)) - Cardinality(V)
    <3>1. Cardinality(Living(L) \ V) = Cardinality(Living(L)) - Cardinality(Living(L) \cap V)
      BY <1>1, FS_Difference
    <3>2. QED
      BY <2>2, <3>1
  <2>4. Cardinality(Spared(L, U, Q)) <= Cardinality(Living(L) \ V)
    BY <2>1, <2>2, FS_Subset
  <2>5. Cardinality(V) \in Nat
    BY <2>2, FS_CardinalityType
  <2>6. QED
    BY <1>1, <2>3, <2>4, <2>5
<1>3. CASE t \notin Q
  <2>1. Q \in SUBSET Starting(T) /\ Spared(L, U, Q) = Spared(L, T, Q)
    BY <1>3 DEF Spared
  <2>2. QED
    BY <2>1 DEF Spare
<1>4. QED
  BY <1>2, <1>3

\* The same task as above with another job.
LEMMA OneJob ==
  ASSUME NEW t \in Tasks, NEW job, IInv, task' = [task EXCEPT ![t] = job]
  PROVE  task'[t] = job /\ \A u \in Tasks : u # t => task'[u] = task[u]
BY DEF IInv, Good

\* Task t goes on with a job; it dooms what it doomed, as far as that is alive.
LEMMA GoesOn ==
  ASSUME IInv, SpareInv, NEW t \in Tasks, NEW job, task' = [task EXCEPT ![t] = job],
         job.sid = task[t].sid, Living(loops') \subseteq Living(loops),
         Living(loops') \cap Doomed(task[t]) \subseteq Doomed(job)
  PROVE  SpareInv'
<1>1. task'[t] = job /\ \A u \in Tasks : u # t => task'[u] = task[u]
  BY OneJob
<1>2. /\ \A u \in Tasks : task'[u].sid = task[u].sid
      /\ \A u \in Tasks : Living(loops') \cap Doomed(task[u]) \subseteq Doomed(task'[u])
  BY <1>1
<1>3. Starting(task') = Starting(task)
  BY <1>2 DEF Starting, Tasks
<1>4. Spare(loops', task')
  <2>1. Spare(loops, task) /\ \A u \in Starting(task') : u \in Tasks
    BY DEF SpareInv, Starting, Tasks
  <2>2. QED
    BY <1>2, <1>3, <2>1, Frees
<1>5. QED
  BY <1>2, <1>4 DEF SpareInv

\* A task goes on after an await that has closed what it had to.
LEMMA SpareProceed ==
  ASSUME IInv, SpareInv, NEW t \in Tasks, NEW job \in Job, NEW S,
         Proceed(t, job, S, loops), job.sid = task[t].sid,
         Living(loops) \cap Doomed(task[t]) \subseteq job.victims
  PROVE  SpareInv'
<1>1. task' = [task EXCEPT ![t] = Rest(job)]
  BY DEF Proceed
<1>2. CASE job.victims # {}
  <2>1. Rest(job).sid = job.sid /\ Doomed(Rest(job)) = job.victims
    BY <1>2 DEF Rest, Idle, Doomed
  <2>2. loops' = loops
    BY <1>2 DEF Proceed
  <2>3. QED
    BY <1>1, <2>1, <2>2, GoesOn
<1>3. CASE job.victims = {} /\ job.sid = Nobody
  <2>1. Rest(job) = Idle /\ Idle.sid = Nobody /\ loops' = loops
    BY <1>3 DEF Rest, Idle, Proceed
  <2>2. QED
    BY <1>1, <1>3, <2>1, GoesOn
<1>4. CASE job.victims = {} /\ job.sid # Nobody
  <2>1. Rest(job) = Idle /\ Idle.sid = Nobody
    BY <1>4 DEF Rest, Idle
  <2>2. task'[t] = Idle /\ \A u \in Tasks : u # t => task'[u] = task[u]
    BY <1>1, <2>1, OneJob
  <2>3. t \in Starting(task)
    BY <1>4 DEF SpareInv, Starting
  <2>4. \A u \in Starting(task') : u # t /\ u \in Starting(task) /\ task'[u] = task[u]
    BY <2>1, <2>2 DEF Starting, Tasks
  <2>5. Living(loops') \subseteq Living(loops) \cup {job.sid}
    <3>1. loops' = [loops EXCEPT ![job.sid] = Len(S) + 1] /\ loops \in [Sids -> Nat]
      BY <1>4 DEF Proceed, IInv, Good
    <3>2. QED
      BY <3>1 DEF Living
  <2>6. Living(loops) \cap Doomed(task[t]) = {}
    BY <1>4
  <2>7. Spare(loops', task')
    <3>1. Starting(task') \subseteq Starting(task) \ {t} /\ Spare(loops, task)
      BY <2>4 DEF SpareInv
    <3>2. \A u \in Starting(task') : task'[u] = task[u]
      BY <2>4
    <3>3. QED
      BY <2>3, <2>5, <2>6, <3>1, <3>2, Completes
  <2>8. \A u \in Tasks \ Requests : task'[u].sid = Nobody
    BY <2>1, <2>2 DEF SpareInv
  <2>9. QED
    BY <2>7, <2>8 DEF SpareInv
<1>5. QED
  BY <1>2, <1>3, <1>4

\* The session of the loop that is to go leaves the loops.
LEMMA SparePop ==
  ASSUME IInv, SpareInv, NEW t \in Tasks, NEW job \in Job, job.target \in Sids, NEW C,
         PopSession(t, job, C), job.sid = task[t].sid,
         Living(loops) \cap Doomed(task[t]) \subseteq job.victims \cup {job.target}
  PROVE  SpareInv'
<1> DEFINE n == loops[job.target]
           closing == [job EXCEPT !.pc = "closing", !.mine = n, !.todo = {}]
<1>1. CASE n = 0
  <2>1. Proceed(t, job, sess, loops) /\ job.target \notin Living(loops)
    BY <1>1 DEF PopSession, Living
  <2>2. QED
    BY <2>1, SpareProceed
<1>2. CASE n # 0
  <2>1. /\ loops' = [loops EXCEPT ![job.target] = 0]
        /\ task' = [task EXCEPT ![t] = closing]
    BY <1>2 DEF PopSession, Popped
  <2>2. closing.sid = job.sid /\ Doomed(closing) = job.victims
    BY DEF Job, Doomed
  <2>3. loops \in [Sids -> Nat]
    BY DEF IInv, Good
  <2>4. Living(loops') \subseteq Living(loops) \ {job.target}
    BY <2>1, <2>3 DEF Living
  <2> HIDE DEF closing
  <2>5. QED
    BY <2>1, <2>2, <2>4, GoesOn
<1>3. QED
  BY <1>1, <1>2

\* A close begins.
LEMMA SpareBegin ==
  ASSUME IInv, SpareInv, NEW t \in Tasks, NEW job \in Job, NEW s \in Sids,
         BeginClose(t, job, s), job.sid = task[t].sid,
         Living(loops) \cap Doomed(task[t]) \subseteq job.victims \cup {s}
  PROVE  SpareInv'
<1>1. CASE Joined(s) = {}
  <2> DEFINE new == [job EXCEPT !.target = s]
  <2>1. new \in Job /\ new.target = s /\ new.sid = job.sid /\ new.victims = job.victims
    BY DEF Job
  <2>2. PopSession(t, new, conn)
    BY <1>1 DEF BeginClose
  <2> HIDE DEF new
  <2>3. QED
    BY <2>1, <2>2, SparePop
<1>2. CASE Joined(s) # {}
  <2> DEFINE new == [job EXCEPT !.pc = "disconnect", !.target = s, !.todo = Joined(s)]
  <2>1. new.sid = job.sid /\ Doomed(new) = job.victims \cup {s}
    BY DEF Job, Doomed
  <2>2. task' = [task EXCEPT ![t] = new] /\ loops' = loops
    BY <1>2 DEF BeginClose
  <2> HIDE DEF new
  <2>3. QED
    BY <2>1, <2>2, GoesOn
<1>3. QED
  BY <1>1, <1>2

\* A request that may start a loop.
LEMMA SpareStart ==
  ASSUME IInv, SpareInv, NEW t \in Requests, NEW s \in Sids, task[t] = Idle,
         MaybeStart(t, s)
  PROVE  SpareInv'
<1>1. t \in Tasks /\ task[t].sid = Nobody /\ loops \in [Sids -> Nat]
  BY DEF Tasks, Idle, IInv, Good
<1>2. CASE UNCHANGED <<loops, sess, task>>
  BY <1>2 DEF SpareInv, Spare, Starting, Spared, Living, Doomed
<1>3. CASE ~Full /\ loops' = [loops EXCEPT ![s] = Len(sess) + 1] /\ UNCHANGED task
  <2>1. Living(loops') \subseteq Living(loops) \cup {s}
    BY <1>1, <1>3 DEF Living
  <2>2. Cardinality(Living(loops)) < MaxLoops
    <3>1. Cardinality(Living(loops)) \in Nat /\ MaxLoops \in Nat
      <4>1. {} \in SUBSET Starting(task)
        OBVIOUS
      <4>2. QED
        BY <4>1, Counted, LoopsOK
    <3>2. QED
      BY <1>3, <3>1 DEF Full, Running, Living
  <2>3. Spare(loops', task)
    BY <1>1, <2>1, <2>2, FindsRoom
  <2>4. QED
    BY <1>3, <2>3 DEF SpareInv
<1>4. CASE /\ \E V \in Evictions : task' =
                [task EXCEPT ![t] = [Idle EXCEPT !.pc = "evict", !.sid = s, !.victims = V]]
           /\ UNCHANGED <<loops, sess>>
  <2>1. PICK V \in Evictions : task' =
          [task EXCEPT ![t] = [Idle EXCEPT !.pc = "evict", !.sid = s, !.victims = V]]
    BY <1>4
  <2> DEFINE new == [Idle EXCEPT !.pc = "evict", !.sid = s, !.victims = V]
  <2>2. Doomed(new) = V
    BY DEF Doomed, Idle
  <2> HIDE DEF new
  <2>3. task'[t] = new /\ \A u \in Tasks : u # t => task'[u] = task[u]
    BY <1>1, <2>1, OneJob DEF new
  <2>4. V \in SUBSET Living(loops)
        /\ Cardinality(V) = Cardinality(Living(loops)) - MaxLoops + 1
    BY DEF Evictions, Running, Living
  <2>5. \A u \in Starting(task') \ {t} : u \in Starting(task) /\ task'[u] = task[u]
    BY <2>3 DEF Starting, Tasks
  <2>6. Spare(loops, task) /\ V \subseteq Doomed(task'[t])
    BY <2>2, <2>3 DEF SpareInv
  <2>7. Spare(loops, task')
    BY <2>4, <2>5, <2>6, Picks
  <2>8. \A u \in Tasks \ Requests : task'[u].sid = Nobody
    BY <2>3 DEF SpareInv
  <2>9. QED
    BY <1>4, <2>7, <2>8 DEF SpareInv
<1>5. QED
  BY <1>2, <1>3, <1>4 DEF MaybeStart

\* A task that has awaited something.
LEMMA SpareWork ==
  ASSUME IInv, SpareInv, NEW t \in Tasks, Work(t) PROVE SpareInv'
<1>1. task[t] \in Job /\ JobOK(task[t], sess)
  BY DEF IInv, Good
<1>2. CASE Evict(t)
  <2>1. PICK v \in task[t].victims :
          LET job == [task[t] EXCEPT !.victims = @ \ {v}] IN
          IF loops[v] # 0
          THEN BeginClose(t, job, v)
          ELSE Proceed(t, job, sess, loops) /\ UNCHANGED conn
    BY <1>2 DEF Evict
  <2> DEFINE job == [task[t] EXCEPT !.victims = @ \ {v}]
  <2>2. /\ v \in Sids /\ job \in Job /\ job.sid = task[t].sid
        /\ job.victims = task[t].victims \ {v} /\ Doomed(task[t]) = task[t].victims
    BY <1>1, <1>2 DEF Job, Doomed, Evict
  <2>3. CASE loops[v] # 0
    <3>1. BeginClose(t, job, v)
      BY <2>1, <2>3
    <3> HIDE DEF job
    <3>2. QED
      BY <2>2, <3>1, SpareBegin
  <2>4. CASE loops[v] = 0
    <3>1. Proceed(t, job, sess, loops) /\ v \notin Living(loops)
      BY <2>1, <2>4 DEF Living
    <3> HIDE DEF job
    <3>2. QED
      BY <2>2, <3>1, SpareProceed
  <2>5. QED
    BY <2>3, <2>4
<1>3. CASE Disconnect(t)
  <2>1. task[t].target \in Sids /\ task[t].pc = "disconnect"
    BY <1>1, <1>3 DEF Disconnect, JobOK
  <2>2. PICK c \in task[t].todo :
          LET job == [task[t] EXCEPT !.todo = @ \ {c}]
              C == [conn EXCEPT ![c] = "gone"] IN
          IF job.todo = {}
          THEN PopSession(t, job, C)
          ELSE /\ conn' = C /\ task' = [task EXCEPT ![t] = job]
               /\ UNCHANGED <<loops, sess>>
    BY <1>3 DEF Disconnect
  <2> DEFINE job == [task[t] EXCEPT !.todo = @ \ {c}]
             C == [conn EXCEPT ![c] = "gone"]
  <2>3. /\ job \in Job /\ job.target = task[t].target /\ job.sid = task[t].sid
        /\ job.victims = task[t].victims /\ job.pc = "disconnect"
    BY <1>1, <2>1 DEF Job
  <2>4. /\ Doomed(task[t]) = job.victims \cup {job.target}
        /\ Doomed(job) = job.victims \cup {job.target}
    BY <2>1, <2>3 DEF Doomed
  <2>5. CASE job.todo = {}
    <3>1. PopSession(t, job, C)
      BY <2>2, <2>5
    <3> HIDE DEF job
    <3>2. QED
      BY <2>1, <2>3, <2>4, <3>1, SparePop
  <2>6. CASE job.todo # {}
    <3>1. task' = [task EXCEPT ![t] = job] /\ loops' = loops
      BY <2>2, <2>6
    <3> HIDE DEF job
    <3>2. QED
      BY <2>3, <2>4, <3>1, GoesOn
  <2>7. QED
    BY <2>5, <2>6
<1>4. CASE Closed(t)
  <2>1. /\ Proceed(t, task[t], [sess EXCEPT ![task[t].mine].life = "closed"], loops)
        /\ Doomed(task[t]) = task[t].victims
    BY <1>4 DEF Closed, Doomed
  <2>2. QED
    BY <1>1, <2>1, SpareProceed
<1>5. CASE CleanUp(t)
  <2>1. /\ task[t].target \in Sids /\ BeginClose(t, task[t], task[t].target)
        /\ Doomed(task[t]) = task[t].victims
    BY <1>1, <1>5 DEF CleanUp, JobOK, Doomed
  <2>2. QED
    BY <1>1, <2>1, SpareBegin
<1>6. QED
  BY <1>2, <1>3, <1>4, <1>5 DEF Work

\* Every step keeps it.
LEMMA SpareStep == IInv /\ SpareInv /\ [Next]_vars => SpareInv'
<1> SUFFICES ASSUME IInv, SpareInv, [Next]_vars PROVE SpareInv'
  OBVIOUS
<1>1. ASSUME UNCHANGED <<loops, task>> PROVE SpareInv'
  BY <1>1 DEF SpareInv, Spare, Starting, Spared, Living, Doomed
<1>2. Idle \in Job /\ Idle.sid = Nobody /\ Doomed(Idle) = {} /\ Idle.victims = {}
  BY IdleOK DEF Idle, Doomed
<1>3. ASSUME NEW t \in Requests, NEW s \in Sids, Start(t, s) \/ \E c \in Conns : Join(t, c, s)
      PROVE SpareInv'
  BY <1>3, SpareStart DEF Start, Join
<1>4. ASSUME NEW t \in Requests, NEW s \in Sids, Stop(t, s) PROVE SpareInv'
  <2>1. t \in Tasks /\ task[t] = Idle /\ BeginClose(t, Idle, s)
    BY <1>4 DEF Tasks, Stop
  <2>2. QED
    BY <1>2, <2>1, SpareBegin
<1>5. ASSUME NEW t \in Cleaners, NEW s \in Sids, Select(t, s) PROVE SpareInv'
  <2> DEFINE new == [Idle EXCEPT !.pc = "selected", !.target = s]
  <2>1. new.sid = Nobody /\ Doomed(new) = {}
    BY DEF Idle, Doomed
  <2>2. /\ t \in Tasks /\ task[t] = Idle /\ task' = [task EXCEPT ![t] = new]
        /\ loops' = loops
    BY <1>5 DEF Tasks, Select
  <2> HIDE DEF new
  <2>3. QED
    BY <1>2, <2>1, <2>2, GoesOn
<1>6. ASSUME NEW t \in Tasks, GiveUp(t) PROVE SpareInv'
  <2>1. task' = [task EXCEPT ![t] = Idle] /\ loops' = loops
    BY <1>6 DEF GiveUp
  <2>2. task'[t] = Idle /\ \A u \in Tasks : u # t => task'[u] = task[u]
    BY <2>1, OneJob
  <2>3. /\ Starting(task') \subseteq Starting(task)
        /\ \A u \in Starting(task') : task'[u] = task[u]
    BY <1>2, <2>2 DEF Starting, Tasks
  <2>4. Spare(loops', task')
    <3>1. /\ Spare(loops, task) /\ Living(loops') \subseteq Living(loops)
          /\ Starting(task') \subseteq Starting(task)
      BY <2>1, <2>3 DEF SpareInv
    <3>2. \A u \in Starting(task') :
            Living(loops') \cap Doomed(task[u]) \subseteq Doomed(task'[u])
      BY <2>3
    <3>3. QED
      BY <3>1, <3>2, Frees
  <2>5. QED
    BY <1>2, <2>2, <2>4 DEF SpareInv
<1>7. ASSUME NEW c \in Conns, Leave(c) PROVE SpareInv'
  BY <1>1, <1>7 DEF Leave
<1>8. QED
  BY <1>1, <1>3, <1>4, <1>5, <1>6, <1>7, SpareWork DEF Next, vars

\* Requests that find the limit reached together pass it each by one loop at
\* most, whatever is stopped, cleaned up and started again meanwhile.
THEOREM LimitIsPassedByOneEach == Spec => []LimitPassedByRace
<1>1. Init => SpareInv
  <2> SUFFICES ASSUME Init PROVE SpareInv
    OBVIOUS
  <2>1. /\ Living(loops) = {} /\ Starting(task) = {}
        /\ \A t \in Tasks : task[t].sid = Nobody
    BY DEF Init, Living, Starting, Idle, Tasks
  <2>2. ASSUME NEW Q \in SUBSET Starting(task)
        PROVE  Cardinality(Spared(loops, task, Q)) + Cardinality(Q)
                 <= MaxLoops + Cardinality(Requests) - 1
    <3>1. Spared(loops, task, Q) = {} /\ Q = {} /\ Cardinality({}) = 0
      BY <2>1, FS_EmptySet DEF Spared
    <3>2. Cardinality(Requests) \in Nat
      BY Counted
    <3>3. QED
      BY <3>1, <3>2, LoopsOK
  <2>3. QED
    BY <2>1, <2>2 DEF SpareInv, Spare
<1>2. SpareInv => LimitPassedByRace
  <2> SUFFICES ASSUME SpareInv PROVE LimitPassedByRace
    OBVIOUS
  <2>1. {} \in SUBSET Starting(task) /\ Spared(loops, task, {}) = Running
    BY DEF Spared, Living, Running
  <2>2. /\ Cardinality({}) = 0 /\ Cardinality(Running) \in Nat
        /\ Cardinality(Running) + Cardinality({}) <= MaxLoops + Cardinality(Requests) - 1
    BY <2>1, FS_EmptySet, Counted DEF SpareInv, Spare
  <2>3. QED
    BY <2>2 DEF LimitPassedByRace
<1>3. QED
  BY <1>1, <1>2, SpareStep, Invariant, PTL DEF Spec
===============================================================================
