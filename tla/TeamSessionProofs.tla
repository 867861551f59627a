-------------------------- MODULE TeamSessionProofs --------------------------
(***************************************************************************)
(* Theorems about TeamSession for any number of connections, requests to   *)
(* recover and restarts: types, one execution at a time, questions that    *)
(* somebody can answer, a bound on reviews, and the run that TeamRun       *)
(* promises.                                                               *)
(***************************************************************************)
EXTENDS TeamSession, TLAPS

\* A record whose status or state changes remains one of as many records.
LEMMA RecordChange ==
  ASSUME NEW S \in Seq(Record), NEW n \in 1 .. Len(S)
  PROVE  /\ \A s \in Statuses :
              /\ [S EXCEPT ![n].status = s] \in Seq(Record)
              /\ Len([S EXCEPT ![n].status = s]) = Len(S)
         /\ \A st \in TeamState :
              /\ [S EXCEPT ![n].state = st] \in Seq(Record)
              /\ Len([S EXCEPT ![n].state = st]) = Len(S)
<1>1. S[n] \in Record
  OBVIOUS
<1>2. ASSUME NEW s \in Statuses
      PROVE  /\ [S EXCEPT ![n].status = s] \in Seq(Record)
             /\ Len([S EXCEPT ![n].status = s]) = Len(S)
  <2>1. [S[n] EXCEPT !.status = s] \in Record
    BY <1>1 DEF Record
  <2> QED BY <2>1
<1>3. ASSUME NEW st \in TeamState
      PROVE  /\ [S EXCEPT ![n].state = st] \in Seq(Record)
             /\ Len([S EXCEPT ![n].state = st]) = Len(S)
  <2>1. [S[n] EXCEPT !.state = st] \in Record
    BY <1>1 DEF Record
  <2> QED BY <2>1
<1> QED BY <1>2, <1>3

\* A handler that returns keeps the types.
LEMMA ReturnsType ==
  ASSUME TypeOK, NEW c \in Conns, NEW records \in Seq(Record),
         Len(records) = Len(sess), Returns(c, records),
         UNCHANGED <<table, db, rec, crashes>>
  PROVE  TypeOK'
<1> USE DEF TypeOK
<1>1. HandlerType'
  <2>1. NoRun \in Run
    BY DEF NoRun, Run
  <2> QED BY <2>1 DEF Returns, Gone, HandlerType, Executing
<1>2. RecordType'
  BY DEF Returns, RecordType
<1>3. HeldType'
  BY DEF Returns, Gone, HandlerType, HeldType, Working, Receiving
<1> QED BY <1>1, <1>2, <1>3

LEMMA StatusType ==
  ASSUME TypeOK, NEW c \in Conns, pc[c] \in Working \cup Receiving, NEW s \in Statuses
  PROVE  Status(c, s) \in Seq(Record) /\ Len(Status(c, s)) = Len(sess)
BY RecordChange DEF TypeOK, RecordType, HeldType, Status

\* A handler that has failed and is about to say so.
LEMMA TellsType ==
  ASSUME TypeOK, NEW c \in Conns, pc[c] \in Working \cup {"waiting"},
         sess' \in Seq(Record), Len(sess') = Len(sess),
         NEW p \in {"failing", "hungup"}, pc' = [pc EXCEPT ![c] = p],
         UNCHANGED <<left, run, mine, active, table, db, rec, crashes>>
  PROVE  TypeOK'
<1> USE DEF TypeOK
<1>1. Executing' = Executing
  BY DEF Executing, Working, HandlerType
<1>2. HandlerType'
  BY <1>1 DEF HandlerType, Working
<1>3. RecordType'
  BY DEF RecordType
<1>4. HeldType'
  BY DEF HandlerType, HeldType, Working, Receiving
<1> QED BY <1>2, <1>3, <1>4

LEMMA SendRaisesType ==
  ASSUME TypeOK, NEW c \in Conns, pc[c] \in Working,
         NEW records \in Seq(Record), Len(records) = Len(sess),
         SendRaises(c, records), UNCHANGED <<table, db, rec, crashes>>
  PROVE  TypeOK'
<1>1. mine[c] \in 1 .. Len(records)
  BY DEF TypeOK, HeldType
<1>2. "error" \in Statuses
  BY DEF Statuses
<1>3. /\ [records EXCEPT ![mine[c]].status = "error"] \in Seq(Record)
      /\ Len([records EXCEPT ![mine[c]].status = "error"]) = Len(sess)
  BY <1>1, <1>2, RecordChange
<1>4. CASE Returns(c, records)
  BY <1>4, ReturnsType
<1>5. CASE Fails(c, records)
  BY <1>3, <1>5, TellsType DEF Fails
<1> QED BY <1>4, <1>5 DEF SendRaises

\* What a node makes of the state is a state, and where it leads is a node.
LEMMA OutcomeType ==
  ASSUME NEW st \in TeamState, NEW node \in Nodes \ {"await", "end"},
         NEW new \in Outcomes(node, st)
  PROVE  new \in TeamState
<1> USE DEF TeamState
<1>1. ASSUME NEW s \in TeamState, NEW n \in Design(s) PROVE n \in TeamState
  BY <1>1 DEF Design
<1>2. Counted(st) \in TeamState
  BY DEF Counted
<1>3. CASE node = "detect"
  BY <1>3 DEF Outcomes
<1>4. CASE node = "architect"
  BY <1>1, <1>4 DEF Outcomes
<1>5. CASE node = "engineer"
  BY <1>5 DEF Outcomes
<1>6. CASE node = "review"
  BY <1>1, <1>2, <1>6 DEF Outcomes
<1>7. CASE node \in {"refine", "pm", "handoff"}
  BY <1>7 DEF Outcomes
<1> QED BY <1>3, <1>4, <1>5, <1>6, <1>7 DEF Nodes

LEMMA FollowingType ==
  ASSUME NEW st \in TeamState, NEW node \in Nodes \ {"await", "end"}
  PROVE  Following(node, st) \in Nodes
BY DEF Following, Nodes

LEMMA InitType == Init => TypeOK
<1> SUFFICES ASSUME Init PROVE TypeOK
  OBVIOUS
<1> USE DEF Init, NewState, NoState, NoRun
<1>1. HandlerType
  BY DEF HandlerType, Run, TeamState
<1>2. RecordType
  <2>1. [state |-> NewState, status |-> "created"] \in Record
    BY DEF Record, TeamState, Statuses
  <2>2. sess \in Seq(Record) /\ Len(sess) = 1
    BY <2>1
  <2> QED BY <2>2, TeamOK DEF RecordType
<1>3. HeldType
  BY DEF HeldType, Working, Receiving
<1> QED BY <1>1, <1>2, <1>3 DEF TypeOK

\* One step for each action; a record is changed or added, a handler goes on or
\* returns.
LEMMA NextType == TypeOK /\ [Next]_vars => TypeOK'
<1> SUFFICES ASSUME TypeOK, [Next]_vars PROVE TypeOK'
  OBVIOUS
<1>t. HandlerType /\ RecordType /\ HeldType
  BY DEF TypeOK
<1>w. /\ \A s \in {"running", "awaiting_input", "completed", "error",
                   "ready_to_resume"} : s \in Statuses
      /\ \A s \in {"starting", "running", "chunk", "ending", "waiting", "helper",
                   "observer"} : s \in Working \cup Receiving
      /\ {"starting", "running", "chunk", "ending"} \subseteq Working
  BY DEF Statuses, Working, Receiving
<1>1. ASSUME NEW c \in Conns, Connect(c) PROVE TypeOK'
  <2>0. /\ pc[c] = "new" /\ left' = left /\ run' = run
        /\ active' \in BOOLEAN
        /\ \/ Gone(c)
           \/ /\ mine' = [mine EXCEPT ![c] = table]
              /\ \E p \in {"helper", "observer", "starting"} : pc' = [pc EXCEPT ![c] = p]
    <3>1. active' = active \/ active' = TRUE
      BY <1>1 DEF Connect
    <3> QED BY <1>t, <1>1, <3>1 DEF Connect, HandlerType
  <2>a. table \in Nat
    BY <1>t DEF RecordType
  <2>b. /\ pc' \in [Conns -> {"new", "gone"} \cup Working \cup Receiving]
        /\ mine' \in [Conns -> Nat]
        /\ \A d \in Conns : d # c => pc'[d] = pc[d]
    BY <1>t, <2>0, <2>a DEF Gone, HandlerType, Working, Receiving
  <2>c. left' \subseteq Executing'
    BY <1>t, <2>0, <2>b DEF HandlerType, Executing, Working
  <2>1. HandlerType'
    BY <1>t, <2>0, <2>b, <2>c DEF HandlerType
  <2>2. RecordType'
    BY <1>t, <1>1 DEF Connect, RecordType
  <2>3. HeldType'
    BY <1>t, <1>1 DEF Connect, Gone, HeldType, HandlerType, RecordType, Working, Receiving
  <2> QED BY <2>1, <2>2, <2>3 DEF TypeOK
<1>2. ASSUME NEW c \in Conns, StartRun(c) PROVE TypeOK'
  <2>0. Status(c, "running") \in Seq(Record) /\ Len(Status(c, "running")) = Len(sess)
    BY <1>2, <1>w, StatusType DEF StartRun
  <2>1. CASE SendRaises(c, Status(c, "running"))
    BY <1>2, <1>w, <2>0, <2>1, SendRaisesType DEF StartRun
  <2>2. CASE /\ pc' = [pc EXCEPT ![c] = "running"]
             /\ run' = [run EXCEPT ![c] = [NoRun EXCEPT !.at = "detect",
                                                        !.st = sess[mine[c]].state]]
             /\ sess' = Status(c, "running") /\ UNCHANGED <<left, mine, active>>
    <3>1. sess[mine[c]] \in Record
      BY <1>t, <1>2 DEF StartRun, HeldType, RecordType, Working
    <3>2. run'[c].at = "detect" /\ run'[c].st \in TeamState /\ run'[c] \in Run
      BY <1>t, <2>2, <3>1 DEF HandlerType, Run, NoRun, Record, Nodes
    <3>3. HandlerType'
      BY <1>t, <1>2, <2>2, <3>2 DEF StartRun, HandlerType, Executing, Working
    <3>4. RecordType'
      BY <1>t, <1>2, <2>0, <2>2 DEF StartRun, RecordType
    <3>5. HeldType'
      BY <1>t, <2>0, <2>2, <3>2, <1>2
      DEF StartRun, HeldType, HandlerType, Working, Receiving, Nodes
    <3> QED BY <3>3, <3>4, <3>5 DEF TypeOK
  <2> QED BY <1>2, <2>1, <2>2 DEF StartRun
<1>3. ASSUME NEW c \in Conns, RunNode(c) PROVE TypeOK'
  <2>1. run[c].at \in Nodes \ {"await", "end"} /\ run[c].st \in TeamState
    BY <1>t, <1>3 DEF RunNode, HeldType
  <2>2. PICK st \in Outcomes(run[c].at, run[c].st) :
          run' = [run EXCEPT ![c].st = st, ![c].reviews = Reviewed(run[c])]
    BY <1>3 DEF RunNode
  <2>3. st \in TeamState
    BY <2>1, <2>2, OutcomeType
  <2>4. Reviewed(run[c]) \in Nat
    BY <1>t, IterationsOK DEF HandlerType, Run, Reviewed
  <2>5. run[c] \in Run
    BY <1>t DEF HandlerType
  <2>6. run'[c] \in Run /\ run'[c].at = run[c].at /\ run'[c].st = st
    BY <1>t, <2>2, <2>3, <2>4, <2>5 DEF HandlerType, Run
  <2>7. HandlerType'
    BY <1>t, <1>3, <2>2, <2>6 DEF RunNode, HandlerType, Executing, Working
  <2>8. RecordType'
    BY <1>t, <1>3 DEF RunNode, RecordType
  <2>9. HeldType'
    BY <1>t, <1>3, <2>1, <2>2, <2>3, <2>6
    DEF RunNode, HeldType, HandlerType, Working, Receiving
  <2> QED BY <2>7, <2>8, <2>9 DEF TypeOK
<1>4. ASSUME NEW c \in Conns, GraphRaises(c) PROVE TypeOK'
  <2>1. pc[c] \in Working /\ Status(c, "error") \in Seq(Record)
        /\ Len(Status(c, "error")) = Len(sess)
    BY <1>4, <1>w, StatusType DEF GraphRaises, Working
  <2> QED BY <1>4, <2>1, TellsType DEF GraphRaises, Fails, Status
<1>5. ASSUME NEW c \in Conns, HandleChunk(c) PROVE TypeOK'
  <2>1. CASE SendRaises(c, sess)
    BY <1>t, <1>5, <1>w, <2>1, SendRaisesType DEF HandleChunk, RecordType
  <2>2. CASE /\ sess' = IF run[c].resumed THEN sess
                        ELSE [sess EXCEPT ![mine[c]].state = run[c].st]
             /\ run' = [run EXCEPT ![c].at = Following(run[c].at, run[c].st)]
             /\ pc' = [pc EXCEPT ![c] = "running"] /\ UNCHANGED <<left, mine, active>>
    <3>0. run[c].at \in Nodes /\ run[c].st \in TeamState /\ run[c] \in Run
      BY <1>t, <1>5 DEF HandleChunk, HeldType, HandlerType
    <3>1. Following(run[c].at, run[c].st) \in Nodes
      BY <3>0 DEF Following, Nodes
    <3>2. sess' \in Seq(Record) /\ Len(sess') = Len(sess)
      BY <1>t, <1>5, <2>2, <3>0, RecordChange DEF HandleChunk, HeldType, RecordType, Working
    <3>3. run'[c] \in Run /\ run'[c].at \in Nodes /\ run'[c].st = run[c].st
      BY <1>t, <2>2, <3>0, <3>1 DEF HandlerType, Run
    <3>4. HandlerType'
      BY <1>t, <1>5, <2>2, <3>3 DEF HandleChunk, HandlerType, Executing, Working
    <3>5. RecordType'
      BY <1>t, <1>5, <3>2 DEF HandleChunk, RecordType
    <3>6. HeldType'
      BY <1>t, <1>5, <2>2, <3>0, <3>2, <3>3
      DEF HandleChunk, HeldType, HandlerType, Working, Receiving
    <3> QED BY <3>4, <3>5, <3>6 DEF TypeOK
  <2> QED BY <1>5, <2>1, <2>2 DEF HandleChunk
<1>6. ASSUME NEW c \in Conns, Ask(c) PROVE TypeOK'
  <2>1. CASE SendRaises(c, sess)
    BY <1>t, <1>6, <1>w, <2>1, SendRaisesType DEF Ask, RecordType
  <2>2. CASE /\ sess' = Status(c, "awaiting_input")
             /\ pc' = [pc EXCEPT ![c] = "waiting"] /\ UNCHANGED <<left, run, mine, active>>
    <3>1. sess' \in Seq(Record) /\ Len(sess') = Len(sess)
      BY <1>6, <1>w, <2>2, StatusType DEF Ask
    <3>2. HandlerType'
      BY <1>t, <1>6, <2>2 DEF Ask, HandlerType, Executing, Receiving
    <3>3. RecordType'
      BY <1>t, <1>6, <3>1 DEF Ask, RecordType
    <3>4. HeldType'
      BY <1>t, <1>6, <2>2, <3>1 DEF Ask, HeldType, HandlerType, Working, Receiving
    <3> QED BY <3>2, <3>3, <3>4 DEF TypeOK
  <2> QED BY <1>6, <2>1, <2>2 DEF Ask
<1>7. ASSUME NEW c \in Conns, Answer(c) PROVE TypeOK'
  <2>1. sess' \in Seq(Record) /\ Len(sess') = Len(sess)
    BY <1>7, <1>w, StatusType DEF Answer
  <2>2. run[c].st \in TeamState /\ run[c] \in Run
    BY <1>t, <1>7 DEF Answer, HeldType, HandlerType
  <2>3. run'[c] \in Run /\ run'[c].at \in Nodes /\ run'[c].st = run[c].st
    BY <1>t, <1>7, <2>2 DEF Answer, HandlerType, Run, Nodes
  <2>4. HandlerType'
    BY <1>t, <1>7, <2>3 DEF Answer, HandlerType, Executing, Working
  <2>5. RecordType'
    BY <1>t, <1>7, <2>1 DEF Answer, RecordType
  <2>6. HeldType'
    BY <1>t, <1>7, <2>1, <2>2, <2>3
    DEF Answer, HeldType, HandlerType, Working, Receiving
  <2> QED BY <2>4, <2>5, <2>6 DEF TypeOK
<1>8. ASSUME NEW c \in Conns, Complete(c) PROVE TypeOK'
  <2>1. sess' \in Seq(Record) /\ Len(sess') = Len(sess)
    BY <1>8, <1>w, StatusType DEF Complete
  <2>2. HandlerType'
    BY <1>t, <1>8 DEF Complete, HandlerType, Executing, Working
  <2>3. RecordType'
    BY <1>t, <1>8, <2>1 DEF Complete, RecordType, HeldType
  <2>4. HeldType'
    BY <1>t, <1>8, <2>1 DEF Complete, HeldType, HandlerType, Working, Receiving
  <2> QED BY <2>2, <2>3, <2>4 DEF TypeOK
<1>9. ASSUME NEW c \in Conns, End(c) PROVE TypeOK'
  BY <1>t, <1>9, <1>w, ReturnsType, SendRaisesType DEF End, RecordType
<1>10. ASSUME NEW c \in Conns, Checkpoint(c) PROVE TypeOK'
  BY <1>t, <1>10 DEF Checkpoint, TypeOK, HandlerType, RecordType, HeldType, Executing
<1>11. ASSUME NEW c \in Conns, Acknowledge(c) PROVE TypeOK'
  <2>1. sess' \in Seq(Record) /\ Len(sess') = Len(sess)
    BY <1>11, <1>w, StatusType DEF Acknowledge
  <2>2. HandlerType'
    BY <1>t, <1>11 DEF Acknowledge, Gone, HandlerType, Executing, Working
  <2>3. RecordType'
    BY <1>t, <1>11, <2>1 DEF Acknowledge, RecordType
  <2>4. HeldType'
    BY <1>t, <1>11, <2>1 DEF Acknowledge, Gone, HeldType, HandlerType, Working, Receiving
  <2> QED BY <2>2, <2>3, <2>4 DEF TypeOK
<1>12. ASSUME NEW c \in Conns, Leave(c) PROVE TypeOK'
  BY <1>t, <1>12 DEF Leave, TypeOK, HandlerType, RecordType, HeldType, Executing
<1>13. ASSUME NEW c \in Conns, ReceiveRaises(c) PROVE TypeOK'
  <2>1. CASE pc[c] = "waiting"
    <3>1. HungUp(c) \in Seq(Record) /\ Len(HungUp(c)) = Len(sess)
      BY <1>w, <2>1, StatusType DEF HungUp, Receiving
    <3> QED BY <1>13, <2>1, <3>1, TellsType DEF ReceiveRaises
  <2>2. CASE pc[c] # "waiting"
    <3>1. Gone(c) /\ UNCHANGED <<left, run, active, sess, table, db, rec, crashes>>
      BY <1>13, <2>2 DEF ReceiveRaises
    <3>2. HandlerType'
      BY <1>t, <1>13, <2>2, <3>1
      DEF ReceiveRaises, Gone, HandlerType, Executing, Working, Receiving
    <3>3. RecordType' /\ HeldType'
      BY <1>t, <3>1 DEF RecordType, Gone, HeldType, HandlerType, Working, Receiving
    <3> QED BY <3>2, <3>3 DEF TypeOK
  <2> QED BY <2>1, <2>2
<1>18. ASSUME NEW c \in Conns, Report(c) PROVE TypeOK'
  <2>1. pc[c] \in Working /\ pc[c] \in {"failing", "hungup"}
    BY <1>18 DEF Report, Working
  <2>2. CASE Returns(c, sess)
    BY <1>t, <1>18, <2>2, ReturnsType DEF Report, RecordType
  <2>3. CASE sess' = HungUp(c) /\ UNCHANGED <<pc, left, run, mine, active>>
    <3>1. HungUp(c) \in Seq(Record) /\ Len(HungUp(c)) = Len(sess)
      BY <1>w, <2>1, StatusType DEF HungUp
    <3>2. pc' = [pc EXCEPT ![c] = pc[c]]
      BY <1>t, <2>3 DEF HandlerType
    <3> QED BY <1>18, <2>1, <2>3, <3>1, <3>2, TellsType DEF Report
  <2> QED BY <1>18, <2>2, <2>3 DEF Report
<1>14. ASSUME Crash PROVE TypeOK'
  <2>1. NoRun \in Run
    BY DEF NoRun, Run
  <2>2. HandlerType'
    BY <1>t, <1>14, <2>1 DEF Crash, HandlerType, Executing
  <2>3. sess' \in Seq(Record) /\ Len(sess') = 0
    BY <1>14 DEF Crash
  <2>4. RecordType'
    BY <1>t, <1>14, <2>3, TeamOK DEF Crash, RecordType
  <2>5. HeldType'
    BY <1>14 DEF Crash, HeldType, Working, Receiving
  <2> QED BY <2>2, <2>4, <2>5 DEF TypeOK
<1>15. ASSUME NEW r \in Recoverers, Recover(r) PROVE TypeOK'
  BY <1>t, <1>15 DEF Recover, TypeOK, HandlerType, RecordType, HeldType, Executing
<1>16. ASSUME NEW r \in Recoverers, Recovered(r) PROVE TypeOK'
  <2>1. /\ sess' \in Seq(Record) /\ table' \in 0 .. Len(sess')
        /\ Len(sess') \in Nat /\ Len(sess') >= Len(sess)
    <3>1. CASE Missing
      BY <1>t, <1>16, <3>1 DEF Recovered, RecordType
    <3>2. CASE ~Missing
      <4>1. [state |-> db, status |-> "recovered"] \in Record
        BY <1>t, <3>2 DEF Missing, RecordType, Record, Statuses
      <4> QED BY <1>t, <1>16, <3>2, <4>1 DEF Recovered, RecordType
    <3> QED BY <3>1, <3>2
  <2>2. HandlerType'
    BY <1>t, <1>16 DEF Recovered, HandlerType, Executing
  <2>3. RecordType'
    BY <1>t, <1>16, <2>1 DEF Recovered, RecordType
  <2>4. HeldType'
    BY <1>t, <1>16, <2>1 DEF Recovered, HeldType, HandlerType, RecordType
  <2> QED BY <2>2, <2>3, <2>4 DEF TypeOK
<1>17. CASE UNCHANGED vars
  BY <1>t, <1>17 DEF vars, TypeOK, HandlerType, RecordType, HeldType, Executing
<1> QED
  BY <1>1, <1>2, <1>3, <1>4, <1>5, <1>6, <1>7, <1>8, <1>9, <1>10, <1>11, <1>12,
     <1>13, <1>14, <1>15, <1>16, <1>17, <1>18 DEF Next, Work

\* The types hold for any number of connections, recoveries and restarts.
THEOREM TypeCorrect == Spec => []TypeOK
<1> QED BY InitType, NextType, PTL DEF Spec

----------------------------------------------------------------------------
(* One execution at a time                                                 *)

\* Whoever returns was the one that executed: nobody is left.
LEMMA ReturnsFrees ==
  ASSUME TypeOK, OneExecution, NEW c \in Conns, c \in Executing,
         NEW records, Returns(c, records)
  PROVE  Executing' = {} /\ active' = FALSE
<1>1. pc \in [Conns -> {"new", "gone"} \cup Working \cup Receiving]
  BY DEF TypeOK, HandlerType
<1>2. \A d \in Conns : pc'[d] \notin Working \cup {"waiting"}
  BY <1>1 DEF Returns, Gone, OneExecution, Executing, Working
<1> QED BY <1>2 DEF Executing, Returns

\* Whoever executes and goes on to do so is still the only one.
LEMMA Executes ==
  ASSUME TypeOK, OneExecution, NEW c \in Conns, c \in Executing, active' = active,
         NEW p \in Working \cup {"waiting"}, pc' = [pc EXCEPT ![c] = p]
  PROVE  OneExecution' /\ c \in Executing'
<1>1. Executing' = Executing
  BY DEF Executing, TypeOK, HandlerType
<1> QED BY <1>1 DEF OneExecution

LEMMA FailsExecutes ==
  ASSUME TypeOK, OneExecution, NEW c \in Conns, c \in Executing,
         NEW records, Fails(c, records)
  PROVE  OneExecution' /\ pc'[c] = "failing"
<1>1. "failing" \in Working \cup {"waiting"}
  BY DEF Working
<1> QED BY <1>1, Executes DEF Fails, TypeOK, HandlerType

LEMMA SendRaisesKeeps ==
  ASSUME TypeOK, OneExecution, NEW c \in Conns, c \in Executing,
         NEW records, SendRaises(c, records)
  PROVE  OneExecution'
<1>1. CASE Returns(c, records)
  BY <1>1, ReturnsFrees DEF OneExecution
<1>2. CASE Fails(c, records)
  BY <1>2, FailsExecutes
<1> QED BY <1>1, <1>2 DEF SendRaises

LEMMA OneExecutionNext == TypeOK /\ OneExecution /\ [Next]_vars => OneExecution'
<1> SUFFICES ASSUME TypeOK, OneExecution, [Next]_vars PROVE OneExecution'
  OBVIOUS
<1>p. pc \in [Conns -> {"new", "gone"} \cup Working \cup Receiving]
  BY DEF TypeOK, HandlerType
<1>s. ASSUME Executing' = Executing, active' = active PROVE OneExecution'
  BY <1>s DEF OneExecution
<1>f. ASSUME Executing' = {}, active' = FALSE PROVE OneExecution'
  BY <1>f DEF OneExecution
<1>g. ASSUME NEW c \in Conns, c \in Executing, active' = active,
             NEW p \in Working \cup {"waiting"}, pc' = [pc EXCEPT ![c] = p]
      PROVE  OneExecution'
  BY <1>g, Executes
<1>w. /\ \A p \in {"starting", "running", "chunk", "ending", "waiting", "hungup"} :
           p \in Working \cup {"waiting"}
      /\ \A c \in Conns : pc[c] \in {"starting", "running", "chunk", "ending",
                                    "failing", "hungup", "waiting"}
           => c \in Executing
  BY DEF Working, Executing
<1>1. ASSUME NEW c \in Conns, Connect(c) PROVE OneExecution'
  <2>1. CASE pc' = [pc EXCEPT ![c] = "starting"] /\ active' = TRUE /\ ~active
    <3>1. Executing = {}
      BY <2>1 DEF OneExecution
    <3>2. Executing' = {c}
      BY <1>p, <2>1, <3>1 DEF Executing, Working
    <3> QED BY <2>1, <3>2 DEF OneExecution
  <2>2. CASE /\ active' = active
             /\ \E p \in {"gone", "helper", "observer"} : pc' = [pc EXCEPT ![c] = p]
    <3>1. pc[c] = "new"
      BY <1>1 DEF Connect
    <3>2. Executing' = Executing
      BY <1>p, <2>2, <3>1 DEF Executing, Working
    <3> QED BY <1>s, <2>2, <3>2
  <2> QED BY <1>1, <2>1, <2>2 DEF Connect, Gone, Busy
<1>2. ASSUME NEW c \in Conns, StartRun(c) PROVE OneExecution'
  BY <1>2, <1>g, <1>w, SendRaisesKeeps DEF StartRun
<1>3. ASSUME NEW c \in Conns, RunNode(c) PROVE OneExecution'
  BY <1>3, <1>g, <1>w DEF RunNode
<1>4. ASSUME NEW c \in Conns, GraphRaises(c) PROVE OneExecution'
  BY <1>4, <1>w, FailsExecutes DEF GraphRaises
<1>5. ASSUME NEW c \in Conns, HandleChunk(c) PROVE OneExecution'
  BY <1>5, <1>g, <1>w, SendRaisesKeeps DEF HandleChunk
<1>6. ASSUME NEW c \in Conns, Ask(c) PROVE OneExecution'
  BY <1>6, <1>g, <1>w, SendRaisesKeeps DEF Ask
<1>7. ASSUME NEW c \in Conns, Answer(c) PROVE OneExecution'
  BY <1>7, <1>g, <1>w DEF Answer
<1>8. ASSUME NEW c \in Conns, Complete(c) PROVE OneExecution'
  BY <1>8, <1>g, <1>w DEF Complete
<1>9. ASSUME NEW c \in Conns, End(c) PROVE OneExecution'
  BY <1>9, <1>f, <1>w, ReturnsFrees, SendRaisesKeeps DEF End
<1>10. ASSUME NEW c \in Conns, Acknowledge(c) \/ (ReceiveRaises(c) /\ pc[c] # "waiting")
       PROVE  OneExecution'
  <2>1. /\ pc[c] \in {"helper", "observer"} /\ pc' = [pc EXCEPT ![c] = "gone"]
        /\ active' = active
    BY <1>10 DEF Acknowledge, ReceiveRaises, Gone, Receiving
  <2>2. Executing' = Executing
    BY <1>p, <2>1 DEF Executing, Working
  <2> QED BY <1>s, <2>1, <2>2
<1>11. ASSUME NEW c \in Conns, ReceiveRaises(c), pc[c] = "waiting" PROVE OneExecution'
  BY <1>11, <1>g, <1>w DEF ReceiveRaises
<1>14. ASSUME NEW c \in Conns, Report(c) PROVE OneExecution'
  <2>1. CASE Returns(c, sess)
    BY <1>14, <1>f, <1>w, <2>1, ReturnsFrees DEF Report
  <2>2. CASE UNCHANGED <<pc, active>>
    BY <1>s, <2>2 DEF Executing
  <2> QED BY <1>14, <2>1, <2>2 DEF Report
<1>12. ASSUME Crash PROVE OneExecution'
  <2>1. Executing' = {}
    BY <1>12 DEF Crash, Executing, Working
  <2> QED BY <1>12, <1>f, <2>1 DEF Crash
<1>13. ASSUME UNCHANGED <<pc, active>> PROVE OneExecution'
  BY <1>13, <1>s DEF Executing
<1> QED
  BY <1>1, <1>2, <1>3, <1>4, <1>5, <1>6, <1>7, <1>8, <1>9, <1>10, <1>11, <1>12, <1>13,
     <1>14
  DEF Next, Work, Checkpoint, Leave, Recover, Recovered, vars

LEMMA OneExecutionInit == Init => OneExecution
<1> SUFFICES ASSUME Init PROVE Executing = {} /\ active = FALSE
  BY DEF OneExecution
<1> QED BY DEF Init, Executing, Working

\* However many connect, leave, answer and recover: one execution at a time, and
\* the mark of one exactly while there is one.
THEOREM OneExecutionAlways == Spec => []OneExecution
<1> QED BY TypeCorrect, OneExecutionInit, OneExecutionNext, PTL DEF Spec

----------------------------------------------------------------------------
(* Questions somebody can answer                                           *)

NoneAwaits(records) == \A n \in DOMAIN records : records[n].status # "awaiting_input"

\* While a handler works nobody waits for an answer, and when one goes on or
\* gives up after its questions nobody waits any longer.
LEMMA WorkingAwaitsNothing ==
  ASSUME TypeOK, OneExecution, AwaitingIsHeld, NEW c \in Conns, pc[c] \in Working
  PROVE  NoneAwaits(sess)
<1>1. \A d \in Conns : pc[d] # "waiting"
  BY DEF OneExecution, Executing, Working
<1> QED BY <1>1 DEF AwaitingIsHeld, NoneAwaits

LEMMA StatusAwaitsNothing ==
  ASSUME TypeOK, OneExecution, AwaitingIsHeld,
         NEW c \in Conns, pc[c] \in Working \cup {"waiting"},
         NEW s \in Statuses \ {"awaiting_input"}
  PROVE  NoneAwaits(Status(c, s))
<1>1. mine[c] \in 1 .. Len(sess) /\ sess \in Seq(Record)
  BY DEF TypeOK, HeldType, RecordType, Receiving
<1>2. DOMAIN Status(c, s) = DOMAIN sess /\ Status(c, s)[mine[c]].status = s
  BY <1>1 DEF Status, Record
<1>3. \A n \in DOMAIN sess : n # mine[c] => Status(c, s)[n] = sess[n]
  BY <1>1 DEF Status
<1>4. \A n \in DOMAIN sess : n # mine[c] => sess[n].status # "awaiting_input"
  BY DEF OneExecution, Executing, AwaitingIsHeld
<1> QED BY <1>2, <1>3, <1>4 DEF NoneAwaits

LEMMA SendRaisesAwaitsNothing ==
  ASSUME TypeOK, NEW c \in Conns, pc[c] \in Working,
         NEW records \in Seq(Record), Len(records) = Len(sess),
         NoneAwaits(records), SendRaises(c, records)
  PROVE  NoneAwaits(sess')
<1>1. mine[c] \in 1 .. Len(records)
  BY DEF TypeOK, HeldType
<1>2. NoneAwaits([records EXCEPT ![mine[c]].status = "error"])
  BY <1>1 DEF NoneAwaits, Record
<1> QED BY <1>2 DEF SendRaises, Returns, Fails

LEMMA AwaitingNext ==
  TypeOK /\ OneExecution /\ AwaitingIsHeld /\ [Next]_vars => AwaitingIsHeld'
<1> SUFFICES ASSUME TypeOK, OneExecution, AwaitingIsHeld, [Next]_vars
             PROVE  AwaitingIsHeld'
  OBVIOUS
<1>t. /\ pc \in [Conns -> {"new", "gone"} \cup Working \cup Receiving]
      /\ mine \in [Conns -> Nat] /\ sess \in Seq(Record)
  BY DEF TypeOK, HandlerType, RecordType
<1>n. ASSUME NoneAwaits(sess') PROVE AwaitingIsHeld'
  BY <1>n DEF NoneAwaits, AwaitingIsHeld
<1>s. /\ {"running", "completed", "error"} \subseteq Statuses \ {"awaiting_input"}
      /\ {"starting", "running", "chunk", "ending"} \subseteq Working
  BY DEF Statuses, Working
<1>k. ASSUME sess' = sess, \A d \in Conns : pc[d] = "waiting" => pc'[d] = "waiting" /\ mine'[d] = mine[d]
      PROVE  AwaitingIsHeld'
  BY <1>k DEF AwaitingIsHeld
<1>1. ASSUME NEW c \in Conns, Connect(c) PROVE AwaitingIsHeld'
  <2>1. /\ sess' = sess
        /\ \A d \in Conns : d # c => pc'[d] = pc[d] /\ mine'[d] = mine[d]
    BY <1>t, <1>1 DEF Connect, Gone
  <2> QED BY <1>1, <1>k, <2>1 DEF Connect
<1>2. ASSUME NEW c \in Conns, StartRun(c) PROVE AwaitingIsHeld'
  <2>1. NoneAwaits(Status(c, "running"))
    BY <1>2, <1>s, StatusAwaitsNothing DEF StartRun
  <2>2. Status(c, "running") \in Seq(Record) /\ Len(Status(c, "running")) = Len(sess)
    BY <1>2, <1>s, StatusType DEF StartRun
  <2>3. CASE SendRaises(c, Status(c, "running"))
    BY <1>2, <1>n, <1>s, <2>1, <2>2, <2>3, SendRaisesAwaitsNothing DEF StartRun
  <2> QED BY <1>2, <1>n, <2>1, <2>3 DEF StartRun
<1>3. ASSUME NEW c \in Conns, RunNode(c) \/ Checkpoint(c) \/ Leave(c)
      PROVE  AwaitingIsHeld'
  <2>1. sess' = sess /\ mine' = mine
        /\ (pc' = pc \/ (pc[c] = "running" /\ pc' = [pc EXCEPT ![c] = "chunk"]))
    BY <1>3 DEF RunNode, Checkpoint, Leave
  <2> QED BY <1>k, <1>t, <2>1
<1>4. ASSUME NEW c \in Conns, GraphRaises(c) PROVE AwaitingIsHeld'
  BY <1>4, <1>n, <1>s, StatusAwaitsNothing DEF GraphRaises, Fails, Status
<1>5. ASSUME NEW c \in Conns, HandleChunk(c) PROVE AwaitingIsHeld'
  <2>1. NoneAwaits(sess)
    BY <1>5, <1>s, WorkingAwaitsNothing DEF HandleChunk
  <2>2. CASE SendRaises(c, sess)
    BY <1>5, <1>n, <1>s, <1>t, <2>1, <2>2, SendRaisesAwaitsNothing DEF HandleChunk
  <2>3. CASE sess' = IF run[c].resumed THEN sess
                     ELSE [sess EXCEPT ![mine[c]].state = run[c].st]
    <3>1. mine[c] \in 1 .. Len(sess)
      BY <1>5, <1>s DEF HandleChunk, TypeOK, HeldType
    <3>2. NoneAwaits(sess')
      BY <1>t, <2>1, <2>3, <3>1 DEF NoneAwaits, Record
    <3> QED BY <1>n, <3>2
  <2> QED BY <1>5, <2>2, <2>3 DEF HandleChunk
<1>6. ASSUME NEW c \in Conns, Ask(c) PROVE AwaitingIsHeld'
  <2>1. NoneAwaits(sess)
    BY <1>6, <1>s, WorkingAwaitsNothing DEF Ask
  <2>2. CASE SendRaises(c, sess)
    BY <1>6, <1>n, <1>s, <1>t, <2>1, <2>2, SendRaisesAwaitsNothing DEF Ask
  <2>3. CASE /\ sess' = Status(c, "awaiting_input")
             /\ pc' = [pc EXCEPT ![c] = "waiting"] /\ UNCHANGED mine
    <3>1. mine[c] \in 1 .. Len(sess)
      BY <1>6, <1>s DEF Ask, TypeOK, HeldType
    <3>2. \A n \in DOMAIN sess' : n # mine[c] => n \in DOMAIN sess /\ sess'[n] = sess[n]
      BY <1>t, <2>3, <3>1 DEF Status
    <3>3. pc'[c] = "waiting" /\ mine'[c] = mine[c]
      BY <1>t, <2>3
    <3> QED BY <2>1, <3>2, <3>3 DEF NoneAwaits, AwaitingIsHeld
  <2> QED BY <1>6, <2>2, <2>3 DEF Ask
<1>7. ASSUME NEW c \in Conns, Answer(c) \/ Complete(c) PROVE AwaitingIsHeld'
  BY <1>7, <1>n, <1>s, StatusAwaitsNothing DEF Answer, Complete
<1>8. ASSUME NEW c \in Conns, End(c) PROVE AwaitingIsHeld'
  <2>1. NoneAwaits(sess)
    BY <1>8, <1>s, WorkingAwaitsNothing DEF End
  <2> QED BY <1>8, <1>n, <1>s, <1>t, <2>1, SendRaisesAwaitsNothing DEF End, Returns
<1>9. ASSUME NEW c \in Conns, Acknowledge(c) PROVE AwaitingIsHeld'
  <2>1. mine[c] \in 1 .. Len(sess)
    BY <1>9 DEF Acknowledge, TypeOK, HeldType, Receiving
  <2>2. /\ DOMAIN sess' = DOMAIN sess
        /\ \A n \in DOMAIN sess : n # mine[c] => sess'[n] = sess[n]
        /\ sess'[mine[c]].status = "ready_to_resume"
    BY <1>9, <1>t, <2>1 DEF Acknowledge, Status, Record
  <2>3. \A d \in Conns : pc[d] = "waiting" => pc'[d] = "waiting" /\ mine'[d] = mine[d]
    BY <1>9, <1>t DEF Acknowledge, Gone
  <2> QED BY <2>2, <2>3 DEF AwaitingIsHeld
<1>10. ASSUME NEW c \in Conns, ReceiveRaises(c) PROVE AwaitingIsHeld'
  <2>1. CASE pc[c] = "waiting"
    BY <1>10, <1>n, <1>s, <2>1, StatusAwaitsNothing DEF ReceiveRaises, HungUp
  <2>2. CASE pc[c] # "waiting"
    <3>1. sess' = sess /\ Gone(c)
      BY <1>10, <2>2 DEF ReceiveRaises
    <3> QED BY <1>k, <1>t, <2>2, <3>1 DEF Gone
  <2> QED BY <2>1, <2>2
<1>14. ASSUME NEW c \in Conns, Report(c) PROVE AwaitingIsHeld'
  <2>1. pc[c] \in Working
    BY <1>14 DEF Report, Working
  <2>2. NoneAwaits(sess) /\ NoneAwaits(HungUp(c))
    BY <1>s, <2>1, WorkingAwaitsNothing, StatusAwaitsNothing DEF HungUp
  <2> QED BY <1>14, <1>n, <2>2 DEF Report, Returns
<1>11. ASSUME Crash PROVE AwaitingIsHeld'
  BY <1>11 DEF Crash, AwaitingIsHeld
<1>12. ASSUME NEW r \in Recoverers, Recover(r) \/ Recovered(r) PROVE AwaitingIsHeld'
  <2>1. pc' = pc /\ mine' = mine
    BY <1>12 DEF Recover, Recovered
  <2>2. CASE sess' = sess
    BY <1>k, <2>1, <2>2
  <2>3. CASE sess' = Append(sess, [state |-> db, status |-> "recovered"])
    <3>1. \A n \in DOMAIN sess' : sess'[n].status = "awaiting_input" =>
            n \in DOMAIN sess /\ sess'[n] = sess[n]
      BY <1>t, <2>3
    <3> QED BY <2>1, <3>1 DEF AwaitingIsHeld
  <2> QED BY <1>12, <2>2, <2>3 DEF Recover, Recovered
<1>13. CASE UNCHANGED vars
  BY <1>13 DEF vars, AwaitingIsHeld
<1> QED
  BY <1>1, <1>2, <1>3, <1>4, <1>5, <1>6, <1>7, <1>8, <1>9, <1>10, <1>11, <1>12, <1>13,
     <1>14
  DEF Next, Work

LEMMA AwaitingInit == Init => AwaitingIsHeld
BY DEF Init, AwaitingIsHeld

\* A session waits for an answer only while the connection that asked can resume
\* it: with one execution at a time nobody else can have asked.
THEOREM QuestionsAreHeld == Spec => []AwaitingIsHeld
<1> QED
  BY TypeCorrect, OneExecutionAlways, AwaitingInit, AwaitingNext, PTL DEF Spec

----------------------------------------------------------------------------
(* The bound on reviews                                                    *)

Holding == {"running", "chunk", "ending", "waiting"}
EarlyNodes == {"detect", "await", "refine", "pm", "architect"}

\* The reviews of this run are among those the state counts, none is made before
\* the engineer, and one more is made only below the limit: a state that comes
\* from an earlier run may be beyond it, and then allows one.
MayReview(r) == r.reviews = 0 \/ r.st.iter < MaxIterations
Counts(r, at) ==
  /\ r.reviews \in 0 .. MaxIterations /\ r.reviews <= r.st.iter
  /\ at \in EarlyNodes => r.reviews = 0
  /\ at = "engineer" => MayReview(r)
ReviewsInv ==
  /\ ReviewsBounded
  /\ \A c \in Conns : pc[c] \in Holding =>
       /\ Counts(run[c], run[c].at)
       /\ pc[c] = "running" /\ run[c].at = "review" => MayReview(run[c])
       /\ pc[c] = "chunk" => run[c].at \notin {"await", "end"}
       /\ pc[c] = "waiting" => run[c].at = "await"

\* A node leaves the count alone, but for a review, which adds one.
LEMMA OutcomeIter ==
  ASSUME NEW st \in TeamState, NEW node, NEW new \in Outcomes(node, st)
  PROVE  new.iter = IF node = "review" THEN st.iter + 1 ELSE st.iter
<1>1. ASSUME NEW s \in TeamState, NEW n \in Design(s) PROVE n.iter = s.iter
  BY <1>1 DEF Design, TeamState
<1>2. Counted(st) \in TeamState /\ Counted(st).iter = st.iter + 1
  BY DEF Counted, TeamState
<1>3. CASE node = "review"
  BY <1>1, <1>2, <1>3 DEF Outcomes
<1>4. CASE node = "architect"
  BY <1>1, <1>4 DEF Outcomes
<1>5. CASE node \notin {"review", "architect"}
  BY <1>5 DEF Outcomes, TeamState
<1> QED BY <1>3, <1>4, <1>5

\* A step that leaves every run it does not end as it is.
KeepsRun(c) ==
  \/ run'[c] \in {NoRun, run[c]} /\ pc'[c] \notin Holding
  \/ run'[c] = run[c] /\ pc'[c] = pc[c]

LEMMA ReviewsKeep ==
  ASSUME ReviewsInv, \A c \in Conns : KeepsRun(c)
  PROVE  ReviewsInv'
<1>1. NoRun.reviews <= MaxIterations
  BY IterationsOK DEF NoRun
<1>2. ReviewsBounded'
  BY <1>1 DEF ReviewsInv, ReviewsBounded, KeepsRun
<1> QED BY <1>2 DEF ReviewsInv, Counts, MayReview, KeepsRun

\* A step of the handler of c, which holds the run r after it.
LEMMA ReviewsStep ==
  ASSUME TypeOK, ReviewsInv, NEW c \in Conns, NEW r, NEW p,
         run' = [run EXCEPT ![c] = r], pc' = [pc EXCEPT ![c] = p],
         Counts(r, r.at),
         p = "running" /\ r.at = "review" => MayReview(r),
         p = "chunk" => r.at \notin {"await", "end"},
         p = "waiting" => r.at = "await"
  PROVE  ReviewsInv'
<1>1. /\ run'[c] = r /\ pc'[c] = p
      /\ \A d \in Conns : d # c => run'[d] = run[d] /\ pc'[d] = pc[d]
  BY DEF TypeOK, HandlerType
<1>2. ReviewsBounded'
  BY <1>1, IterationsOK DEF ReviewsInv, ReviewsBounded, Counts
<1> QED BY <1>1, <1>2 DEF ReviewsInv, Counts, MayReview

LEMMA ReviewsReturn ==
  ASSUME TypeOK, ReviewsInv, NEW c \in Conns, NEW records,
         Returns(c, records) \/ Fails(c, records)
  PROVE  ReviewsInv'
<1>1. \/ run' = [run EXCEPT ![c] = NoRun] /\ pc' = [pc EXCEPT ![c] = "gone"]
      \/ run' = run /\ pc' = [pc EXCEPT ![c] = "failing"]
  BY DEF Returns, Gone, Fails
<1>2. /\ run'[c] \in {NoRun, run[c]} /\ pc'[c] \notin Holding
      /\ \A d \in Conns : d # c => run'[d] = run[d] /\ pc'[d] = pc[d]
  BY <1>1 DEF TypeOK, HandlerType, Holding
<1>3. \A d \in Conns : KeepsRun(d)
  BY <1>2 DEF KeepsRun
<1> QED BY <1>3, ReviewsKeep

LEMMA ReviewsNext == TypeOK /\ ReviewsInv /\ [Next]_vars => ReviewsInv'
<1> SUFFICES ASSUME TypeOK, ReviewsInv, [Next]_vars PROVE ReviewsInv'
  OBVIOUS
<1>t. /\ pc \in [Conns -> {"new", "gone"} \cup Working \cup Receiving]
      /\ run \in [Conns -> Run] /\ sess \in Seq(Record)
  BY DEF TypeOK, HandlerType, RecordType
<1>h. \A c \in Conns : pc[c] \in Holding =>
        /\ run[c].at \in Nodes /\ run[c].st \in TeamState /\ run[c] \in Run
        /\ run[c].st.iter \in Nat /\ run[c].reviews \in Nat
  BY <1>t DEF TypeOK, HeldType, Holding, Run, TeamState
<1>1. ASSUME NEW c \in Conns, Connect(c) \/ Acknowledge(c) PROVE ReviewsInv'
  <2>1. run' = run /\ \E p \in {"gone", "helper", "observer", "starting"} : pc' = [pc EXCEPT ![c] = p]
    BY <1>1 DEF Connect, Acknowledge, Gone
  <2>2. \A d \in Conns : pc'[d] = pc[d] \/ pc'[d] \notin Holding
    BY <1>t, <2>1 DEF Holding
  <2>3. \A d \in Conns : KeepsRun(d)
    BY <2>1, <2>2 DEF KeepsRun
  <2> QED BY <2>3, ReviewsKeep
<1>2. ASSUME NEW c \in Conns, StartRun(c) PROVE ReviewsInv'
  <2>1. CASE SendRaises(c, Status(c, "running"))
    BY <2>1, ReviewsReturn DEF SendRaises
  <2>2. CASE /\ pc' = [pc EXCEPT ![c] = "running"]
             /\ run' = [run EXCEPT ![c] = [NoRun EXCEPT !.at = "detect",
                                                        !.st = sess[mine[c]].state]]
    <3> DEFINE r == [NoRun EXCEPT !.at = "detect", !.st = sess[mine[c]].state]
    <3>1. mine[c] \in 1 .. Len(sess)
      BY <1>2 DEF StartRun, TypeOK, HeldType, Working
    <3>2. sess[mine[c]].state \in TeamState
      <4>1. sess[mine[c]] \in Record
        BY <1>t, <3>1
      <4> QED BY <4>1 DEF Record
    <3>3. r.at = "detect" /\ r.reviews = 0 /\ r.st = sess[mine[c]].state
      BY DEF NoRun
    <3>4. r.st.iter \in Nat
      BY <3>2, <3>3 DEF TeamState
    <3>5. Counts(r, r.at)
      BY <3>3, <3>4, IterationsOK DEF Counts
    <3> QED BY <2>2, <3>3, <3>5, ReviewsStep
  <2> QED BY <1>2, <2>1, <2>2 DEF StartRun
<1>3. ASSUME NEW c \in Conns, RunNode(c) PROVE ReviewsInv'
  <2> DEFINE r == run[c]
  <2>1. /\ pc[c] = "running" /\ r.at \notin {"await", "end"}
        /\ pc' = [pc EXCEPT ![c] = "chunk"]
    BY <1>3 DEF RunNode
  <2>2. PICK st \in Outcomes(r.at, r.st) :
          run' = [run EXCEPT ![c].st = st, ![c].reviews = Reviewed(r)]
    BY <1>3 DEF RunNode
  <2> DEFINE new == [r EXCEPT !.st = st, !.reviews = Reviewed(r)]
  <2>3. run' = [run EXCEPT ![c] = new]
    BY <1>t, <2>2
  <2>4. /\ r.st \in TeamState /\ r \in Run /\ r.st.iter \in Nat /\ r.reviews \in Nat
        /\ Counts(r, r.at) /\ (r.at = "review" => MayReview(r))
    BY <1>h, <2>1 DEF ReviewsInv, Holding
  <2>5. st.iter = IF r.at = "review" THEN r.st.iter + 1 ELSE r.st.iter
    BY <2>2, <2>4, OutcomeIter
  <2>6. new.at = r.at /\ new.st = st /\ new.reviews = Reviewed(r)
    BY <2>4 DEF Run
  <2>7. CASE r.at = "review"
    <3>1. new.reviews = r.reviews + 1
      BY <2>4, <2>6, <2>7 DEF Reviewed, Counts
    <3>2. new.reviews \in 0 .. MaxIterations /\ new.reviews <= new.st.iter
      BY <2>4, <2>5, <2>6, <2>7, <3>1, IterationsOK DEF Counts, MayReview
    <3>3. Counts(new, new.at)
      BY <2>6, <2>7, <3>2 DEF Counts, EarlyNodes
    <3> QED BY <2>1, <2>3, <2>6, <3>3, ReviewsStep
  <2>8. CASE r.at # "review"
    <3>1. new.reviews = r.reviews /\ new.st.iter = r.st.iter
      BY <2>5, <2>6, <2>8 DEF Reviewed
    <3>2. Counts(new, new.at)
      BY <2>4, <2>6, <3>1 DEF Counts, MayReview
    <3> QED BY <2>1, <2>3, <2>6, <3>2, ReviewsStep
  <2> QED BY <2>7, <2>8
<1>4. ASSUME NEW c \in Conns, HandleChunk(c) PROVE ReviewsInv'
  <2> DEFINE r == run[c]
             next == Following(r.at, r.st)
             new == [r EXCEPT !.at = next]
  <2>1. CASE SendRaises(c, sess)
    BY <2>1, ReviewsReturn DEF SendRaises
  <2>2. CASE /\ run' = [run EXCEPT ![c].at = Following(run[c].at, run[c].st)]
             /\ pc' = [pc EXCEPT ![c] = "running"]
    <3>1. /\ r.at \in Nodes \ {"await", "end"} /\ r \in Run
          /\ r.reviews \in Nat /\ r.st.iter \in Nat /\ Counts(r, r.at)
      BY <1>4, <1>h DEF HandleChunk, ReviewsInv, Holding
    <3>2. run' = [run EXCEPT ![c] = new]
      BY <1>t, <2>2
    <3>3. new.at = next /\ new.st = r.st /\ new.reviews = r.reviews
      BY <3>1 DEF Run
    <3>4. /\ next \in EarlyNodes => r.at \in EarlyNodes
          /\ next = "engineer" => r.at = "architect" \/ (r.at = "review" /\ Revises(r.st))
          /\ next = "review" => r.at = "engineer"
      BY <3>1 DEF Following, EarlyNodes, Nodes
    <3>5. (next = "engineer" \/ next = "review") => MayReview(new)
      BY <3>1, <3>3, <3>4 DEF Counts, MayReview, Revises, EarlyNodes
    <3>6. Counts(new, new.at)
      BY <3>1, <3>3, <3>4, <3>5 DEF Counts
    <3> QED BY <2>2, <3>2, <3>3, <3>5, <3>6, ReviewsStep
  <2> QED BY <1>4, <2>1, <2>2 DEF HandleChunk
<1>5. ASSUME NEW c \in Conns, GraphRaises(c) \/ End(c) PROVE ReviewsInv'
  BY <1>5, ReviewsReturn DEF GraphRaises, End, SendRaises
<1>6. ASSUME NEW c \in Conns, Ask(c) PROVE ReviewsInv'
  <2>1. CASE SendRaises(c, sess)
    BY <2>1, ReviewsReturn DEF SendRaises
  <2>2. CASE pc' = [pc EXCEPT ![c] = "waiting"] /\ run' = run
    <3>1. run' = [run EXCEPT ![c] = run[c]]
      BY <1>t, <2>2
    <3>2. Counts(run[c], run[c].at) /\ run[c].at = "await"
      BY <1>6 DEF Ask, ReviewsInv, Holding
    <3> QED BY <2>2, <3>1, <3>2, ReviewsStep
  <2> QED BY <1>6, <2>1, <2>2 DEF Ask
<1>7. ASSUME NEW c \in Conns, Answer(c) PROVE ReviewsInv'
  <2> DEFINE new == [run[c] EXCEPT !.at = "refine", !.resumed = TRUE]
  <2>1. run' = [run EXCEPT ![c] = new] /\ pc' = [pc EXCEPT ![c] = "running"]
    BY <1>7, <1>t DEF Answer
  <2>2. new.at = "refine" /\ new.reviews = run[c].reviews /\ new.st = run[c].st
    BY <1>t DEF Run
  <2>3. Counts(run[c], "await")
    BY <1>7 DEF Answer, ReviewsInv, Holding
  <2>4. Counts(new, new.at)
    BY <2>2, <2>3 DEF Counts, EarlyNodes
  <2> QED BY <2>1, <2>2, <2>4, ReviewsStep
<1>8. ASSUME NEW c \in Conns, Complete(c) PROVE ReviewsInv'
  <2>1. run' = [run EXCEPT ![c] = run[c]] /\ pc' = [pc EXCEPT ![c] = "ending"]
    BY <1>8, <1>t DEF Complete
  <2>2. Counts(run[c], run[c].at)
    BY <1>8 DEF Complete, ReviewsInv, Holding
  <2> QED BY <2>1, <2>2, ReviewsStep
<1>9. ASSUME NEW c \in Conns, ReceiveRaises(c) PROVE ReviewsInv'
  <2>1. /\ run' = run
        /\ \A d \in Conns : pc'[d] = pc[d] \/ pc'[d] = "gone" \/ pc'[d] = "hungup"
    BY <1>9, <1>t DEF ReceiveRaises, Gone
  <2>2. \A d \in Conns : KeepsRun(d)
    BY <2>1 DEF KeepsRun, Holding
  <2> QED BY <2>2, ReviewsKeep
<1>12. ASSUME NEW c \in Conns, Report(c) PROVE ReviewsInv'
  <2>1. CASE Returns(c, sess)
    BY <2>1, ReviewsReturn
  <2>2. CASE UNCHANGED <<pc, run>>
    BY <2>2, ReviewsKeep DEF KeepsRun
  <2> QED BY <1>12, <2>1, <2>2 DEF Report
<1>10. ASSUME Crash PROVE ReviewsInv'
  <2>1. \A d \in Conns : KeepsRun(d)
    BY <1>10 DEF Crash, KeepsRun, Holding
  <2> QED BY <2>1, ReviewsKeep
<1>11. ASSUME UNCHANGED <<pc, run>> PROVE ReviewsInv'
  <2>1. \A d \in Conns : KeepsRun(d)
    BY <1>11 DEF KeepsRun
  <2> QED BY <2>1, ReviewsKeep
<1> QED
  BY <1>1, <1>2, <1>3, <1>4, <1>5, <1>6, <1>7, <1>8, <1>9, <1>10, <1>11, <1>12
  DEF Next, Work, Checkpoint, Leave, Recover, Recovered, vars

LEMMA ReviewsInit == Init => ReviewsInv
BY IterationsOK DEF Init, NoRun, ReviewsInv, ReviewsBounded, Holding

\* No run reviews more often than the limit, whatever state it starts from: a
\* recovered one may already count more.
THEOREM ReviewsAreBounded == Spec => []ReviewsBounded
<1>1. ReviewsInv => ReviewsBounded
  BY DEF ReviewsInv
<1> QED BY <1>1, TypeCorrect, ReviewsInit, ReviewsNext, PTL DEF Spec
----------------------------------------------------------------------------
(* The session is one run at a time (TeamRun)                              *)

\* A run that was resumed is past its questions, and who holds no run has none.
Keeping == Holding \cup {"failing", "hungup"}
PastQuestions(c) ==
  /\ pc[c] \notin Keeping => run[c] = NoRun
  /\ run[c].resumed => run[c].at \notin {"detect", "await"}
AsksInv == \A c \in Conns : PastQuestions(c)

\* A step that changes the handler and the run of c only.
LEMMA AsksStep ==
  ASSUME TypeOK, AsksInv, NEW c \in Conns, NEW r, NEW p,
         run' = [run EXCEPT ![c] = r], pc' = [pc EXCEPT ![c] = p],
         p \notin Keeping => r = NoRun,
         r.resumed => r.at \notin {"detect", "await"}
  PROVE  AsksInv'
<1>1. /\ run'[c] = r /\ pc'[c] = p
      /\ \A d \in Conns : d # c => run'[d] = run[d] /\ pc'[d] = pc[d]
  BY DEF TypeOK, HandlerType
<1> QED BY <1>1 DEF AsksInv, PastQuestions

LEMMA AsksReturn ==
  ASSUME TypeOK, AsksInv, NEW c \in Conns, NEW records,
         Returns(c, records) \/ Fails(c, records)
  PROVE  AsksInv'
<1>1. CASE Returns(c, records)
  BY <1>1, AsksStep DEF NoRun, Returns, Gone
<1>2. CASE Fails(c, records)
  <2>1. run' = [run EXCEPT ![c] = run[c]] /\ pc' = [pc EXCEPT ![c] = "failing"]
    BY <1>2 DEF Fails, TypeOK, HandlerType
  <2>2. run[c].resumed => run[c].at \notin {"detect", "await"}
    BY DEF AsksInv, PastQuestions
  <2>3. "failing" \in Keeping
    BY DEF Keeping
  <2> QED BY <2>1, <2>2, <2>3, AsksStep
<1> QED BY <1>1, <1>2

LEMMA AsksNext == TypeOK /\ AsksInv /\ [Next]_vars => AsksInv'
<1> SUFFICES ASSUME TypeOK, AsksInv, [Next]_vars PROVE AsksInv'
  OBVIOUS
<1>t. /\ pc \in [Conns -> {"new", "gone"} \cup Working \cup Receiving]
      /\ run \in [Conns -> Run]
  BY DEF TypeOK, HandlerType
<1>i. \A c \in Conns : PastQuestions(c)
  BY DEF AsksInv
<1>k. ASSUME NEW c \in Conns, NEW p, pc' = [pc EXCEPT ![c] = p], run' = run,
             pc[c] \notin Keeping \/ p \in Keeping
      PROVE  AsksInv'
  <2>1. run' = [run EXCEPT ![c] = run[c]]
    BY <1>t, <1>k
  <2> QED BY <1>i, <1>k, <2>1, AsksStep DEF PastQuestions
<1>1. ASSUME NEW c \in Conns, Connect(c) \/ Acknowledge(c) PROVE AsksInv'
  <2>1. pc[c] \in {"new", "helper"} /\ run' = run
        /\ \E p : pc' = [pc EXCEPT ![c] = p]
    BY <1>1 DEF Connect, Acknowledge, Gone
  <2> QED BY <1>k, <2>1 DEF Keeping, Holding
<1>2. ASSUME NEW c \in Conns, StartRun(c) PROVE AsksInv'
  <2> DEFINE r == [NoRun EXCEPT !.at = "detect", !.st = sess[mine[c]].state]
  <2>1. CASE SendRaises(c, Status(c, "running"))
    BY <2>1, AsksReturn DEF SendRaises
  <2>2. CASE pc' = [pc EXCEPT ![c] = "running"] /\ run' = [run EXCEPT ![c] = r]
    <3>1. ~r.resumed
      BY DEF NoRun
    <3> QED BY <2>2, <3>1, AsksStep DEF Keeping, Holding
  <2> QED BY <1>2, <2>1, <2>2 DEF StartRun
<1>3. ASSUME NEW c \in Conns, RunNode(c) PROVE AsksInv'
  <2>1. PICK st : run' = [run EXCEPT ![c].st = st, ![c].reviews = Reviewed(run[c])]
    BY <1>3 DEF RunNode
  <2> DEFINE r == [run[c] EXCEPT !.st = st, !.reviews = Reviewed(run[c])]
  <2>2. run' = [run EXCEPT ![c] = r] /\ pc' = [pc EXCEPT ![c] = "chunk"]
    BY <1>3, <1>t, <2>1 DEF RunNode
  <2>3. r.resumed = run[c].resumed /\ r.at = run[c].at
    BY <1>t DEF Run
  <2>4. r.resumed => r.at \notin {"detect", "await"}
    BY <1>i, <2>3 DEF PastQuestions
  <2> QED BY <2>2, <2>4, AsksStep DEF Keeping, Holding
<1>4. ASSUME NEW c \in Conns, HandleChunk(c) PROVE AsksInv'
  <2> DEFINE next == Following(run[c].at, run[c].st)
             r == [run[c] EXCEPT !.at = next]
  <2>1. CASE SendRaises(c, sess)
    BY <2>1, AsksReturn DEF SendRaises
  <2>2. CASE /\ run' = [run EXCEPT ![c].at = next]
             /\ pc' = [pc EXCEPT ![c] = "running"]
    <3>1. run' = [run EXCEPT ![c] = r]
      BY <1>t, <2>2
    <3>2. r.resumed = run[c].resumed /\ r.at = next
      BY <1>t DEF Run
    <3>3. next \in {"detect", "await"} => run[c].at = "detect"
      BY DEF Following
    <3>4. r.resumed => r.at \notin {"detect", "await"}
      BY <1>i, <3>2, <3>3 DEF PastQuestions
    <3> QED BY <2>2, <3>1, <3>4, AsksStep DEF Keeping, Holding
  <2> QED BY <1>4, <2>1, <2>2 DEF HandleChunk
<1>5. ASSUME NEW c \in Conns, GraphRaises(c) \/ End(c) PROVE AsksInv'
  BY <1>5, AsksReturn DEF GraphRaises, End, SendRaises
<1>6. ASSUME NEW c \in Conns, Ask(c) PROVE AsksInv'
  BY <1>6, <1>k, AsksReturn DEF Ask, SendRaises, Keeping, Holding
<1>7. ASSUME NEW c \in Conns, Answer(c) PROVE AsksInv'
  <2> DEFINE r == [run[c] EXCEPT !.at = "refine", !.resumed = TRUE]
  <2>1. run' = [run EXCEPT ![c] = r] /\ pc' = [pc EXCEPT ![c] = "running"]
    BY <1>7, <1>t DEF Answer
  <2>2. r.at = "refine"
    BY <1>t DEF Run
  <2> QED BY <2>1, <2>2, AsksStep DEF Keeping, Holding
<1>8. ASSUME NEW c \in Conns, Complete(c) PROVE AsksInv'
  BY <1>8, <1>k DEF Complete, Keeping, Holding
<1>9. ASSUME NEW c \in Conns, ReceiveRaises(c) PROVE AsksInv'
  <2>1. CASE pc[c] = "waiting"
    BY <1>9, <1>k, <2>1 DEF ReceiveRaises, Keeping
  <2>2. CASE pc[c] # "waiting"
    <3>1. pc[c] \in {"helper", "observer"} /\ pc' = [pc EXCEPT ![c] = "gone"] /\ run' = run
      BY <1>9, <2>2 DEF ReceiveRaises, Gone, Receiving
    <3> QED BY <1>k, <3>1 DEF Keeping, Holding
  <2> QED BY <2>1, <2>2
<1>12. ASSUME NEW c \in Conns, Report(c) PROVE AsksInv'
  <2>1. CASE Returns(c, sess)
    BY <2>1, AsksReturn
  <2>2. CASE UNCHANGED <<pc, run>>
    BY <2>2 DEF AsksInv, PastQuestions
  <2> QED BY <1>12, <2>1, <2>2 DEF Report
<1>10. ASSUME Crash PROVE AsksInv'
  BY <1>10 DEF Crash, AsksInv, PastQuestions, NoRun
<1>11. ASSUME UNCHANGED <<pc, run>> PROVE AsksInv'
  BY <1>11 DEF AsksInv, PastQuestions
<1> QED
  BY <1>1, <1>2, <1>3, <1>4, <1>5, <1>6, <1>7, <1>8, <1>9, <1>10, <1>11, <1>12
  DEF Next, Work, Checkpoint, Leave, Recover, Recovered, vars

LEMMA AsksInit == Init => AsksInv
BY DEF Init, AsksInv, PastQuestions, NoRun

\* All that the steps of a run rest on.
SessionInv == TypeOK /\ OneExecution /\ AwaitingIsHeld /\ ReviewsInv /\ AsksInv

\* What is seen of a session while c executes, and while nobody does; in a state
\* and in the one after it.
LEMMA OwnerIs ==
  ASSUME OneExecution, NEW c \in Executing
  PROVE  /\ c \in Conns /\ c # 0 /\ Owner = c
         /\ Phase = IF pc[c] \in Asking THEN "asking" ELSE "working"
         /\ Asked <=> pc[c] \in Asking \/ run[c].resumed
         /\ Asked \in BOOLEAN /\ Reviews = run[c].reviews
<1>1. c \in Conns /\ c # 0
  BY DEF Executing, Conns
<1>2. Owner = c
  BY DEF OneExecution, Owner
<1> QED BY <1>1, <1>2 DEF Phase, Asked, Reviews

LEMMA OwnerIsNext ==
  ASSUME OneExecution', NEW c \in Executing'
  PROVE  /\ c \in Conns /\ c # 0 /\ Owner' = c
         /\ Phase' = IF pc'[c] \in Asking THEN "asking" ELSE "working"
         /\ Asked' <=> pc'[c] \in Asking \/ run'[c].resumed
         /\ Asked' \in BOOLEAN /\ Reviews' = run'[c].reviews
<1>1. c \in Conns /\ c # 0
  BY DEF Executing, Conns
<1>2. Owner' = c
  BY DEF OneExecution, Owner
<1> QED BY <1>1, <1>2 DEF Phase, Asked, Reviews

LEMMA NobodyIs ==
  ASSUME Executing = {}
  PROVE  Owner = 0 /\ Phase = "idle" /\ Asked = FALSE /\ Reviews = 0
BY DEF Owner, Phase, Asked, Reviews

LEMMA NobodyIsNext ==
  ASSUME Executing' = {}
  PROVE  Owner' = 0 /\ Phase' = "idle" /\ Asked' = FALSE /\ Reviews' = 0
BY DEF Owner, Phase, Asked, Reviews

LEMMA QuestionIs ==
  /\ Question \in BOOLEAN /\ Question' \in BOOLEAN
  /\ Question = FALSE <=> NoneAwaits(sess)
  /\ Question' = FALSE <=> NoneAwaits(sess')
BY DEF Question, NoneAwaits

\* While nobody executes, and while the one who does is not waiting, no question
\* stands.
LEMMA NoQuestion ==
  ASSUME AwaitingIsHeld, \A c \in Conns : pc[c] # "waiting"
  PROVE  Question = FALSE
BY QuestionIs DEF AwaitingIsHeld, NoneAwaits

LEMMA IdleAsksNothing ==
  ASSUME AwaitingIsHeld, Executing = {}
  PROVE  Question = FALSE
<1>1. \A c \in Conns : pc[c] # "waiting"
  BY DEF Executing
<1> QED BY <1>1, NoQuestion

LEMMA WorkingAsksNothing ==
  ASSUME SessionInv, NEW c \in Conns, pc[c] \in Working
  PROVE  Question = FALSE /\ c \in Executing
<1>1. NoneAwaits(sess)
  BY WorkingAwaitsNothing DEF SessionInv
<1> QED BY <1>1, QuestionIs DEF Executing

\* A step after which nobody executes and no question stands ends the run.
LEMMA RunFinishes ==
  ASSUME SessionInv, NEW c \in Executing, Executing' = {}, NoneAwaits(sess')
  PROVE  Promise!Finish
<1>1. Phase # "idle"
  BY OwnerIs DEF SessionInv
<1>2. Owner' = 0 /\ Phase' = "idle" /\ Asked' = FALSE /\ Reviews' = 0
  BY NobodyIsNext
<1>3. Question' = FALSE
  BY QuestionIs
<1> QED BY <1>1, <1>2, <1>3 DEF Promise!Finish, Promise!Idle

\* A step of the one who executes that is not seen, and a step of others.
LEMMA RunGoesOn ==
  ASSUME SessionInv, OneExecution', NEW c \in Executing, c \in Executing',
         pc[c] \in Asking <=> pc'[c] \in Asking,
         run'[c].resumed = run[c].resumed, run'[c].reviews = run[c].reviews,
         Question' = Question
  PROVE  UNCHANGED Promise!vars
<1>1. /\ Owner = c /\ Phase = (IF pc[c] \in Asking THEN "asking" ELSE "working")
      /\ Asked <=> pc[c] \in Asking \/ run[c].resumed
      /\ Asked \in BOOLEAN /\ Reviews = run[c].reviews
  BY OwnerIs DEF SessionInv
<1>2. /\ Owner' = c /\ Phase' = (IF pc'[c] \in Asking THEN "asking" ELSE "working")
      /\ Asked' <=> pc'[c] \in Asking \/ run'[c].resumed
      /\ Asked' \in BOOLEAN /\ Reviews' = run'[c].reviews
  BY OwnerIsNext
<1>3. Asked' = Asked
  BY <1>1, <1>2
<1> QED BY <1>1, <1>2, <1>3 DEF Promise!vars

LEMMA OthersGoOn ==
  ASSUME SessionInv, OneExecution', Executing' = Executing,
         \A c \in Executing : pc'[c] = pc[c] /\ run'[c] = run[c],
         Question' = Question
  PROVE  UNCHANGED Promise!vars
<1>1. CASE Executing = {}
  BY <1>1, NobodyIs, NobodyIsNext DEF Promise!vars
<1>2. ASSUME NEW c \in Executing PROVE UNCHANGED Promise!vars
  BY <1>2, RunGoesOn
<1> QED BY <1>1, <1>2

\* A step of a handler that works and goes on to work.
Toiling == Working \ Asking
LEMMA WorkGoesOn ==
  ASSUME SessionInv, OneExecution', NEW c \in Conns, pc[c] \in Toiling,
         pc'[c] \in Toiling, NoneAwaits(sess'),
         run'[c].resumed = run[c].resumed, run'[c].reviews = run[c].reviews
  PROVE  UNCHANGED Promise!vars
<1>1. Question = FALSE /\ Question' = FALSE /\ c \in Executing
  BY WorkingAsksNothing, QuestionIs DEF Toiling
<1>2. c \in Executing' /\ pc[c] \notin Asking /\ pc'[c] \notin Asking
  BY DEF Executing, Toiling
<1> QED BY <1>1, <1>2, RunGoesOn

LEMMA FailureGoesOn ==
  ASSUME SessionInv, OneExecution', NEW c \in Conns, pc[c] \in Toiling,
         NEW records \in Seq(Record), Len(records) = Len(sess), NoneAwaits(records),
         Fails(c, records)
  PROVE  UNCHANGED Promise!vars
<1>1. /\ TypeOK /\ OneExecution /\ mine[c] \in 1 .. Len(records)
      /\ c \in Executing
  BY DEF SessionInv, TypeOK, HeldType, Toiling, Executing
<1>2. NoneAwaits(sess')
  BY <1>1 DEF Fails, NoneAwaits, Record
<1>3. pc'[c] \in Toiling /\ run' = run
  BY <1>1, FailsExecutes DEF Fails, Toiling, Working, Asking
<1> QED BY <1>2, <1>3, WorkGoesOn

LEMMA ReturnFinishes ==
  ASSUME SessionInv, NEW c \in Executing, NEW records, NoneAwaits(records),
         Returns(c, records)
  PROVE  Promise!Finish
<1>1. Executing' = {}
  BY ReturnsFrees DEF SessionInv, Executing
<1> QED BY <1>1, RunFinishes DEF Returns

\* A send that raises ends the run, or goes on to say so.
LEMMA SendRaisesFinishes ==
  ASSUME SessionInv, OneExecution', NEW c \in Conns, pc[c] \in Toiling,
         NEW records \in Seq(Record), Len(records) = Len(sess), NoneAwaits(records),
         SendRaises(c, records)
  PROVE  Promise!Finish \/ UNCHANGED Promise!vars
<1>1. c \in Executing
  BY DEF Executing, Toiling
<1>2. CASE Returns(c, records)
  BY <1>1, <1>2, ReturnFinishes
<1>3. CASE Fails(c, records)
  BY <1>3, FailureGoesOn
<1> QED BY <1>2, <1>3 DEF SendRaises

\* Each step of a session is one of the run, or is not seen.
LEMMA RunNext ==
  SessionInv /\ SessionInv' /\ [Next]_vars => [Promise!Next]_(Promise!vars)
<1> SUFFICES ASSUME SessionInv, SessionInv', [Next]_vars
             PROVE  Promise!Next \/ UNCHANGED Promise!vars
  OBVIOUS
<1>t. /\ pc \in [Conns -> {"new", "gone"} \cup Working \cup Receiving]
      /\ run \in [Conns -> Run]
      /\ mine \in [Conns -> Nat] /\ sess \in Seq(Record)
  BY DEF SessionInv, TypeOK, HandlerType, RecordType
<1>i. /\ TypeOK /\ OneExecution /\ AwaitingIsHeld /\ ReviewsInv /\ AsksInv
      /\ OneExecution' /\ AwaitingIsHeld' /\ ReviewsInv'
  BY DEF SessionInv
<1>s. /\ {"running", "completed", "error"} \subseteq Statuses \ {"awaiting_input"}
      /\ {"starting", "running", "chunk", "ending", "failing"} = Toiling
      /\ Toiling \subseteq Working
  BY DEF Statuses, Toiling, Working, Asking
<1>f. Promise!Finish => Promise!Next
  BY DEF Promise!Next
<1>1. ASSUME NEW c \in Conns, Connect(c) PROVE Promise!Next \/ UNCHANGED Promise!vars
  <2>0. Question' = Question
    BY <1>1 DEF Connect, Question
  <2>1. CASE pc' = [pc EXCEPT ![c] = "starting"] /\ ~active
    <3>1. Executing = {}
      BY <1>i, <2>1 DEF OneExecution
    <3>2. c \in Executing' /\ pc'[c] = "starting"
      BY <1>t, <2>1 DEF Executing, Working
    <3>3. run'[c] = NoRun
      BY <1>1, <1>i DEF Connect, AsksInv, PastQuestions, Keeping, Holding
    <3>4. Owner' = c /\ Phase' = "working" /\ Asked' = FALSE /\ Reviews' = 0
      BY <1>i, <3>2, <3>3, OwnerIsNext DEF NoRun, Asking
    <3>5. /\ Owner = 0 /\ Phase = "idle" /\ Asked = FALSE /\ Reviews = 0
          /\ Question = FALSE
      BY <1>i, <3>1, NobodyIs, IdleAsksNothing
    <3>6. Promise!Start(c)
      BY <2>0, <3>4, <3>5 DEF Promise!Start, Promise!Idle
    <3> QED BY <3>6 DEF Promise!Next
  <2>2. CASE \E p \in {"gone", "helper", "observer"} : pc' = [pc EXCEPT ![c] = p]
    <3>1. pc[c] = "new" /\ run' = run
      BY <1>1 DEF Connect
    <3>2. Executing' = Executing /\ \A d \in Executing : pc'[d] = pc[d]
      BY <1>t, <2>2, <3>1 DEF Executing, Working
    <3> QED BY <1>i, <2>0, <3>1, <3>2, OthersGoOn
  <2> QED BY <1>1, <2>1, <2>2 DEF Connect, Gone, Busy
<1>2. ASSUME NEW c \in Conns, StartRun(c)
      PROVE  Promise!Next \/ UNCHANGED Promise!vars
  <2>1. pc[c] \in Toiling /\ pc[c] \in Working
    BY <1>2, <1>s DEF StartRun
  <2>2. NoneAwaits(Status(c, "running"))
    BY <1>i, <1>s, <2>1, StatusAwaitsNothing
  <2>3. Status(c, "running") \in Seq(Record) /\ Len(Status(c, "running")) = Len(sess)
    BY <1>i, <1>s, <2>1, StatusType
  <2>4. CASE SendRaises(c, Status(c, "running"))
    BY <1>f, <1>i, <2>1, <2>2, <2>3, <2>4, SendRaisesFinishes
  <2>5. CASE /\ pc' = [pc EXCEPT ![c] = "running"] /\ sess' = Status(c, "running")
             /\ run' = [run EXCEPT ![c] = [NoRun EXCEPT !.at = "detect",
                                                        !.st = sess[mine[c]].state]]
    <3>1. run[c] = NoRun
      BY <1>2, <1>i DEF StartRun, AsksInv, PastQuestions, Keeping, Holding
    <3>2. run'[c].resumed = run[c].resumed /\ run'[c].reviews = run[c].reviews
      BY <1>t, <2>5, <3>1 DEF NoRun
    <3>3. pc'[c] \in Toiling
      BY <1>s, <1>t, <2>5
    <3> QED BY <1>i, <2>1, <2>2, <2>5, <3>2, <3>3, WorkGoesOn
  <2> QED BY <1>2, <2>4, <2>5 DEF StartRun
<1>3. ASSUME NEW c \in Conns, RunNode(c)
      PROVE  Promise!Next \/ UNCHANGED Promise!vars
  <2>1. PICK st : run' = [run EXCEPT ![c].st = st, ![c].reviews = Reviewed(run[c])]
    BY <1>3 DEF RunNode
  <2>2. /\ pc[c] \in Toiling /\ pc[c] \in Working /\ pc[c] \notin Asking
        /\ pc'[c] \in Toiling /\ pc'[c] \in Working /\ pc'[c] \notin Asking
    BY <1>3, <1>s, <1>t DEF RunNode, Toiling
  <2>3. run'[c].resumed = run[c].resumed /\ run'[c].reviews = Reviewed(run[c])
    BY <1>t, <2>1 DEF Run
  <2>4. NoneAwaits(sess) /\ sess' = sess
    BY <1>3, <1>i, <2>2, WorkingAwaitsNothing DEF RunNode
  <2>5. CASE Reviewed(run[c]) = run[c].reviews
    BY <1>i, <2>2, <2>3, <2>4, <2>5, WorkGoesOn
  <2>6. CASE Reviewed(run[c]) # run[c].reviews
    <3>1. Reviewed(run[c]) = run[c].reviews + 1
      BY <2>6 DEF Reviewed
    <3>2. run[c].reviews \in Nat /\ run'[c].reviews <= MaxIterations
      BY <1>i, <1>t DEF Run, ReviewsInv, ReviewsBounded
    <3>3. c \in Executing /\ c \in Executing'
      BY <2>2 DEF Executing
    <3>4. /\ Owner = c /\ Phase = "working" /\ Reviews = run[c].reviews
          /\ Asked <=> run[c].resumed
          /\ Asked \in BOOLEAN
      BY <1>i, <2>2, <3>3, OwnerIs
    <3>5. /\ Owner' = c /\ Phase' = "working" /\ Reviews' = run'[c].reviews
          /\ Asked' <=> run'[c].resumed
          /\ Asked' \in BOOLEAN
      BY <1>i, <2>2, <3>3, OwnerIsNext
    <3>6. Asked' = Asked /\ Question' = Question
      <4>1. Asked' = Asked
        BY <2>3, <3>4, <3>5
      <4> QED BY <2>4, <4>1 DEF Question
    <3>7. Reviews < MaxIterations /\ Reviews' = Reviews + 1
      BY <2>3, <3>1, <3>2, <3>4, <3>5, IterationsOK
    <3>8. Promise!Review
      BY <3>4, <3>5, <3>6, <3>7 DEF Promise!Review
    <3> QED BY <3>8 DEF Promise!Next
  <2> QED BY <2>5, <2>6
<1>4. ASSUME NEW c \in Conns, GraphRaises(c)
      PROVE  Promise!Next \/ UNCHANGED Promise!vars
  <2>1. pc[c] \in Toiling /\ pc[c] \in Working
    BY <1>4, <1>s DEF GraphRaises
  <2>2. NoneAwaits(sess)
    BY <1>i, <2>1, WorkingAwaitsNothing
  <2> QED BY <1>4, <1>i, <1>t, <2>1, <2>2, FailureGoesOn DEF GraphRaises
<1>5. ASSUME NEW c \in Conns, HandleChunk(c)
      PROVE  Promise!Next \/ UNCHANGED Promise!vars
  <2>1. pc[c] \in Toiling /\ pc[c] \in Working
    BY <1>5, <1>s DEF HandleChunk
  <2>2. NoneAwaits(sess)
    BY <1>i, <2>1, WorkingAwaitsNothing
  <2>3. CASE SendRaises(c, sess)
    BY <1>f, <1>i, <1>t, <2>1, <2>2, <2>3, SendRaisesFinishes
  <2>4. CASE /\ sess' = IF run[c].resumed THEN sess
                        ELSE [sess EXCEPT ![mine[c]].state = run[c].st]
             /\ run' = [run EXCEPT ![c].at = Following(run[c].at, run[c].st)]
             /\ pc' = [pc EXCEPT ![c] = "running"]
    <3>1. mine[c] \in 1 .. Len(sess)
      BY <1>i, <2>1 DEF TypeOK, HeldType
    <3>2. NoneAwaits(sess')
      BY <1>t, <2>2, <2>4, <3>1 DEF NoneAwaits, Record
    <3>3. run'[c].resumed = run[c].resumed /\ run'[c].reviews = run[c].reviews
      BY <1>t, <2>4 DEF Run
    <3>4. pc'[c] \in Toiling
      BY <1>s, <1>t, <2>4
    <3> QED BY <1>i, <2>1, <3>2, <3>3, <3>4, WorkGoesOn
  <2> QED BY <1>5, <2>3, <2>4 DEF HandleChunk
<1>6. ASSUME NEW c \in Conns, Ask(c) PROVE Promise!Next \/ UNCHANGED Promise!vars
  <2>1. /\ pc[c] = "running" /\ pc[c] \in Working /\ run[c].at = "await"
        /\ pc[c] \in Toiling /\ pc[c] \notin Asking
    BY <1>6, <1>s DEF Ask, Asking
  <2>2. NoneAwaits(sess)
    BY <1>i, <2>1, WorkingAwaitsNothing
  <2>3. CASE SendRaises(c, sess)
    BY <1>f, <1>i, <1>t, <2>1, <2>2, <2>3, SendRaisesFinishes
  <2>4. CASE /\ sess' = Status(c, "awaiting_input") /\ run' = run
             /\ pc' = [pc EXCEPT ![c] = "waiting"]
    <3>1. ~run[c].resumed /\ run[c].reviews = 0
      BY <1>i, <2>1
      DEF AsksInv, PastQuestions, ReviewsInv, Counts, Holding, EarlyNodes
    <3>2. c \in Executing /\ c \in Executing' /\ pc'[c] \in Asking
      BY <1>t, <2>1, <2>4 DEF Executing, Asking
    <3>3. /\ Owner = c /\ Phase = "working" /\ Asked = FALSE /\ Reviews = 0
      BY <1>i, <2>1, <3>1, <3>2, OwnerIs
    <3>4. /\ Owner' = c /\ Phase' = "asking" /\ Asked' = TRUE /\ Reviews' = 0
      BY <1>i, <2>4, <3>1, <3>2, OwnerIsNext
    <3>5. mine[c] \in 1 .. Len(sess)
      BY <1>i, <2>1 DEF TypeOK, HeldType
    <3>6. mine[c] \in DOMAIN sess' /\ sess'[mine[c]].status = "awaiting_input"
      BY <1>t, <2>4, <3>5 DEF Status, Record
    <3>7. Question' = TRUE
      BY <3>6 DEF Question
    <3>8. Promise!Question
      BY <3>3, <3>4, <3>7 DEF Promise!Question
    <3> QED BY <3>8 DEF Promise!Next
  <2> QED BY <1>6, <2>3, <2>4 DEF Ask
<1>7. ASSUME NEW c \in Conns, Answer(c) PROVE Promise!Next \/ UNCHANGED Promise!vars
  <2>1. pc[c] = "waiting" /\ pc'[c] = "running" /\ pc[c] \in Asking /\ pc'[c] \notin Asking
    BY <1>7, <1>t DEF Answer, Asking
  <2>2. c \in Executing /\ c \in Executing'
    BY <2>1 DEF Executing, Working
  <2>3. run'[c].resumed = TRUE /\ run'[c].reviews = run[c].reviews
    BY <1>7, <1>t DEF Answer, Run
  <2>4. Question' = FALSE
    BY <1>7, <1>i, <1>s, <2>1, StatusAwaitsNothing, QuestionIs DEF Answer
  <2>5. Owner = c /\ Phase = "asking" /\ Asked = TRUE /\ Reviews = run[c].reviews
    BY <1>i, <2>1, <2>2, OwnerIs
  <2>6. Owner' = c /\ Phase' = "working" /\ Asked' = TRUE /\ Reviews' = run'[c].reviews
    BY <1>i, <2>1, <2>2, <2>3, OwnerIsNext
  <2>7. Promise!Answered
    BY <2>3, <2>4, <2>5, <2>6 DEF Promise!Answered
  <2> QED BY <2>7 DEF Promise!Next
<1>8. ASSUME NEW c \in Conns, Complete(c) PROVE Promise!Next \/ UNCHANGED Promise!vars
  <2>1. pc[c] \in Toiling /\ pc[c] \in Working /\ pc'[c] \in Toiling /\ run' = run
    BY <1>8, <1>s, <1>t DEF Complete
  <2>2. NoneAwaits(sess')
    BY <1>8, <1>i, <1>s, <2>1, StatusAwaitsNothing DEF Complete
  <2> QED BY <1>i, <2>1, <2>2, WorkGoesOn
<1>9. ASSUME NEW c \in Conns, End(c) PROVE Promise!Next \/ UNCHANGED Promise!vars
  <2>1. pc[c] \in Toiling /\ pc[c] \in Working /\ c \in Executing
    BY <1>9, <1>s DEF End, Executing
  <2>2. NoneAwaits(sess)
    BY <1>i, <2>1, WorkingAwaitsNothing
  <2> QED
    BY <1>9, <1>f, <1>i, <1>t, <2>1, <2>2, ReturnFinishes, SendRaisesFinishes DEF End
<1>10. ASSUME NEW c \in Conns, Acknowledge(c)
       PROVE  Promise!Next \/ UNCHANGED Promise!vars
  <2>1. pc[c] = "helper" /\ pc' = [pc EXCEPT ![c] = "gone"] /\ run' = run
    BY <1>10 DEF Acknowledge, Gone
  <2>2. Executing' = Executing /\ \A d \in Executing : pc'[d] = pc[d] /\ run'[d] = run[d]
    BY <1>t, <2>1 DEF Executing, Working
  <2>3. mine[c] \in 1 .. Len(sess)
    BY <1>i, <2>1 DEF TypeOK, HeldType, Receiving
  <2>4. /\ DOMAIN sess' = DOMAIN sess
        /\ \A n \in DOMAIN sess : n # mine[c] => sess'[n] = sess[n]
        /\ sess'[mine[c]].status = "ready_to_resume"
    BY <1>10, <1>t, <2>3 DEF Acknowledge, Status, Record
  <2>5. Question' => Question
    BY <2>4 DEF Question
  <2>6. CASE Question' = Question
    BY <1>i, <2>2, <2>6, OthersGoOn
  <2>7. CASE Question' # Question
    <3>1. Question = TRUE /\ Question' = FALSE
      BY <2>5, <2>7, QuestionIs
    <3>2. PICK d \in Conns : pc[d] = "waiting"
      BY <1>i, <3>1 DEF Question, AwaitingIsHeld
    <3>3. /\ d \in Executing /\ d \in Executing' /\ run'[d] = run[d]
          /\ pc[d] \in Asking /\ pc'[d] \in Asking
      BY <2>2, <3>2 DEF Executing, Asking
    <3>4. Owner = d /\ Phase = "asking" /\ Asked = TRUE /\ Reviews = run[d].reviews
      BY <1>i, <3>2, <3>3, OwnerIs
    <3>5. Owner' = d /\ Phase' = "asking" /\ Asked' = TRUE /\ Reviews' = run[d].reviews
      BY <1>i, <3>3, OwnerIsNext
    <3>6. Promise!Noted
      BY <3>1, <3>4, <3>5 DEF Promise!Noted
    <3> QED BY <3>6 DEF Promise!Next
  <2> QED BY <2>6, <2>7
<1>11. ASSUME NEW c \in Conns, ReceiveRaises(c)
       PROVE  Promise!Next \/ UNCHANGED Promise!vars
  <2>1. CASE pc[c] = "waiting"
    <3>1. Question' = FALSE /\ run' = run
      BY <1>11, <1>i, <1>s, <2>1, StatusAwaitsNothing, QuestionIs
      DEF ReceiveRaises, HungUp
    <3>2. /\ c \in Executing /\ c \in Executing'
          /\ pc[c] \in Asking /\ pc'[c] \in Asking
      BY <1>11, <1>t, <2>1 DEF ReceiveRaises, Executing, Working, Asking
    <3>3. CASE Question = TRUE
      <4>1. Owner = c /\ Phase = "asking" /\ Asked = TRUE /\ Reviews = run[c].reviews
        BY <1>i, <3>2, OwnerIs
      <4>2. Owner' = c /\ Phase' = "asking" /\ Asked' = TRUE /\ Reviews' = run[c].reviews
        BY <1>i, <3>1, <3>2, OwnerIsNext
      <4>3. Promise!Noted
        BY <3>1, <3>3, <4>1, <4>2 DEF Promise!Noted
      <4> QED BY <4>3 DEF Promise!Next
    <3>4. CASE Question = FALSE
      BY <1>i, <3>1, <3>2, <3>4, RunGoesOn
    <3> QED BY <3>3, <3>4, QuestionIs
  <2>2. CASE pc[c] # "waiting"
    <3>1. /\ pc[c] \in {"helper", "observer"} /\ pc' = [pc EXCEPT ![c] = "gone"]
          /\ run' = run /\ sess' = sess
      BY <1>11, <2>2 DEF ReceiveRaises, Gone, Receiving
    <3>2. Executing' = Executing /\ \A d \in Executing : pc'[d] = pc[d]
      BY <1>t, <3>1 DEF Executing, Working
    <3>3. Question' = Question
      BY <3>1 DEF Question
    <3> QED BY <1>i, <3>1, <3>2, <3>3, OthersGoOn
  <2> QED BY <2>1, <2>2
<1>15. ASSUME NEW c \in Conns, Report(c)
       PROVE  Promise!Next \/ UNCHANGED Promise!vars
  <2>1. pc[c] \in Working /\ c \in Executing
    BY <1>15 DEF Report, Working, Executing
  <2>2. NoneAwaits(sess) /\ NoneAwaits(HungUp(c))
    BY <1>i, <1>s, <2>1, WorkingAwaitsNothing, StatusAwaitsNothing DEF HungUp
  <2>3. CASE Returns(c, sess)
    BY <1>f, <2>1, <2>2, <2>3, ReturnFinishes
  <2>4. CASE sess' = HungUp(c) /\ UNCHANGED <<pc, run>>
    <3>1. Question' = Question /\ c \in Executing'
      BY <2>1, <2>2, <2>4, QuestionIs DEF Executing
    <3> QED BY <1>i, <2>1, <2>4, <3>1, RunGoesOn
  <2> QED BY <1>15, <2>3, <2>4 DEF Report
<1>12. ASSUME Crash PROVE Promise!Next \/ UNCHANGED Promise!vars
  <2>1. Executing' = {} /\ NoneAwaits(sess')
    BY <1>12 DEF Crash, Executing, Working, NoneAwaits
  <2>2. CASE Executing = {}
    <3>1. Question = FALSE /\ Question' = FALSE
      BY <1>i, <2>1, <2>2, IdleAsksNothing, QuestionIs
    <3> QED BY <2>1, <2>2, <3>1, NobodyIs, NobodyIsNext DEF Promise!vars
  <2>3. CASE Executing # {}
    BY <1>f, <2>1, <2>3, RunFinishes
  <2> QED BY <2>2, <2>3
<1>13. ASSUME NEW r \in Recoverers, Recover(r) \/ Recovered(r)
       PROVE  Promise!Next \/ UNCHANGED Promise!vars
  <2>1. pc' = pc /\ run' = run
    BY <1>13 DEF Recover, Recovered
  <2>2. \/ sess' = sess
        \/ sess' = Append(sess, [state |-> db, status |-> "recovered"])
    BY <1>13 DEF Recover, Recovered
  <2>3. NoneAwaits(sess') <=> NoneAwaits(sess)
    <3>1. CASE sess' = Append(sess, [state |-> db, status |-> "recovered"])
      <4>1. /\ Len(sess') = Len(sess) + 1 /\ Len(sess) \in Nat
            /\ DOMAIN sess' = 1 .. Len(sess') /\ DOMAIN sess = 1 .. Len(sess)
            /\ \A n \in DOMAIN sess : sess'[n] = sess[n]
            /\ sess'[Len(sess) + 1].status = "recovered"
        BY <1>t, <3>1
      <4> QED BY <4>1 DEF NoneAwaits
    <3> QED BY <2>2, <3>1 DEF NoneAwaits
  <2>4. Question' = Question
    BY <2>3, QuestionIs
  <2>5. Executing' = Executing
    BY <2>1 DEF Executing
  <2> QED BY <1>i, <2>1, <2>4, <2>5, OthersGoOn
<1>14. ASSUME UNCHANGED <<pc, run, sess>> PROVE UNCHANGED Promise!vars
  <2>1. Executing' = Executing /\ Question' = Question
    BY <1>14 DEF Executing, Question
  <2> QED BY <1>14, <1>i, <2>1, OthersGoOn
<1> QED
  BY <1>1, <1>2, <1>3, <1>4, <1>5, <1>6, <1>7, <1>8, <1>9, <1>10, <1>11, <1>12,
     <1>13, <1>14, <1>15
  DEF Next, Work, Checkpoint, Leave, vars

LEMMA RunInit == Init => Promise!Idle
<1> SUFFICES ASSUME Init PROVE Promise!Idle
  OBVIOUS
<1>1. Executing = {} /\ NoneAwaits(sess)
  BY DEF Init, Executing, Working, NoneAwaits
<1>2. Question = FALSE
  BY <1>1, QuestionIs
<1> QED BY <1>1, <1>2, NobodyIs DEF Promise!Idle

\* The session is the run that TeamRun describes, for any number of connections,
\* requests to recover and restarts: whatever they do in between, it is one run
\* at a time, which asks at most once, before it reviews, and is over for
\* everybody when its handler is.
THEOREM SessionIsRun == Spec => RefinesRun
<1>1. Init => ReviewsInv /\ AsksInv
  BY ReviewsInit, AsksInit
<1>2. TypeOK /\ ReviewsInv /\ AsksInv /\ [Next]_vars => ReviewsInv' /\ AsksInv'
  BY ReviewsNext, AsksNext
<1>3. Spec => [](ReviewsInv /\ AsksInv)
  BY <1>1, <1>2, TypeCorrect, PTL DEF Spec
<1>4. Spec => []SessionInv
  BY <1>3, TypeCorrect, OneExecutionAlways, QuestionsAreHeld, PTL DEF SessionInv
<1> QED BY <1>4, RunInit, RunNext, PTL DEF Spec, RefinesRun, Promise!Spec
==============================================================================
