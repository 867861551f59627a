------------------------- MODULE AgentSessionProofs -------------------------
(***************************************************************************)
(* Proofs about AgentSession for every Wait: its types, and that a close   *)
(* with patience leaves neither a runtime nor a controller behind.         *)
(***************************************************************************)
EXTENDS AgentSession, TLAPS

\* _starting says exactly that start is suspended in one of its awaits.
StartingIsAwaiting == starting <=> spc \in Awaits

\* _closed is set by the first step of close and never taken back.
ClosedIsClosing == closed <=> cpc # "none"

\* Nothing exists before start has begun; the initial events end it.
NothingBefore ==
  /\ spc = "none" => runtime = "none" /\ controller = "none"
  /\ initial => spc = "started"

\* The property is inductive with these: start, which could make more after a
\* close, is over by then or refuses to begin.
IInv ==
  /\ TypeOK
  /\ StartingIsAwaiting
  /\ ClosedIsClosing
  /\ NothingBefore
  /\ PatientCloseReleases

\* The initial state satisfies the inductive invariant.
LEMMA InitInv == Init => IInv
<1> SUFFICES ASSUME Init PROVE IInv
  OBVIOUS
<1> USE DEF Init
<1>1. Places
  BY DEF Places
<1>2. Flags
  BY DEF Flags
<1>3. Times
  BY WaitOK DEF Times
<1>4. StartingIsAwaiting
  BY DEF StartingIsAwaiting, Awaits
<1>5. ClosedIsClosing
  BY DEF ClosedIsClosing
<1>6. NothingBefore
  BY DEF NothingBefore
<1>7. PatientCloseReleases
  BY DEF PatientCloseReleases
<1>8. QED
  BY <1>1, <1>2, <1>3, <1>4, <1>5, <1>6, <1>7 DEF IInv, TypeOK

\* Every step keeps it; the one that needs all of it is the end of close.
LEMMA NextInv == IInv /\ [Next]_vars => IInv'
<1> SUFFICES ASSUME IInv, [Next]_vars PROVE IInv'
  OBVIOUS
<1> USE DEF IInv, TypeOK, Awaits, session
<1>1. CASE Start
  <2> USE <1>1 DEF Start
  <2>1. Places'
    BY DEF Places
  <2>2. Flags'
    BY DEF Flags
  <2>3. Times'
    BY WaitOK DEF Times
  <2>4. StartingIsAwaiting'
    BY DEF StartingIsAwaiting
  <2>5. ClosedIsClosing'
    BY DEF ClosedIsClosing
  <2>6. NothingBefore'
    BY DEF NothingBefore, StartingIsAwaiting
  <2>7. PatientCloseReleases'
    BY DEF PatientCloseReleases, StartingIsAwaiting, ClosedIsClosing, NothingBefore
  <2>8. QED
    BY ONLY <2>1, <2>2, <2>3, <2>4, <2>5, <2>6, <2>7 DEF IInv, TypeOK
<1>2. CASE StartRaises
  <2> USE <1>2 DEF StartRaises
  <2>1. Places'
    BY DEF Places
  <2>2. Flags'
    BY DEF Flags
  <2>3. Times'
    BY WaitOK DEF Times
  <2>4. StartingIsAwaiting'
    BY DEF StartingIsAwaiting
  <2>5. ClosedIsClosing'
    BY DEF ClosedIsClosing
  <2>6. NothingBefore'
    BY DEF NothingBefore, StartingIsAwaiting
  <2>7. PatientCloseReleases'
    BY DEF PatientCloseReleases, StartingIsAwaiting, ClosedIsClosing, NothingBefore
  <2>8. QED
    BY ONLY <2>1, <2>2, <2>3, <2>4, <2>5, <2>6, <2>7 DEF IInv, TypeOK
<1>3. CASE ConstructRuntime
  <2> USE <1>3 DEF ConstructRuntime
  <2>1. Places'
    BY DEF Places
  <2>2. Flags'
    BY DEF Flags
  <2>3. Times'
    BY WaitOK DEF Times
  <2>4. StartingIsAwaiting'
    BY DEF StartingIsAwaiting
  <2>5. ClosedIsClosing'
    BY DEF ClosedIsClosing
  <2>6. NothingBefore'
    BY DEF NothingBefore, StartingIsAwaiting
  <2>7. PatientCloseReleases'
    BY DEF PatientCloseReleases, StartingIsAwaiting, ClosedIsClosing, NothingBefore
  <2>8. QED
    BY ONLY <2>1, <2>2, <2>3, <2>4, <2>5, <2>6, <2>7 DEF IInv, TypeOK
<1>4. CASE Connected \/ Unavailable \/ Cloned \/ SetUp \/ SecretsSet
  <2> USE <1>4 DEF Connected, Unavailable, Cloned, SetUp, SecretsSet, AfterRuntime
  <2>1. Places'
    BY DEF Places
  <2>2. Flags'
    BY DEF Flags
  <2>3. Times'
    BY WaitOK DEF Times
  <2>4. StartingIsAwaiting'
    BY DEF StartingIsAwaiting
  <2>5. ClosedIsClosing'
    BY DEF ClosedIsClosing
  <2>6. NothingBefore'
    BY DEF NothingBefore, StartingIsAwaiting
  <2>7. PatientCloseReleases'
    BY DEF PatientCloseReleases, StartingIsAwaiting, ClosedIsClosing, NothingBefore
  <2>8. QED
    BY ONLY <2>1, <2>2, <2>3, <2>4, <2>5, <2>6, <2>7 DEF IInv, TypeOK
<1>5. CASE MemoryCreated
  <2> USE <1>5 DEF MemoryCreated, Finish, AddsInitial
  <2>1. Places'
    BY DEF Places
  <2>2. Flags'
    BY DEF Flags
  <2>3. Times'
    BY WaitOK DEF Times
  <2>4. StartingIsAwaiting'
    BY DEF StartingIsAwaiting
  <2>5. ClosedIsClosing'
    BY DEF ClosedIsClosing
  <2>6. NothingBefore'
    <3>1. CASE Finish
      BY <3>1 DEF NothingBefore, StartingIsAwaiting
    <3>2. CASE ~Finish
      <4>1. ~initial /\ initial' = initial /\ spc' = "mcp"
        BY <3>2 DEF NothingBefore
      <4>2. QED
        BY <4>1 DEF NothingBefore
    <3>3. QED
      BY <3>1, <3>2
  <2>7. PatientCloseReleases'
    BY DEF PatientCloseReleases, StartingIsAwaiting, ClosedIsClosing, NothingBefore
  <2>8. QED
    BY ONLY <2>1, <2>2, <2>3, <2>4, <2>5, <2>6, <2>7 DEF IInv, TypeOK
<1>6. CASE ToolsAdded
  <2> USE <1>6 DEF ToolsAdded, Finish, AddsInitial
  <2>1. Places'
    BY DEF Places
  <2>2. Flags'
    BY DEF Flags
  <2>3. Times'
    BY WaitOK DEF Times
  <2>4. StartingIsAwaiting'
    BY DEF StartingIsAwaiting
  <2>5. ClosedIsClosing'
    BY DEF ClosedIsClosing
  <2>6. NothingBefore'
    BY DEF NothingBefore, StartingIsAwaiting
  <2>7. PatientCloseReleases'
    BY DEF PatientCloseReleases, StartingIsAwaiting, ClosedIsClosing, NothingBefore
  <2>8. QED
    BY ONLY <2>1, <2>2, <2>3, <2>4, <2>5, <2>6, <2>7 DEF IInv, TypeOK
<1>7. CASE Close
  <2> USE <1>7 DEF Close, MustWait, Release, ReleaseAll, ReleaseRaises, Released, Nap
  <2>1. Places'
    BY DEF Places
  <2>2. Flags'
    BY DEF Flags
  <2>3. Times'
    BY WaitOK DEF Times
  <2>4. StartingIsAwaiting'
    BY DEF StartingIsAwaiting
  <2>5. ClosedIsClosing'
    BY DEF ClosedIsClosing
  <2>6. NothingBefore'
    BY DEF NothingBefore, StartingIsAwaiting
  <2>7. PatientCloseReleases'
    BY DEF PatientCloseReleases, StartingIsAwaiting, ClosedIsClosing, NothingBefore
  <2>8. QED
    BY ONLY <2>1, <2>2, <2>3, <2>4, <2>5, <2>6, <2>7 DEF IInv, TypeOK
<1>8. CASE Wake
  <2> USE <1>8 DEF Wake, GivesUp, MustWait, Release, ReleaseAll, ReleaseRaises, Released, Nap
  <2>1. Places'
    BY DEF Places
  <2>2. Flags'
    BY DEF Flags
  <2>3. Times'
    BY WaitOK DEF Times
  <2>4. StartingIsAwaiting'
    BY DEF StartingIsAwaiting
  <2>5. ClosedIsClosing'
    BY DEF ClosedIsClosing
  <2>6. NothingBefore'
    BY DEF NothingBefore, StartingIsAwaiting
  <2>7. PatientCloseReleases'
    BY DEF PatientCloseReleases, StartingIsAwaiting, ClosedIsClosing, NothingBefore
  <2>8. QED
    BY ONLY <2>1, <2>2, <2>3, <2>4, <2>5, <2>6, <2>7 DEF IInv, TypeOK
<1>9. CASE Tick
  <2> USE <1>9 DEF Tick
  <2>1. Places'
    BY DEF Places
  <2>2. Flags'
    BY DEF Flags
  <2>3. Times'
    BY WaitOK DEF Times
  <2>4. StartingIsAwaiting'
    BY DEF StartingIsAwaiting
  <2>5. ClosedIsClosing'
    BY DEF ClosedIsClosing
  <2>6. NothingBefore'
    BY DEF NothingBefore, StartingIsAwaiting
  <2>7. PatientCloseReleases'
    BY DEF PatientCloseReleases, StartingIsAwaiting, ClosedIsClosing, NothingBefore
  <2>8. QED
    BY ONLY <2>1, <2>2, <2>3, <2>4, <2>5, <2>6, <2>7 DEF IInv, TypeOK
<1>10. CASE ShutDown
  <2> USE <1>10 DEF ShutDown
  <2>1. Places'
    BY DEF Places
  <2>2. Flags'
    BY DEF Flags
  <2>3. Times'
    BY WaitOK DEF Times
  <2>4. StartingIsAwaiting'
    BY DEF StartingIsAwaiting
  <2>5. ClosedIsClosing'
    BY DEF ClosedIsClosing
  <2>6. NothingBefore'
    BY DEF NothingBefore, StartingIsAwaiting
  <2>7. PatientCloseReleases'
    BY DEF PatientCloseReleases, StartingIsAwaiting, ClosedIsClosing, NothingBefore
  <2>8. QED
    BY ONLY <2>1, <2>2, <2>3, <2>4, <2>5, <2>6, <2>7 DEF IInv, TypeOK
<1>11. CASE UNCHANGED vars
  <2> USE <1>11 DEF vars
  <2>1. Places'
    BY DEF Places
  <2>2. Flags'
    BY DEF Flags
  <2>3. Times'
    BY WaitOK DEF Times
  <2>4. StartingIsAwaiting'
    BY DEF StartingIsAwaiting
  <2>5. ClosedIsClosing'
    BY DEF ClosedIsClosing
  <2>6. NothingBefore'
    BY DEF NothingBefore, StartingIsAwaiting
  <2>7. PatientCloseReleases'
    BY DEF PatientCloseReleases, StartingIsAwaiting, ClosedIsClosing, NothingBefore
  <2>8. QED
    BY ONLY <2>1, <2>2, <2>3, <2>4, <2>5, <2>6, <2>7 DEF IInv, TypeOK
<1>12. QED
  BY <1>1, <1>2, <1>3, <1>4, <1>5, <1>6, <1>7, <1>8, <1>9, <1>10, <1>11 DEF Next, StartNext

\* The inductive invariant holds in every reachable state.
THEOREM Invariant == Spec => []IInv
  BY InitInv, NextInv, PTL DEF Spec

\* The variables keep their types, whatever the length of the wait.
THEOREM TypeCorrect == Spec => []TypeOK
<1>1. IInv => TypeOK
  BY DEF IInv
<1>2. QED
  BY Invariant, <1>1, PTL

\* A close that did not give up on start is the last word, in whatever order the
\* two ran and however start ended; when it returns, the runtime is released and the
\* controller closed.
THEOREM PatientCloseIsComplete == Spec => []PatientCloseReleases
<1>1. IInv => PatientCloseReleases
  BY DEF IInv
<1>2. QED
  BY Invariant, <1>1, PTL

\* After close has begun no step of start adds the initial events.
THEOREM NoLateWork == Spec => NoWorkAfterClose
<1>1. ASSUME IInv, [Next]_vars PROVE [closed => initial' = initial]_vars
  <2> SUFFICES ASSUME closed PROVE initial' = initial
    OBVIOUS
  <2>1. CASE UNCHANGED vars
    BY <2>1 DEF vars
  <2>2. CASE MemoryCreated \/ ToolsAdded
    <3>1. ~initial
      BY <1>1, <2>2 DEF IInv, NothingBefore, MemoryCreated, ToolsAdded
    <3>2. CASE Finish
      <4>1. initial' = AddsInitial \/ initial' = initial
        BY <3>2 DEF Finish
      <4>2. ~initial'
        BY <3>1, <4>1 DEF AddsInitial
      <4>3. initial \in BOOLEAN /\ initial' \in BOOLEAN
        BY <1>1, <4>1 DEF IInv, TypeOK, Flags, AddsInitial
      <4>4. QED
        BY <3>1, <4>2, <4>3
    <3>3. CASE ~Finish
      BY <2>2, <3>3 DEF MemoryCreated, ToolsAdded
    <3>4. QED
      BY <3>2, <3>3
  <2>3. CASE Start \/ Close \/ Wake \/ Tick \/ ShutDown
    BY <2>3 DEF Start, Close, Wake, Tick, ShutDown
  <2>4. CASE StartNext /\ ~MemoryCreated /\ ~ToolsAdded
    BY <2>4 DEF StartNext, StartRaises, ConstructRuntime, Connected,
                Unavailable, Cloned, SetUp, SecretsSet
  <2>5. QED
    BY <1>1, <2>1, <2>2, <2>3, <2>4 DEF Next, StartNext
<1>2. QED
  BY Invariant, <1>1, PTL DEF Spec, NoWorkAfterClose
============================================================================
