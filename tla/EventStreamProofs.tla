------------------------- MODULE EventStreamProofs -------------------------
(***************************************************************************)
(* Theorems about EventStream, for every number of writers, callbacks,     *)
(* ids and crashes.  The type invariant and the freshness of ids come      *)
(* first; durability and the write-once files follow from them.  The order *)
(* of what one writer adds follows, and with it the proof that the stream  *)
(* implements EventLog; then what close() leaves, and the cache pages.     *)
(***************************************************************************)
EXTENDS EventStream, TLAPS, FiniteSetTheorems, SequenceTheorems,
        WellFoundedInduction

\* A nonempty finite set of integers has the maximum that Max chooses.
LEMMA MaxOfFinite ==
  ASSUME NEW S \in SUBSET Int, IsFiniteSet(S), S # {}
  PROVE  Max(S) \in S /\ \A i \in S : i <= Max(S)
<1> DEFINE Above(i) == {j \in S : j > i}
           T == {Above(i) : i \in S}
<1>1. IsWellFoundedOn(StrictSubsetOrdering(S), FiniteSubsetsOf(S))
  BY FS_StrictSubsetOrderingWellFounded
<1>2. T \subseteq FiniteSubsetsOf(S)
  <2>1. \A i \in S : Above(i) \in SUBSET S
    OBVIOUS
  <2>2. \A i \in S : IsFiniteSet(Above(i))
    BY <2>1, FS_Subset
  <2> QED BY <2>1, <2>2 DEF FiniteSubsetsOf
<1>3. PICK X \in T : \A Y \in T : ~(<<Y, X>> \in StrictSubsetOrdering(S))
  <2> HIDE DEF T
  <2>1. T # {}
    BY DEF T
  <2> QED BY <1>1, <1>2, <2>1, WFMin
<1>4. PICK m \in S : X = Above(m)
  OBVIOUS
<1>5. \A j \in S : j <= m
  <2> SUFFICES ASSUME NEW j \in S, j > m PROVE FALSE
    OBVIOUS
  <2>0. j \in Int /\ m \in Int
    OBVIOUS
  <2>1. Above(j) \subseteq Above(m) /\ Above(j) # Above(m)
    <3>1. \A k \in S : k > j => k > m
      BY <2>0
    <3>2. j \in Above(m) /\ j \notin Above(j)
      BY <2>0
    <3> QED BY <3>1, <3>2
  <2>2. <<Above(j), Above(m)>> \in StrictSubsetOrdering(S)
    BY <2>1 DEF StrictSubsetOrdering
  <2> QED BY <1>3, <1>4, <2>2
<1>6. \E x \in S : \A y \in S : x >= y
  BY <1>5
<1> QED BY <1>6 DEF Max

\* Likewise the minimum that Min chooses.
LEMMA MinOfFinite ==
  ASSUME NEW S \in SUBSET Int, IsFiniteSet(S), S # {}
  PROVE  Min(S) \in S /\ \A i \in S : Min(S) <= i
<1> DEFINE Under(i) == {j \in S : j < i}
           T == {Under(i) : i \in S}
<1>1. IsWellFoundedOn(StrictSubsetOrdering(S), FiniteSubsetsOf(S))
  BY FS_StrictSubsetOrderingWellFounded
<1>2. T \subseteq FiniteSubsetsOf(S)
  <2>1. \A i \in S : Under(i) \in SUBSET S
    OBVIOUS
  <2>2. \A i \in S : IsFiniteSet(Under(i))
    BY <2>1, FS_Subset
  <2> QED BY <2>1, <2>2 DEF FiniteSubsetsOf
<1>3. PICK X \in T : \A Y \in T : ~(<<Y, X>> \in StrictSubsetOrdering(S))
  <2> HIDE DEF T
  <2>1. T # {}
    BY DEF T
  <2> QED BY <1>1, <1>2, <2>1, WFMin
<1>4. PICK m \in S : X = Under(m)
  OBVIOUS
<1>5. \A j \in S : m <= j
  <2> SUFFICES ASSUME NEW j \in S, j < m PROVE FALSE
    OBVIOUS
  <2>0. j \in Int /\ m \in Int
    OBVIOUS
  <2>1. Under(j) \subseteq Under(m) /\ Under(j) # Under(m)
    <3>1. \A k \in S : k < j => k < m
      BY <2>0
    <3>2. j \in Under(m) /\ j \notin Under(j)
      BY <2>0
    <3> QED BY <3>1, <3>2
  <2>2. <<Under(j), Under(m)>> \in StrictSubsetOrdering(S)
    BY <2>1 DEF StrictSubsetOrdering
  <2> QED BY <1>3, <1>4, <2>2
<1>6. \E x \in S : \A y \in S : x <= y
  BY <1>5
<1> QED BY <1>6 DEF Min

-----------------------------------------------------------------------------
\* The next id is a natural number above every id that has a file.
LEMMA CurIdBounds ==
  ASSUME TypeOK
  PROVE  /\ CalculateCurId \in Nat /\ CurId \in Nat
         /\ \A i \in Stored : i < CalculateCurId
<1>1. Stored \subseteq Int /\ IsFiniteSet(Stored)
  <2>1. IsFiniteSet(Ids)
    <3>1. 0 \in Int /\ MaxId - 1 \in Int
      BY ConstantsOK
    <3> QED BY <3>1, FS_Interval DEF Ids
  <2>2. Stored \in SUBSET Ids
    BY DEF Stored
  <2>3. IsFiniteSet(Stored)
    BY <2>1, <2>2, FS_Subset
  <2> QED BY <2>2, <2>3 DEF Ids
<1>2. Stored # {} => Max(Stored) \in Stored /\ \A i \in Stored : i <= Max(Stored)
  BY <1>1, MaxOfFinite
<1>3. Stored \subseteq Nat
  BY DEF Stored, Ids
<1>4. CASE Stored = {}
  BY <1>4 DEF CalculateCurId, CurId, TypeOK, WriterType, Unset
<1>5. CASE Stored # {}
  <2>1. Max(Stored) \in Nat
    BY <1>2, <1>3, <1>5
  <2>2. CalculateCurId = Max(Stored) + 1
    BY <1>5 DEF CalculateCurId
  <2> HIDE DEF Stored, CalculateCurId
  <2>3. \A i \in Stored : i < CalculateCurId
    <3> TAKE i \in Stored
    <3>1. i \in Nat /\ i <= Max(Stored)
      BY <1>2, <1>3, <1>5
    <3> QED BY <2>1, <2>2, <3>1
  <2> QED BY <2>1, <2>2, <2>3 DEF CurId, TypeOK, WriterType, Unset
<1> QED BY <1>4, <1>5

LEMMA NoEventIsNoEvent == NoEvent \notin Event
BY DEF NoEvent, Event, Ids

\* A new event is well formed as long as the bound on ids allows one.
LEMMA NewEventType ==
  ASSUME TypeOK, NEW w \in Writers, CurId < MaxId
  PROVE  NewEvent(w) \in Event /\ NewEvent(w).id = CurId
BY CurIdBounds, ConstantsOK DEF NewEvent, Event, Ids, TypeOK, SessionType

\* The initial state is well typed.
LEMMA TypeInit == Init => TypeOK
<1> SUFFICES ASSUME Init PROVE TypeOK
  OBVIOUS
<1>1. StoreType
  BY DEF Init, StoreType
<1>2. WriterType
  <2>1. << <<>> >> \in Seq(Seq(Event)) /\ << <<>> >> # <<>>
    OBVIOUS
  <2> QED BY <2>1 DEF Init, WriterType, Unset
<1>3. QueueType
  BY DEF Init, QueueType
<1>4. SubscriberType
  BY ConstantsOK DEF Init, SubscriberType, Callbacks
<1>5. SessionType
  <2>1. stop \in BOOLEAN
    BY DEF Init
  <2>2. epoch \in 0 .. MaxCrashes
    BY ConstantsOK DEF Init
  <2>3. budget \in [badEvents : Nat, badWrites : Nat, manage : Nat]
    BY ConstantsOK DEF Init
  <2>4. mcb \in Callbacks \cup {NoCallback} /\ mtodo \subseteq Callbacks
    BY DEF Init
  <2>5. mpc = "idle"
    BY DEF Init
  <2> QED BY <2>1, <2>2, <2>3, <2>4, <2>5 DEF SessionType
<1> QED BY <1>1, <1>2, <1>3, <1>4, <1>5 DEF TypeOK

\* A sequence without its head, and with one more element.
LEMMA HeadTailType ==
  ASSUME NEW S, NEW s \in Seq(S), s # <<>>
  PROVE  Head(s) \in S /\ Tail(s) \in Seq(S)
BY HeadTailProperties

\* The bounds on failures and calls stay natural numbers.
LEMMA BudgetType ==
  ASSUME SessionType
  PROVE  LET Budget == [badEvents : Nat, badWrites : Nat, manage : Nat] IN
         /\ budget.badEvents > 0 => [budget EXCEPT !.badEvents = @ - 1] \in Budget
         /\ budget.badWrites > 0 => [budget EXCEPT !.badWrites = @ - 1] \in Budget
         /\ budget.manage > 0 => [budget EXCEPT !.manage = @ - 1] \in Budget
BY DEF SessionType

\* Every step keeps the state well typed.
LEMMA TypeStep == TypeOK /\ [Next]_vars => TypeOK'
<1> SUFFICES ASSUME TypeOK, [Next]_vars PROVE TypeOK'
  OBVIOUS
<1> USE DEF TypeOK
<1>1. ASSUME NEW w \in Writers, AssignId(w) PROVE TypeOK'
  <2>1. NewEvent(w) \in Event /\ CurId \in Nat
    BY <1>1, NewEventType, CurIdBounds DEF AssignId
  <2> DEFINE page == Append(pages[Len(pages)], NewEvent(w))
             filled == [pages EXCEPT ![Len(pages)] = page]
  <2>2. /\ Len(pages) \in DOMAIN pages
        /\ filled \in Seq(Seq(Event))
        /\ DOMAIN pages = DOMAIN filled
    <3>1. Len(pages) \in 1 .. Len(pages) /\ page \in Seq(Event)
      BY <2>1 DEF WriterType
    <3> QED BY <3>1, ExceptSeq DEF WriterType
  <2>3. /\ pages' \in Seq(Seq(Event))
        /\ DOMAIN pages \subseteq DOMAIN pages'
        /\ pages' # <<>>
    <3> HIDE DEF page
    <3>1. pages' = filled \/ pages' = Append(filled, <<>>)
      BY <1>1 DEF AssignId, page
    <3> HIDE DEF filled
    <3>2. /\ Append(filled, <<>>) \in Seq(Seq(Event))
          /\ DOMAIN filled \subseteq DOMAIN Append(filled, <<>>)
      BY <2>2
    <3>3. pages' \in Seq(Seq(Event)) /\ DOMAIN pages \subseteq DOMAIN pages'
      BY <2>2, <3>1, <3>2
    <3>4. 1 \in DOMAIN pages
      BY DEF WriterType
    <3> QED BY <3>3, <3>4
  <2>4. WriterType'
    <3> HIDE DEF page, filled
    <3>1. curId' \in Nat
      BY <1>1, <2>1 DEF AssignId, NextCurId
    <3>2. wev' \in [Writers -> Event \cup {NoEvent}] /\ wpage' \in [Writers -> Nat]
      BY <1>1, <2>1, <2>2 DEF AssignId, WriterType
    <3>3. wpc' \in [Writers -> {"idle", "write", "page", "put"}]
      BY <1>1 DEF AssignId, WriterType
    <3>4. ASSUME NEW v \in Writers, wpc'[v] # "idle"
          PROVE  wev'[v] \in Event /\ wpage'[v] \in DOMAIN pages'
      <4>1. CASE v = w
        BY <1>1, <2>1, <2>2, <2>3, <4>1 DEF AssignId, WriterType
      <4>2. CASE v # w
        <5>1. wpc[v] # "idle" /\ wev'[v] = wev[v] /\ wpage'[v] = wpage[v]
          BY <1>1, <3>4, <4>2 DEF AssignId, WriterType
        <5> QED BY <2>3, <5>1 DEF WriterType
      <4> QED BY <4>1, <4>2
    <3> QED BY <2>3, <3>1, <3>2, <3>3, <3>4 DEF WriterType
  <2> QED BY <1>1, <2>4
       DEF AssignId, StoreType, QueueType,
         SubscriberType, SessionType,
           storeVars, queueVars, subVars, manageVars
<1>2. ASSUME NEW w \in Writers, AssignIdRaises(w) PROVE TypeOK'
  <2>1. curId' \in Nat
    BY <1>2, CurIdBounds DEF AssignIdRaises, NextCurId
  <2>2. WriterType'
    BY <1>2, <2>1 DEF AssignIdRaises, WriterType
  <2>3. SessionType'
    BY <1>2, BudgetType DEF AssignIdRaises, SessionType, manageVars
  <2> QED BY <1>2, <2>2, <2>3
       DEF AssignIdRaises, StoreType, QueueType, SubscriberType,
           storeVars, queueVars, subVars
<1>3. ASSUME NEW w \in Writers, WriteFile(w) PROVE TypeOK'
  BY <1>3 DEF WriteFile, StoreType, WriterType, QueueType,
         SubscriberType, SessionType,
              storeVars, writerVars, queueVars, subVars, manageVars
<1>4. ASSUME NEW w \in Writers, WriteFileRaises(w) \/ StoreCachePageRaises(w) PROVE TypeOK'
  <2>1. WriterType'
    BY <1>4 DEF WriteFileRaises, StoreCachePageRaises, WriterType
  <2>2. SessionType'
    BY <1>4, BudgetType DEF WriteFileRaises, StoreCachePageRaises, SessionType, manageVars
  <2> QED BY <1>4, <2>1, <2>2
       DEF WriteFileRaises, StoreCachePageRaises, StoreType, QueueType, SubscriberType,
           storeVars, queueVars, subVars
<1>5. ASSUME NEW w \in Writers, StoreCachePage(w) PROVE TypeOK'
  <2>1. pages[wpage[w]] \in Seq(Event)
    BY <1>5 DEF StoreCachePage, WriterType
  <2>2. StoreType'
    BY <1>5, <2>1 DEF StoreCachePage, StoreType
  <2>3. WriterType'
    BY <1>5 DEF StoreCachePage, WriterType
  <2> QED BY <1>5, <2>2, <2>3
       DEF StoreCachePage, QueueType,
         SubscriberType, SessionType,
           queueVars, subVars, manageVars
<1>6. ASSUME NEW w \in Writers, Enqueue(w) PROVE TypeOK'
  <2>1. wev[w] \in Event
    BY <1>6 DEF Enqueue, WriterType
  <2>2. Append(queue, wev[w]) \in Seq(Event)
    BY <2>1 DEF QueueType
  <2>3. WriterType'
    BY <1>6 DEF Enqueue, WriterType
  <2>4. QueueType'
    BY <1>6, <2>2 DEF Enqueue, QueueType, queueVars
  <2> QED BY <1>6, <2>3, <2>4
       DEF Enqueue, StoreType, SubscriberType, SessionType,
           storeVars, subVars, manageVars
<1>7. CASE CheckStopFlag \/ SeesShutdown
  BY <1>7 DEF CheckStopFlag, SeesShutdown, StoreType, WriterType, QueueType,
         SubscriberType, SessionType,
              storeVars, writerVars, queueVars, subVars, manageVars
<1>8. CASE GetTimesOut
  BY <1>8 DEF GetTimesOut, StoreType, WriterType, QueueType,
         SubscriberType, SessionType,
              storeVars, writerVars, queueVars, subVars, manageVars
<1>9. CASE GetEvent
  <2>1. Head(queue) \in Event /\ Tail(queue) \in Seq(Event)
    BY <1>9, HeadTailType DEF GetEvent, QueueType
  <2>2. QueueType'
    BY <1>9, <2>1 DEF GetEvent, QueueType, SubscriberType
  <2> QED BY <1>9, <2>2
       DEF GetEvent, StoreType, WriterType, SubscriberType, SessionType,
           storeVars, writerVars, subVars, manageVars
<1>10. CASE VisitKey
  BY <1>10 DEF VisitKey, StoreType, WriterType, QueueType,
         SubscriberType, SessionType,
              storeVars, writerVars, queueVars, subVars, manageVars
<1>11. CASE CheckCallback
  BY <1>11 DEF CheckCallback, StoreType, WriterType, QueueType,
         SubscriberType, SessionType,
              storeVars, writerVars, queueVars, subVars, manageVars
<1>12. CASE Submit
  BY <1>12 DEF Submit, StoreType, WriterType, QueueType,
         SubscriberType, SessionType,
              storeVars, writerVars, queueVars, subVars, manageVars
<1>13. CASE SubmitRaises
  BY <1>13 DEF SubmitRaises, StoreType, WriterType, QueueType,
         SubscriberType, SessionType,
              storeVars, writerVars, queueVars, subVars, manageVars
<1>14. ASSUME NEW c \in Callbacks, RunCallback(c) PROVE TypeOK'
  <2>1. Head(poolq[c]) \in Event /\ Tail(poolq[c]) \in Seq(Event)
    <3>1. poolq[c] \in Seq(Event) /\ poolq[c] # <<>>
      BY <1>14 DEF RunCallback, SubscriberType
    <3> QED BY <3>1, HeadTailType
  <2>2. Append(seen[c], Head(poolq[c])) \in Seq(Event)
    BY <2>1 DEF SubscriberType
  <2>3. SubscriberType'
    BY <1>14, <2>1, <2>2 DEF RunCallback, SubscriberType, subVars
  <2> QED BY <1>14, <2>3
       DEF RunCallback, StoreType, WriterType, QueueType, SessionType,
           storeVars, writerVars, queueVars, manageVars
<1>15. ASSUME NEW c \in Callbacks, Subscribe(c) PROVE TypeOK'
  <2>1. SessionType'
    BY <1>15, BudgetType DEF Subscribe, SessionType
  <2>2. SubscriberType'
    BY <1>15 DEF Subscribe, SubscriberType, Callbacks
  <2> QED BY <1>15, <2>1, <2>2
       DEF Subscribe, StoreType, WriterType, QueueType,
           storeVars, writerVars, queueVars
<1>16. ASSUME NEW c \in Callbacks, Unsubscribe(c) PROVE TypeOK'
  <2>1. SessionType'
    BY <1>16, BudgetType DEF Unsubscribe, SessionType
  <2>2. SubscriberType'
    BY <1>16 DEF Unsubscribe, SubscriberType
  <2> QED BY <1>16, <2>1, <2>2
       DEF Unsubscribe, StoreType, WriterType, QueueType,
           storeVars, writerVars, queueVars
<1>17. CASE SubscribePool
  BY <1>17 DEF SubscribePool, StoreType, WriterType, QueueType,
         SubscriberType, SessionType,
              storeVars, writerVars, queueVars, subVars, manageVars
<1>18. CASE ShutdownReturns
  BY <1>18 DEF ShutdownReturns, StoreType, WriterType, QueueType,
         SubscriberType, SessionType,
              storeVars, writerVars, queueVars, subVars, manageVars
<1>19. CASE DeletePool
  BY <1>19 DEF DeletePool, StoreType, WriterType, QueueType,
         SubscriberType, SessionType,
              storeVars, writerVars, queueVars, subVars, manageVars
<1>20. CASE DeleteSubscriber
  BY <1>20 DEF DeleteSubscriber, StoreType, WriterType, QueueType,
         SubscriberType, SessionType,
              storeVars, writerVars, queueVars, subVars, manageVars
<1>21. CASE CloseStream
  BY <1>21 DEF CloseStream, StoreType, WriterType, QueueType,
         SubscriberType, SessionType,
              storeVars, writerVars, queueVars, subVars, manageVars
<1>22. CASE JoinReturns
  BY <1>22 DEF JoinReturns, StoreType, WriterType, QueueType,
         SubscriberType, SessionType,
              storeVars, writerVars, queueVars, subVars, manageVars
<1>23. CASE CleanUpNext
  BY <1>23 DEF CleanUpNext, StoreType, WriterType, QueueType,
         SubscriberType, SessionType,
              storeVars, writerVars, queueVars, subVars, manageVars
<1>24. CASE DrainQueue
  <2>1. queue' \in Seq(Event)
    BY <1>24, HeadTailType DEF DrainQueue, QueueType
  <2> QED BY <1>24, <2>1
       DEF DrainQueue, StoreType, WriterType, QueueType, SubscriberType,
           SessionType, storeVars, writerVars, queueVars, subVars
<1>25. CASE Crash
  <2>1. WriterType'
    <3>1. << <<>> >> \in Seq(Seq(Event)) /\ << <<>> >> # <<>>
      OBVIOUS
    <3> QED BY <1>25, <3>1 DEF Crash, WriterType, Unset
  <2>2. QueueType'
    BY <1>25 DEF Crash, QueueType
  <2>3. SubscriberType'
    BY <1>25, ConstantsOK DEF Crash, SubscriberType, Callbacks
  <2>4. SessionType'
    <3>1. stop' \in BOOLEAN
      BY <1>25 DEF Crash
    <3>2. epoch' \in 0 .. MaxCrashes
      BY <1>25, ConstantsOK DEF Crash, SessionType
    <3>3. mcb' \in Callbacks \cup {NoCallback} /\ mtodo' \subseteq Callbacks
      BY <1>25 DEF Crash
    <3>4. mpc' = "idle" /\ budget' = budget
      BY <1>25 DEF Crash
    <3> QED BY <3>1, <3>2, <3>3, <3>4 DEF SessionType
  <2> QED BY <1>25, <2>1, <2>2, <2>3, <2>4 DEF Crash, StoreType
<1>26. CASE UNCHANGED vars
  BY <1>26 DEF vars, StoreType, WriterType, QueueType, SubscriberType, SessionType
<1> QED BY <1>1, <1>2, <1>3, <1>4, <1>5, <1>6, <1>7, <1>8, <1>9, <1>10, <1>11, <1>12, <1>13, <1>14, <1>15, <1>16, <1>17, <1>18, <1>19, <1>20, <1>21, <1>22, <1>23, <1>24, <1>25, <1>26
     DEF Next, AddEvent, QueueThread, SessionThread

-----------------------------------------------------------------------------
(* Ids: no two writers hold the same one, and none that has a file.        *)

\* The queue thread, the pools and the session thread touch neither the files
\* nor anything of the writers.
LEMMA StoreUntouched ==
  ASSUME QueueThread \/ SeesShutdown \/ (\E c \in Callbacks : RunCallback(c)) \/ SessionThread
  PROVE  UNCHANGED <<storeVars, writerVars>>
BY DEF QueueThread, SessionThread, CheckStopFlag, SeesShutdown, GetTimesOut, GetEvent,
       VisitKey,
       CheckCallback, Submit, SubmitRaises, RunCallback, Subscribe, Unsubscribe,
       SubscribePool, ShutdownReturns, DeletePool, DeleteSubscriber, CloseStream,
       JoinReturns, CleanUpNext, DrainQueue

LEMMA FreshInit == Init => FreshIds
BY DEF Init, FreshIds

\* Every step keeps the ids that are held fresh.
LEMMA FreshStep == TypeOK /\ FreshIds /\ [Next]_vars => FreshIds'
<1> SUFFICES ASSUME TypeOK, FreshIds, [Next]_vars PROVE FreshIds'
  OBVIOUS
<1>1. ASSUME NEW w \in Writers, AssignId(w) PROVE FreshIds'
  <2>1. /\ CurId \in Nat /\ curId' = CurId + 1 /\ curId' # Unset
        /\ files' = files /\ wpc' = [wpc EXCEPT ![w] = "write"]
        /\ wev' = [wev EXCEPT ![w] = NewEvent(w)] /\ NewEvent(w).id = CurId
        /\ CurId \in Ids
    <3>1. CurId \in Nat /\ CurId < MaxId /\ curId' = CurId + 1
      BY <1>1, CurIdBounds DEF AssignId, NextCurId
    <3>2. NewEvent(w) \in Event /\ NewEvent(w).id = CurId
      BY <3>1, NewEventType
    <3>3. CurId + 1 # Unset
      BY <3>1 DEF Unset
    <3>4. CurId \in Ids
      BY <3>2 DEF Event
    <3> QED BY <1>1, <3>1, <3>2, <3>3, <3>4 DEF AssignId, storeVars
  <2>2. \A i \in Ids : files[i] # NoEvent => i < CurId
    BY CurIdBounds DEF FreshIds, CurId, Stored
  <2>3. \A i \in Ids : files'[i] # NoEvent => i < curId'
    BY <2>1, <2>2 DEF Ids
  <2>4. ASSUME NEW v \in Writers, v # w, wpc[v] = "write"
        PROVE  wev[v].id < CurId /\ wev[v].id \in Nat
    BY <2>4 DEF FreshIds, CurId, TypeOK, WriterType, Event, Ids
  <2>5. ASSUME NEW v \in Writers, wpc'[v] = "write"
        PROVE  /\ wev'[v].id < curId' /\ files'[wev'[v].id] = NoEvent
               /\ \A u \in Writers \ {v} :
                     wpc'[u] = "write" => wev'[u].id # wev'[v].id
    <3>1. CASE v = w
      <4>1. wev'[v].id = CurId
        BY <2>1, <3>1 DEF TypeOK, WriterType
      <4>2. files[CurId] = NoEvent
        BY <2>1, <2>2
      <4>3. \A u \in Writers \ {v} : wpc'[u] = "write" => wev'[u].id # CurId
        BY <2>1, <2>4, <3>1 DEF TypeOK, WriterType
      <4> QED BY <2>1, <4>1, <4>2, <4>3
    <3>2. CASE v # w
      <4>1. wpc[v] = "write" /\ wev'[v] = wev[v]
        BY <2>1, <2>5, <3>2 DEF TypeOK, WriterType
      <4>2. wev[v].id < CurId + 1 /\ wev[v].id # CurId
        BY <2>1, <2>4, <3>2, <4>1
      <4>3. ASSUME NEW u \in Writers \ {v}, wpc'[u] = "write"
            PROVE  wev'[u].id # wev[v].id
        <5>1. CASE u = w
          BY <2>1, <4>2, <5>1 DEF TypeOK, WriterType
        <5>2. CASE u # w
          BY <2>1, <4>1, <4>3, <5>2 DEF TypeOK, WriterType, FreshIds
        <5> QED BY <5>1, <5>2
      <4> QED BY <2>1, <4>1, <4>2, <4>3 DEF FreshIds
    <3> QED BY <3>1, <3>2
  <2> QED BY <2>1, <2>3, <2>5 DEF FreshIds
<1>2. ASSUME NEW w \in Writers, AssignIdRaises(w) PROVE FreshIds'
  <2>1. /\ CurId \in Nat /\ curId' = CurId + 1 /\ curId' # Unset
        /\ files' = files /\ wpc' = wpc /\ wev' = wev
    BY <1>2, CurIdBounds DEF AssignIdRaises, NextCurId, storeVars, Unset
  <2>2. \A i \in Ids : files[i] # NoEvent => i < CurId + 1
    BY <2>1, CurIdBounds DEF FreshIds, CurId, Stored, Ids
  <2>3. ASSUME NEW v \in Writers, wpc[v] = "write" PROVE wev[v].id < CurId + 1
    <3>1. wev[v].id < CurId
      BY <2>3 DEF FreshIds, CurId
    <3>2. wev[v].id \in Nat
      BY <2>3 DEF TypeOK, WriterType, Event, Ids
    <3> QED BY <2>1, <3>1, <3>2
  <2> QED BY <2>1, <2>2, <2>3 DEF FreshIds
<1>3. ASSUME NEW w \in Writers, WriteFile(w) PROVE FreshIds'
  <2>1. /\ wpc[w] = "write" /\ wpc' = [wpc EXCEPT ![w] = "page"]
        /\ files' = [files EXCEPT ![wev[w].id] = wev[w]]
        /\ curId' = curId /\ wev' = wev
    BY <1>3 DEF WriteFile
  <2>2. \A v \in Writers : wpc'[v] = "write" => v # w /\ wpc[v] = "write"
    BY <2>1 DEF TypeOK, WriterType
  <2>3. \A i \in Ids : files'[i] # NoEvent => files[i] # NoEvent \/ i = wev[w].id
    BY <2>1 DEF TypeOK, StoreType
  <2>4. ASSUME NEW v \in Writers, wpc'[v] = "write" PROVE files'[wev[v].id] = NoEvent
    <3>1. v # w /\ wpc[v] = "write" /\ wev[v].id \in Ids
      BY <2>2, <2>4 DEF TypeOK, WriterType, Event
    <3>2. wev[v].id # wev[w].id
      BY <2>1, <3>1 DEF FreshIds
    <3> QED BY <2>3, <3>1, <3>2 DEF FreshIds
  <2>5. \A i \in Ids : curId' # Unset /\ files'[i] # NoEvent => i < curId'
    BY <2>1, <2>3 DEF FreshIds
  <2> QED BY <2>1, <2>2, <2>4, <2>5 DEF FreshIds
<1>4. ASSUME NEW w \in Writers,
             WriteFileRaises(w) \/ StoreCachePageRaises(w) \/ StoreCachePage(w)
             \/ Enqueue(w)
      PROVE  FreshIds'
  <2>1. /\ files' = files /\ curId' = curId /\ wev' = wev
        /\ \A v \in Writers : wpc'[v] = "write" => wpc[v] = "write"
    BY <1>4 DEF WriteFileRaises, StoreCachePageRaises, StoreCachePage, Enqueue,
           storeVars, TypeOK, WriterType
  <2> QED BY <2>1 DEF FreshIds
<1>5. CASE QueueThread \/ SeesShutdown \/ (\E c \in Callbacks : RunCallback(c))
           \/ SessionThread
  BY <1>5, StoreUntouched DEF storeVars, writerVars, FreshIds
<1>6. CASE Crash
  BY <1>6 DEF Crash, FreshIds
<1>7. CASE UNCHANGED vars
  BY <1>7 DEF vars, FreshIds
<1> QED BY <1>1, <1>2, <1>3, <1>4, <1>5, <1>6, <1>7 DEF Next, AddEvent

-----------------------------------------------------------------------------
(* The theorems about ids and files.                                       *)

\* The state is always well typed.
THEOREM TypeCorrect == Spec => []TypeOK
<1>1. Init => TypeOK
  BY TypeInit
<1>2. TypeOK /\ [Next]_vars => TypeOK'
  BY TypeStep
<1> QED BY <1>1, <1>2, PTL DEF Spec

\* The ids that writers hold are always different, free and below cur_id,
\* whatever the threads and the crashes do.
THEOREM IdsAreFresh == Spec => []FreshIds
<1>1. Init => FreshIds
  BY FreshInit
<1>2. TypeOK /\ FreshIds /\ [Next]_vars => FreshIds'
  BY FreshStep
<1> QED BY <1>1, <1>2, TypeCorrect, PTL DEF Spec

\* No step changes an event file that was written.
LEMMA FilesKept ==
  ASSUME TypeOK, FreshIds, [Next]_vars
  PROVE  \A i \in Ids : files[i] # NoEvent => files'[i] = files[i]
<1>1. ASSUME NEW w \in Writers, WriteFile(w)
      PROVE  \A i \in Ids : files[i] # NoEvent => files'[i] = files[i]
  BY <1>1 DEF WriteFile, FreshIds, TypeOK, StoreType
<1>2. CASE ~\E w \in Writers : WriteFile(w)
  <2>1. files' = files
    BY <1>2, StoreUntouched
    DEF Next, AddEvent, AssignId, AssignIdRaises, WriteFileRaises, StoreCachePageRaises,
           StoreCachePage,
        Enqueue, Crash, vars, storeVars
  <2> QED BY <2>1
<1> QED BY <1>1, <1>2

\* An event file is written once, for every number of writers and crashes.
THEOREM FilesAreWriteOnce == Spec => WriteOnce
<1>1. TypeOK /\ FreshIds /\ [Next]_vars
        => [\A i \in Ids : files[i] # NoEvent => files'[i] = files[i]]_vars
  BY FilesKept
<1> QED BY <1>1, TypeCorrect, IdsAreFresh, PTL DEF Spec, WriteOnce

-----------------------------------------------------------------------------
(* Durability.                                                             *)

\* Every event that is in its file before a step is there after the step.
LEMMA DurableKept ==
  ASSUME TypeOK, FreshIds, [Next]_vars
  PROVE  \A e \in Event : files[e.id] = e => files'[e.id] = e
<1> TAKE e \in Event
<1> HAVE files[e.id] = e
<1>1. e.id \in Ids /\ files[e.id] # NoEvent
  BY NoEventIsNoEvent DEF Event
<1> QED BY <1>1, FilesKept

\* If every event of a sequence is durable, so is every event of its tail and
\* of the sequence with one more durable event.
LEMMA SequenceDurable ==
  ASSUME NEW f, NEW s \in Seq(Event), \A k \in DOMAIN s : f[s[k].id] = s[k]
  PROVE  /\ \A e \in Event : f[e.id] = e =>
              \A k \in DOMAIN Append(s, e) : f[Append(s, e)[k].id] = Append(s, e)[k]
         /\ s # <<>> =>
              /\ f[Head(s).id] = Head(s)
              /\ \A k \in DOMAIN Tail(s) : f[Tail(s)[k].id] = Tail(s)[k]
<1>1. ASSUME NEW e \in Event, f[e.id] = e, NEW k \in DOMAIN Append(s, e)
      PROVE  f[Append(s, e)[k].id] = Append(s, e)[k]
  <2>1. CASE k \in DOMAIN s
    <3>1. Append(s, e)[k] = s[k]
      BY <2>1, AppendProperties
    <3> QED BY <2>1, <3>1
  <2>2. CASE k \notin DOMAIN s
    <3>1. Append(s, e)[k] = e
      BY <1>1, <2>2, AppendProperties
    <3> QED BY <1>1, <3>1
  <2> QED BY <2>1, <2>2
<1>2. ASSUME s # <<>>, NEW k \in DOMAIN Tail(s)
      PROVE  f[Tail(s)[k].id] = Tail(s)[k]
  <2>1. k + 1 \in DOMAIN s /\ Tail(s)[k] = s[k + 1]
    BY <1>2, HeadTailProperties
  <2> QED BY <2>1
<1>3. ASSUME s # <<>> PROVE f[Head(s).id] = Head(s)
  <2>1. 1 \in DOMAIN s /\ Head(s) = s[1]
    BY <1>3
  <2> QED BY <2>1
<1> QED BY <1>1, <1>2, <1>3

LEMMA DurableInit == Init => EnqueuedIsDurable
BY DEF Init, EnqueuedIsDurable

\* Every step hands on only events whose file is written.
LEMMA DurableStep ==
  TypeOK /\ FreshIds /\ EnqueuedIsDurable /\ [Next]_vars => EnqueuedIsDurable'
<1> SUFFICES ASSUME TypeOK, FreshIds, EnqueuedIsDurable, [Next]_vars
             PROVE  EnqueuedIsDurable'
  OBVIOUS
<1>0. \A e \in Event : files[e.id] = e => files'[e.id] = e
  BY DurableKept
<1>w. \A w \in Writers : wpc[w] \in {"page", "put"} => files'[wev[w].id] = wev[w]
  BY <1>0 DEF EnqueuedIsDurable, Durable, TypeOK, WriterType
<1>q. \A k \in DOMAIN queue : files'[queue[k].id] = queue[k]
  BY <1>0 DEF EnqueuedIsDurable, Durable, TypeOK, QueueType
<1>d. qpc \in {"keys", "ids", "submit"} => files'[qev.id] = qev
  BY <1>0 DEF EnqueuedIsDurable, Durable, TypeOK, QueueType
<1>p. \A c \in Callbacks : \A k \in DOMAIN poolq[c] : files'[poolq[c][k].id] = poolq[c][k]
  BY <1>0 DEF EnqueuedIsDurable, Durable, TypeOK, SubscriberType
<1>s. \A c \in Callbacks : \A k \in DOMAIN seen[c] : files'[seen[c][k].id] = seen[c][k]
  BY <1>0 DEF EnqueuedIsDurable, Durable, TypeOK, SubscriberType
<1>1. ASSUME NEW w \in Writers,
             AssignId(w) \/ AssignIdRaises(w) \/ WriteFileRaises(w)
             \/ StoreCachePageRaises(w) \/ StoreCachePage(w)
      PROVE  EnqueuedIsDurable'
  <2>1. /\ UNCHANGED <<queue, queueVars, poolq, seen>>
        /\ \A v \in Writers : wpc'[v] \in {"page", "put"} =>
             wpc[v] \in {"page", "put"} /\ wev'[v] = wev[v]
    BY <1>1 DEF AssignId, AssignIdRaises, WriteFileRaises, StoreCachePageRaises,
           StoreCachePage, TypeOK,
                WriterType
  <2> QED BY <1>w, <1>q, <1>d, <1>p, <1>s, <2>1
          DEF EnqueuedIsDurable, Durable, queueVars
<1>2. ASSUME NEW w \in Writers, WriteFile(w) PROVE EnqueuedIsDurable'
  <2>1. UNCHANGED <<queue, queueVars, poolq, seen, wev>>
    BY <1>2 DEF WriteFile
  <2>2. \A v \in Writers : wpc'[v] \in {"page", "put"} => files'[wev[v].id] = wev[v]
    <3>1. wev[w].id \in Ids
      BY <1>2 DEF WriteFile, TypeOK, WriterType, Event
    <3>2. files'[wev[w].id] = wev[w]
      BY <1>2, <3>1 DEF WriteFile, TypeOK, StoreType
    <3>3. \A v \in Writers \ {w} : wpc'[v] = wpc[v]
      BY <1>2 DEF WriteFile, TypeOK, WriterType
    <3> QED BY <1>w, <3>2, <3>3
  <2> QED BY <1>q, <1>d, <1>p, <1>s, <2>1, <2>2
          DEF EnqueuedIsDurable, Durable, queueVars
<1>3. ASSUME NEW w \in Writers, Enqueue(w) PROVE EnqueuedIsDurable'
  <2>1. /\ UNCHANGED <<queueVars, poolq, seen, wev>>
        /\ \A v \in Writers : wpc'[v] \in {"page", "put"} => wpc[v] \in {"page", "put"}
    BY <1>3 DEF Enqueue, TypeOK, WriterType
  <2>2. wev[w] \in Event /\ files'[wev[w].id] = wev[w]
    BY <1>3, <1>w DEF Enqueue, TypeOK, WriterType
  <2>3. \A k \in DOMAIN queue' : files'[queue'[k].id] = queue'[k]
    BY <1>3, <1>q, <2>2, SequenceDurable DEF Enqueue, TypeOK, QueueType
  <2> QED BY <1>w, <1>d, <1>p, <1>s, <2>1, <2>3
          DEF EnqueuedIsDurable, Durable, queueVars
<1>4. CASE GetEvent
  <2>1. UNCHANGED <<wpc, wev, poolq, seen>>
    BY <1>4 DEF GetEvent, writerVars
  <2>2. /\ \A k \in DOMAIN queue' : files'[queue'[k].id] = queue'[k]
        /\ files'[qev'.id] = qev'
    BY <1>4, <1>q, SequenceDurable DEF GetEvent, TypeOK, QueueType
  <2> QED BY <1>w, <1>p, <1>s, <2>1, <2>2 DEF EnqueuedIsDurable, Durable
<1>5. CASE Submit
  <2>1. UNCHANGED <<wpc, wev, queue, qev, seen>> /\ qpc = "submit"
    BY <1>5 DEF Submit, writerVars
  <2>2. \A c \in Callbacks : \A k \in DOMAIN poolq'[c] :
          files'[poolq'[c][k].id] = poolq'[c][k]
    <3> TAKE c \in Callbacks
    <3>1. CASE c = qcb
      <4>1. poolq'[c] = Append(poolq[c], qev)
        BY <1>5, <3>1 DEF Submit, TypeOK, SubscriberType
      <4>2. poolq[c] \in Seq(Event) /\ qev \in Event /\ files'[qev.id] = qev
        BY <1>d, <2>1 DEF TypeOK, SubscriberType, QueueType
      <4> QED BY <1>p, <4>1, <4>2, SequenceDurable
    <3>2. CASE c # qcb
      BY <1>5, <1>p, <3>2 DEF Submit, TypeOK, SubscriberType
    <3> QED BY <3>1, <3>2
  <2> QED BY <1>w, <1>q, <1>d, <1>s, <2>1, <2>2 DEF EnqueuedIsDurable, Durable
<1>6. ASSUME NEW c \in Callbacks, RunCallback(c) PROVE EnqueuedIsDurable'
  <2>1. UNCHANGED <<wpc, wev, queue, queueVars>>
    BY <1>6 DEF RunCallback, writerVars
  <2>2. /\ poolq[c] \in Seq(Event) /\ seen[c] \in Seq(Event) /\ poolq[c] # <<>>
        /\ Head(poolq[c]) \in Event
    BY <1>6, HeadTailType DEF RunCallback, TypeOK, SubscriberType
  <2>3. \A b \in Callbacks : \A k \in DOMAIN poolq'[b] :
          files'[poolq'[b][k].id] = poolq'[b][k]
    <3> TAKE b \in Callbacks
    <3>1. CASE b = c
      <4>1. poolq'[b] = Tail(poolq[c])
        BY <1>6, <3>1 DEF RunCallback, TypeOK, SubscriberType
      <4> QED BY <1>p, <2>2, <4>1, SequenceDurable
    <3>2. CASE b # c
      BY <1>6, <1>p, <3>2 DEF RunCallback, TypeOK, SubscriberType
    <3> QED BY <3>1, <3>2
  <2>4. \A b \in Callbacks : \A k \in DOMAIN seen'[b] :
          files'[seen'[b][k].id] = seen'[b][k]
    <3> TAKE b \in Callbacks
    <3>1. CASE b = c
      <4>1. seen'[b] = Append(seen[c], Head(poolq[c]))
        BY <1>6, <3>1 DEF RunCallback, TypeOK, SubscriberType
      <4>2. files'[Head(poolq[c]).id] = Head(poolq[c])
        BY <1>p, <2>2, SequenceDurable
      <4> QED BY <1>s, <2>2, <4>1, <4>2, SequenceDurable
    <3>2. CASE b # c
      BY <1>6, <1>s, <3>2 DEF RunCallback, TypeOK, SubscriberType
    <3> QED BY <3>1, <3>2
  <2> QED BY <1>w, <1>q, <1>d, <2>1, <2>3, <2>4
          DEF EnqueuedIsDurable, Durable, queueVars
<1>7. CASE \/ CheckStopFlag \/ SeesShutdown \/ GetTimesOut \/ VisitKey \/ CheckCallback
           \/ SubmitRaises
  <2>1. /\ UNCHANGED <<wpc, wev, queue, qev, poolq, seen>>
        /\ qpc' \in {"keys", "ids", "submit"} => qpc \in {"keys", "ids", "submit"}
    BY <1>7 DEF CheckStopFlag, SeesShutdown, GetTimesOut, VisitKey, CheckCallback,
           SubmitRaises,
                writerVars
  <2> QED BY <1>w, <1>q, <1>d, <1>p, <1>s, <2>1 DEF EnqueuedIsDurable, Durable
<1>8. CASE DrainQueue
  <2>1. UNCHANGED <<wpc, wev, queueVars, poolq, seen>>
    BY <1>8 DEF DrainQueue, writerVars
  <2>2. \A k \in DOMAIN queue' : files'[queue'[k].id] = queue'[k]
    BY <1>8, <1>q, SequenceDurable DEF DrainQueue, TypeOK, QueueType
  <2> QED BY <1>w, <1>d, <1>p, <1>s, <2>1, <2>2
          DEF EnqueuedIsDurable, Durable, queueVars
<1>9. CASE SessionThread /\ ~DrainQueue
  <2>1. UNCHANGED <<wpc, wev, queue, queueVars, poolq, seen>>
    BY <1>9 DEF SessionThread, Subscribe, Unsubscribe, SubscribePool, ShutdownReturns,
         DeletePool, DeleteSubscriber, CloseStream, JoinReturns, CleanUpNext, writerVars
  <2> QED BY <1>w, <1>q, <1>d, <1>p, <1>s, <2>1
          DEF EnqueuedIsDurable, Durable, queueVars
<1>10. CASE Crash
  BY <1>10, <1>s DEF Crash, EnqueuedIsDurable, Durable
<1>11. CASE UNCHANGED vars
  BY <1>11 DEF vars, EnqueuedIsDurable, Durable
<1> QED BY <1>1, <1>2, <1>3, <1>4, <1>5, <1>6, <1>7, <1>8, <1>9, <1>10, <1>11
        DEF Next, AddEvent, QueueThread

\* Whatever is queued, dispatched or seen by a callback is in its event file,
\* for every number of writers, callbacks and crashes.
THEOREM HandedOutIsDurable == Spec => []EnqueuedIsDurable
<1>1. Init => EnqueuedIsDurable
  BY DurableInit
<1>2. TypeOK /\ FreshIds /\ EnqueuedIsDurable /\ [Next]_vars => EnqueuedIsDurable'
  BY DurableStep
<1> QED BY <1>1, <1>2, TypeCorrect, IdsAreFresh, PTL DEF Spec

-----------------------------------------------------------------------------
(* Order: what one writer adds stays in order on its way to a callback.    *)

In(q) == {q[k] : k \in DOMAIN q}
Dispatching == qpc \in {"keys", "ids", "submit"}
Dispatched == IF Dispatching THEN {qev} ELSE {}
Adding == {wev[w] : w \in {v \in Writers : wpc[v] # "idle"}}

\* The queue thread has still to submit qev to callback c.
Due(c) ==
  /\ Dispatching
  /\ \/ c[1] \in qkeys
     \/ qpc \in {"ids", "submit"} /\ c \in qids
     \/ qpc = "submit" /\ qcb = c

Below(S, T) == \A e \in S, f \in T : e.by = f.by => Log!Before(e, f)
Increasing(q) == \A i, j \in DOMAIN q : i < j /\ q[i].by = q[j].by => Log!Before(q[i], q[j])
Past(e, n, cur) == e.epoch <= n /\ (e.epoch = n => cur # Unset /\ e.id < cur)

\* The queue thread visits a callback once for each event.
VisitsOnce ==
  /\ qpc \in {"ids", "submit"} => \A c \in qids : c[1] \notin qkeys
  /\ qpc = "submit" => qcb[1] \notin qkeys /\ qcb \notin qids

OwnEvents == \A w \in Writers : wpc[w] # "idle" => wev[w].by = w

\* On their way to every callback: what is being dispatched, what is queued and
\* what is being added.
QueueInOrder ==
  /\ Increasing(queue) /\ Below(Dispatched, In(queue) \cup Adding)
  /\ Below(In(queue), Adding)
  /\ \A e \in In(queue) \cup Dispatched \cup Adding : Past(e, epoch, curId)

\* On their way to callback c: what it saw, what its pool has, and the others.
WayInOrder(c) ==
  /\ Increasing(poolq[c]) /\ Below(In(seen[c]), In(poolq[c]))
  /\ Below(In(seen[c]) \cup In(poolq[c]), In(queue) \cup Adding)
  /\ Due(c) => Below(In(seen[c]) \cup In(poolq[c]), {qev})
  /\ \A e \in In(seen[c]) \cup In(poolq[c]) : Past(e, epoch, curId)

InOrder ==
  VisitsOnce /\ OwnEvents /\ QueueInOrder /\ \A c \in Callbacks : WayInOrder(c)

\* The members of a queue, and its order, when an event is put at its end or
\* taken from its head.
LEMMA QueueMembers ==
  ASSUME NEW q \in Seq(Event)
  PROVE  /\ In(q) \subseteq Event
         /\ \A e \in Event :
              /\ In(Append(q, e)) = In(q) \cup {e}
              /\ Increasing(q) /\ Below(In(q), {e}) => Increasing(Append(q, e))
         /\ q # <<>> =>
              /\ Head(q) \in Event /\ Tail(q) \in Seq(Event)
              /\ In(q) = {Head(q)} \cup In(Tail(q))
              /\ Increasing(q) => Increasing(Tail(q)) /\ Below({Head(q)}, In(Tail(q)))
<1>1. In(q) \subseteq Event
  BY DEF In
<1>2. ASSUME NEW e \in Event
      PROVE  /\ In(Append(q, e)) = In(q) \cup {e}
             /\ Increasing(q) /\ Below(In(q), {e}) => Increasing(Append(q, e))
  <2> DEFINE r == Append(q, e)
  <2>1. /\ DOMAIN q = 1 .. Len(q) /\ DOMAIN r = 1 .. Len(q) + 1 /\ Len(q) \in Nat
        /\ r[Len(q) + 1] = e /\ \A k \in 1 .. Len(q) : r[k] = q[k]
    OBVIOUS
  <2> HIDE DEF r
  <2>2. In(r) = In(q) \cup {e}
    BY <2>1 DEF In
  <2>3. ASSUME Increasing(q), Below(In(q), {e}), NEW i \in DOMAIN r, NEW j \in DOMAIN r,
               i < j, r[i].by = r[j].by
        PROVE  Log!Before(r[i], r[j])
    <3>1. i \in 1 .. Len(q) /\ r[i] = q[i] /\ q[i] \in In(q)
      BY <2>1, <2>3 DEF In
    <3>2. CASE j \in 1 .. Len(q)
      <4>1. r[j] = q[j] /\ i \in DOMAIN q /\ j \in DOMAIN q
        BY <2>1, <3>1, <3>2
      <4>2. q[i].by = q[j].by
        BY <2>3, <3>1, <4>1
      <4>3. QED
        BY <2>3, <3>1, <4>1, <4>2 DEF Increasing
    <3>3. CASE j \notin 1 .. Len(q)
      <4>1. j = Len(q) + 1 /\ r[j] = e
        BY <2>1, <3>3
      <4>2. QED
        BY <2>3, <3>1, <4>1 DEF Below
    <3>4. QED
      BY <3>2, <3>3
  <2>4. Increasing(q) /\ Below(In(q), {e}) => Increasing(r)
    BY <2>3 DEF Increasing
  <2>5. QED
    BY <2>2, <2>4 DEF r
<1>3. ASSUME q # <<>>
      PROVE  /\ Head(q) \in Event /\ Tail(q) \in Seq(Event)
             /\ In(q) = {Head(q)} \cup In(Tail(q))
             /\ Increasing(q) => Increasing(Tail(q)) /\ Below({Head(q)}, In(Tail(q)))
  <2> DEFINE r == Tail(q)
  <2>1. /\ Head(q) \in Event /\ r \in Seq(Event) /\ Head(q) = q[1]
        /\ DOMAIN q = 1 .. Len(q) /\ DOMAIN r = 1 .. Len(q) - 1 /\ Len(q) \in Nat \ {0}
        /\ \A k \in 1 .. Len(q) - 1 : r[k] = q[k + 1]
    BY <1>3, HeadTailType
  <2> HIDE DEF r
  <2>2. In(q) = {Head(q)} \cup In(r)
    <3>1. ASSUME NEW k \in DOMAIN q PROVE q[k] \in {Head(q)} \cup In(r)
      <4>1. CASE k = 1
        BY <2>1, <4>1
      <4>2. CASE k # 1
        <5>1. k - 1 \in DOMAIN r /\ r[k - 1] = q[k]
          BY <2>1, <4>2
        <5>2. QED
          BY <5>1 DEF In
      <4>3. QED
        BY <4>1, <4>2
    <3>2. ASSUME NEW k \in DOMAIN r PROVE r[k] \in In(q)
      <4>1. k + 1 \in DOMAIN q /\ r[k] = q[k + 1]
        BY <2>1
      <4>2. QED
        BY <4>1 DEF In
    <3>3. Head(q) \in In(q)
      BY <2>1 DEF In
    <3>4. QED
      BY <3>1, <3>2, <3>3 DEF In
  <2>3. ASSUME Increasing(q), NEW i \in DOMAIN r, NEW j \in DOMAIN r, i < j,
               r[i].by = r[j].by
        PROVE  Log!Before(r[i], r[j])
    <3>1. /\ i + 1 \in DOMAIN q /\ j + 1 \in DOMAIN q /\ i + 1 < j + 1
          /\ r[i] = q[i + 1] /\ r[j] = q[j + 1]
      BY <2>1, <2>3
    <3>2. QED
      BY <2>3, <3>1 DEF Increasing
  <2>4. ASSUME Increasing(q), NEW f \in In(r), Head(q).by = f.by
        PROVE  Log!Before(Head(q), f)
    <3>1. PICK k \in DOMAIN r : f = r[k]
      BY <2>4 DEF In
    <3>2. 1 \in DOMAIN q /\ k + 1 \in DOMAIN q /\ 1 < k + 1 /\ f = q[k + 1] /\ Head(q) = q[1]
      BY <2>1, <3>1
    <3>3. QED
      BY <2>4, <3>2 DEF Increasing
  <2>5. QED
    BY <2>1, <2>2, <2>3, <2>4 DEF r, Increasing, Below
<1>4. QED
  BY <1>1, <1>2, <1>3

\* Only events are on their way.
LEMMA OnTheWay ==
  ASSUME TypeOK
  PROVE  /\ In(queue) \cup Dispatched \cup Adding \subseteq Event
         /\ \A c \in Callbacks : In(seen[c]) \cup In(poolq[c]) \subseteq Event
<1>1. queue \in Seq(Event) /\ \A c \in Callbacks : seen[c] \in Seq(Event) /\ poolq[c] \in Seq(Event)
  BY DEF TypeOK, QueueType, SubscriberType
<1>2. In(queue) \subseteq Event
  BY <1>1, QueueMembers
<1>3. Dispatched \cup Adding \subseteq Event
  BY DEF TypeOK, QueueType, WriterType, Dispatched, Dispatching, Adding
<1>4. ASSUME NEW c \in Callbacks PROVE In(seen[c]) \cup In(poolq[c]) \subseteq Event
  BY <1>1, QueueMembers
<1>5. QED
  BY <1>2, <1>3, <1>4

\* Nothing is on its way at first.
LEMMA OrderInit == Init => InOrder
<1> SUFFICES ASSUME Init PROVE InOrder
  OBVIOUS
<1>1. /\ In(queue) = {} /\ Dispatched = {} /\ Adding = {} /\ DOMAIN queue = {}
      /\ \A c \in Callbacks : /\ In(seen[c]) = {} /\ In(poolq[c]) = {} /\ ~Due(c)
                              /\ DOMAIN poolq[c] = {}
  BY DEF Init, In, Dispatched, Dispatching, Adding, Due
<1>2. VisitsOnce /\ OwnEvents
  BY DEF Init, VisitsOnce, OwnEvents
<1>3. QED
  BY <1>1, <1>2 DEF InOrder, QueueInOrder, WayInOrder, Below, Increasing

\* A step that puts no event further on its way keeps the order: it may take
\* events away, and what is past stays past.
LEMMA Fewer ==
  ASSUME InOrder, VisitsOnce', OwnEvents',
         Increasing(queue'), In(queue') \subseteq In(queue),
         Dispatched' \subseteq Dispatched, Adding' \subseteq Adding, seen' = seen,
         \A c \in Callbacks :
           /\ Increasing(poolq'[c]) /\ In(poolq'[c]) \subseteq In(poolq[c])
           /\ Due(c)' => Due(c) /\ qev' = qev,
         \A e \in Event : Past(e, epoch, curId) => Past(e, epoch', curId'),
         TypeOK
  PROVE  InOrder'
<1>1. /\ In(queue) \cup Dispatched \cup Adding \subseteq Event
      /\ \A c \in Callbacks : In(seen[c]) \cup In(poolq[c]) \subseteq Event
  BY OnTheWay
<1>2. QueueInOrder'
  BY <1>1 DEF InOrder, QueueInOrder, Below
<1>3. ASSUME NEW c \in Callbacks PROVE WayInOrder(c)'
  <2> DEFINE S == In(seen[c])
             P == In(poolq[c])
  <2>1. /\ S' = S /\ P' \subseteq P /\ Increasing(poolq[c])'
        /\ S \cup P \subseteq Event
    BY <1>1
  <2>2. /\ Below(S, P) /\ Below(S \cup P, In(queue) \cup Adding)
        /\ Due(c) => Below(S \cup P, {qev})
        /\ \A e \in S \cup P : Past(e, epoch, curId)
    BY DEF InOrder, WayInOrder
  <2>3. Below(S, P)'
    BY <2>1, <2>2 DEF Below
  <2>4. Below(S \cup P, In(queue) \cup Adding)'
    BY <2>1, <2>2 DEF Below
  <2>5. Due(c)' => Below(S \cup P, {qev})'
    BY <2>1, <2>2 DEF Below
  <2>6. \A e \in (S \cup P)' : Past(e, epoch', curId')
    BY <2>1, <2>2
  <2>7. QED
    BY <2>1, <2>3, <2>4, <2>5, <2>6 DEF WayInOrder
<1>4. QED
  BY <1>2, <1>3 DEF InOrder

\* The order when a new event is assigned: it is after all that came before.
LEMMA AssignOrder ==
  ASSUME TypeOK, InOrder, NEW w \in Writers, AssignId(w) PROVE InOrder'
<1> DEFINE n == NewEvent(w)
<1>1. /\ CurId \in Nat /\ curId' = CurId + 1 /\ curId' # Unset /\ epoch' = epoch
      /\ wpc[w] = "idle" /\ wpc' = [wpc EXCEPT ![w] = "write"]
      /\ wev' = [wev EXCEPT ![w] = n] /\ n \in Event
      /\ n.id = CurId /\ n.epoch = epoch /\ n.by = w
      /\ UNCHANGED <<queue, queueVars, poolq, seen>>
  BY CurIdBounds, NewEventType DEF AssignId, NextCurId, NewEvent, Unset
<1> HIDE DEF n
<1>2. Adding' = Adding \cup {n}
  <2>1. \A v \in Writers \ {w} : wpc'[v] = wpc[v] /\ wev'[v] = wev[v]
    BY <1>1 DEF TypeOK, WriterType
  <2>2. wpc'[w] # "idle" /\ wev'[w] = n
    BY <1>1 DEF TypeOK, WriterType
  <2>3. QED
    BY <1>1, <2>1, <2>2 DEF Adding
<1>3. OwnEvents'
  BY <1>1 DEF InOrder, OwnEvents, TypeOK, WriterType
<1>4. VisitsOnce' /\ Dispatched' = Dispatched /\ \A c \in Callbacks : Due(c)' <=> Due(c)
  BY <1>1 DEF queueVars, InOrder, VisitsOnce, Dispatched, Dispatching, Due
<1>5. /\ In(queue) \cup Dispatched \cup Adding \subseteq Event
      /\ \A c \in Callbacks : In(seen[c]) \cup In(poolq[c]) \subseteq Event
  BY OnTheWay
<1>6. ASSUME NEW e \in Event, Past(e, epoch, curId)
      PROVE  Log!Before(e, n) /\ Past(e, epoch', curId')
  <2>1. e.epoch \in Nat /\ e.id \in Nat /\ epoch \in Nat
    BY DEF Event, Ids, TypeOK, SessionType
  <2>2. e.epoch = epoch => e.id < CurId
    BY <1>6 DEF Past, CurId
  <2>3. QED
    BY <1>1, <1>6, <2>1, <2>2 DEF Past, Log!Before
<1>7. Past(n, epoch', curId')
  BY <1>1 DEF Past, TypeOK, SessionType
<1>8. QueueInOrder'
  <2>1. /\ Increasing(queue) /\ Below(Dispatched, In(queue) \cup Adding)
        /\ Below(In(queue), Adding)
        /\ \A e \in In(queue) \cup Dispatched \cup Adding : Past(e, epoch, curId)
    BY DEF InOrder, QueueInOrder
  <2>2. Below(Dispatched, In(queue) \cup Adding \cup {n}) /\ Below(In(queue), Adding \cup {n})
    BY <1>5, <1>6, <2>1 DEF Below
  <2>3. \A e \in In(queue) \cup Dispatched \cup Adding \cup {n} : Past(e, epoch', curId')
    BY <1>5, <1>6, <1>7, <2>1
  <2>4. queue' = queue
    BY <1>1
  <2>5. QED
    BY <1>2, <1>4, <2>1, <2>2, <2>3, <2>4 DEF QueueInOrder, Below
<1>9. ASSUME NEW c \in Callbacks PROVE WayInOrder(c)'
  <2> DEFINE S == In(seen[c]) \cup In(poolq[c])
  <2>1. /\ Increasing(poolq[c]) /\ Below(In(seen[c]), In(poolq[c]))
        /\ Below(S, In(queue) \cup Adding)
        /\ Due(c) => Below(S, {qev})
        /\ \A e \in S : Past(e, epoch, curId)
    BY DEF InOrder, WayInOrder
  <2>2. Below(S, In(queue) \cup Adding \cup {n})
    BY <1>5, <1>6, <2>1 DEF Below
  <2>3. \A e \in S : Past(e, epoch', curId')
    BY <1>5, <1>6, <2>1
  <2>4. seen' = seen /\ poolq' = poolq /\ queue' = queue /\ qev' = qev
    BY <1>1 DEF queueVars
  <2>5. Below(S', In(queue') \cup Adding')
    BY <1>2, <2>2, <2>4 DEF Below
  <2>6. QED
    BY <1>4, <2>1, <2>3, <2>4, <2>5 DEF WayInOrder
<1>10. QED
  BY <1>3, <1>4, <1>8, <1>9 DEF InOrder

\* The order when a writer enqueues its event: of its own it adds no other.
LEMMA EnqueueOrder ==
  ASSUME TypeOK, InOrder, NEW w \in Writers, Enqueue(w) PROVE InOrder'
<1> DEFINE e == wev[w]
<1>1. /\ wpc[w] = "put" /\ queue' = Append(queue, e) /\ e \in Event /\ e \in Adding
      /\ wpc' = [wpc EXCEPT ![w] = "idle"] /\ e.by = w
      /\ UNCHANGED <<wev, queueVars, poolq, seen, epoch, curId>>
  BY DEF Enqueue, TypeOK, WriterType, Adding, InOrder, OwnEvents
<1>2. /\ Adding' \subseteq Adding /\ \A f \in Adding' : f.by # e.by
  BY <1>1 DEF Adding, TypeOK, WriterType, InOrder, OwnEvents
<1>3. OwnEvents'
  BY <1>1 DEF InOrder, OwnEvents, TypeOK, WriterType
<1>4. VisitsOnce' /\ Dispatched' = Dispatched /\ \A c \in Callbacks : Due(c)' <=> Due(c)
  BY <1>1 DEF queueVars, InOrder, VisitsOnce, Dispatched, Dispatching, Due
<1> HIDE DEF e
<1>5. /\ Increasing(queue) /\ Below(Dispatched, In(queue) \cup Adding)
      /\ Below(In(queue), Adding)
      /\ \A f \in In(queue) \cup Dispatched \cup Adding : Past(f, epoch, curId)
  BY DEF InOrder, QueueInOrder
<1>6. In(queue') = In(queue) \cup {e} /\ Increasing(queue')
  <2>1. queue \in Seq(Event)
    BY DEF TypeOK, QueueType
  <2>2. Below(In(queue), {e})
    BY <1>1, <1>5 DEF Below
  <2>3. QED
    BY <1>1, <1>5, <2>1, <2>2, QueueMembers
<1>7. QueueInOrder'
  <2>1. Below(Dispatched', In(queue') \cup Adding')
    BY <1>1, <1>2, <1>4, <1>5, <1>6 DEF Below
  <2>2. Below(In(queue'), Adding')
    BY <1>1, <1>2, <1>5, <1>6 DEF Below
  <2>3. \A f \in In(queue') \cup Dispatched' \cup Adding' : Past(f, epoch', curId')
    BY <1>1, <1>2, <1>4, <1>5, <1>6
  <2>4. QED
    BY <1>6, <2>1, <2>2, <2>3 DEF QueueInOrder
<1>8. ASSUME NEW c \in Callbacks PROVE WayInOrder(c)'
  <2> DEFINE S == In(seen[c]) \cup In(poolq[c])
  <2>1. /\ Increasing(poolq[c]) /\ Below(In(seen[c]), In(poolq[c]))
        /\ Below(S, In(queue) \cup Adding)
        /\ Due(c) => Below(S, {qev})
        /\ \A f \in S : Past(f, epoch, curId)
    BY DEF InOrder, WayInOrder
  <2>2. /\ seen' = seen /\ poolq' = poolq /\ qev' = qev /\ epoch' = epoch /\ curId' = curId
    BY <1>1 DEF queueVars
  <2>3. Below(S', In(queue') \cup Adding')
    BY <1>1, <1>2, <1>6, <2>1, <2>2 DEF Below
  <2>4. QED
    BY <1>4, <2>1, <2>2, <2>3 DEF WayInOrder
<1>9. QED
  BY <1>3, <1>4, <1>7, <1>8 DEF InOrder

\* The order when the queue thread takes the next event.
LEMMA GetOrder == ASSUME TypeOK, InOrder, GetEvent PROVE InOrder'
<1>1. /\ queue # <<>> /\ qev' = Head(queue) /\ queue' = Tail(queue) /\ qpc' = "keys"
      /\ UNCHANGED <<wpc, wev, poolq, seen, epoch, curId>>
  BY DEF GetEvent, writerVars
<1>2. /\ Increasing(queue) /\ Below(In(queue), Adding)
      /\ \A f \in In(queue) \cup Adding : Past(f, epoch, curId)
  BY DEF InOrder, QueueInOrder
<1>3. /\ In(queue) = {qev'} \cup In(queue') /\ Increasing(queue')
      /\ Below({qev'}, In(queue'))
  <2>1. queue \in Seq(Event)
    BY DEF TypeOK, QueueType
  <2>2. QED
    BY <1>1, <1>2, <2>1, QueueMembers
<1>4. Dispatched' = {qev'} /\ Adding' = Adding
  BY <1>1 DEF Dispatched, Dispatching, Adding
<1>5. VisitsOnce' /\ OwnEvents'
  BY <1>1 DEF VisitsOnce, OwnEvents, InOrder
<1>6. QueueInOrder'
  <2>1. Below(Dispatched', In(queue') \cup Adding') /\ Below(In(queue'), Adding')
    BY <1>2, <1>3, <1>4 DEF Below
  <2>2. \A f \in In(queue') \cup Dispatched' \cup Adding' : Past(f, epoch', curId')
    BY <1>1, <1>2, <1>3, <1>4
  <2>3. QED
    BY <1>3, <2>1, <2>2 DEF QueueInOrder
<1>7. ASSUME NEW c \in Callbacks PROVE WayInOrder(c)'
  <2> DEFINE S == In(seen[c]) \cup In(poolq[c])
  <2>1. /\ Increasing(poolq[c]) /\ Below(In(seen[c]), In(poolq[c]))
        /\ Below(S, In(queue) \cup Adding)
        /\ \A f \in S : Past(f, epoch, curId)
    BY DEF InOrder, WayInOrder
  <2>2. seen' = seen /\ poolq' = poolq /\ epoch' = epoch /\ curId' = curId
    BY <1>1
  <2>3. Below(S', In(queue') \cup Adding') /\ Below(S', {qev'})
    BY <1>3, <1>4, <2>1, <2>2 DEF Below
  <2>4. QED
    BY <2>1, <2>2, <2>3 DEF WayInOrder
<1>8. QED
  BY <1>5, <1>6, <1>7 DEF InOrder

\* The order when the event is submitted to the pool of a callback, for which it
\* was due and no longer is.
LEMMA SubmitOrder == ASSUME TypeOK, InOrder, Submit PROVE InOrder'
<1>1. /\ qpc = "submit" /\ qcb \in Callbacks /\ qpc' = "ids" /\ qev \in Event
      /\ poolq' = [poolq EXCEPT ![qcb] = Append(@, qev)]
      /\ UNCHANGED <<wpc, wev, queue, qev, qkeys, qids, qcb, seen, epoch, curId>>
  BY DEF Submit, writerVars, TypeOK, QueueType
<1>2. VisitsOnce /\ OwnEvents /\ QueueInOrder
  BY DEF InOrder
<1>3. /\ Due(qcb) /\ ~Due(qcb)' /\ \A c \in Callbacks : Due(c)' => Due(c)
      /\ VisitsOnce' /\ OwnEvents'
  BY <1>1, <1>2 DEF Due, Dispatching, VisitsOnce, OwnEvents
<1>4. Dispatched = {qev} /\ Dispatched' = Dispatched /\ Adding' = Adding /\ queue' = queue
  BY <1>1 DEF Dispatched, Dispatching, Adding
<1>5. QueueInOrder'
  BY <1>1, <1>2, <1>4 DEF QueueInOrder, Below
<1>6. ASSUME NEW c \in Callbacks PROVE WayInOrder(c)'
  <2> DEFINE S == In(seen[c])
             P == In(poolq[c])
  <2>1. /\ Increasing(poolq[c]) /\ Below(S, P) /\ Below(S \cup P, In(queue) \cup Adding)
        /\ Due(c) => Below(S \cup P, {qev})
        /\ \A f \in S \cup P : Past(f, epoch, curId)
    BY DEF InOrder, WayInOrder
  <2>2. seen' = seen /\ epoch' = epoch /\ curId' = curId /\ qev' = qev
    BY <1>1
  <2>3. CASE c # qcb
    <3>1. poolq'[c] = poolq[c]
      BY <1>1, <2>3 DEF TypeOK, SubscriberType
    <3>2. QED
      BY <1>3, <1>4, <2>1, <2>2, <3>1 DEF WayInOrder, Below
  <2>4. CASE c = qcb
    <3>1. poolq[c] \in Seq(Event) /\ poolq'[c] = Append(poolq[c], qev)
      BY <1>1, <2>4 DEF TypeOK, SubscriberType
    <3>2. Below(S, {qev}) /\ Below(P, {qev})
      BY <1>3, <2>1, <2>4 DEF Below
    <3>3. P' = P \cup {qev} /\ Increasing(poolq'[c])
      BY <1>1, <2>1, <3>1, <3>2, QueueMembers
    <3>4. Below({qev}, In(queue) \cup Adding) /\ Past(qev, epoch, curId)
      BY <1>2, <1>4 DEF QueueInOrder
    <3>5. Below(S, P') /\ Below(S \cup P', In(queue) \cup Adding)
      BY <2>1, <3>2, <3>3, <3>4 DEF Below
    <3>6. \A f \in S \cup P' : Past(f, epoch, curId)
      BY <2>1, <3>3, <3>4
    <3>7. S' = S
      BY <2>2
    <3>8. /\ Below(S', P') /\ Below(S' \cup P', In(queue') \cup Adding')
          /\ \A f \in S' \cup P' : Past(f, epoch', curId')
      BY <1>4, <2>2, <3>5, <3>6, <3>7
    <3>9. QED
      <4> HIDE DEF S, P
      <4>1. ~Due(c)'
        BY <1>3, <2>4, <1>1
      <4>2. In(seen'[c]) = S' /\ In(poolq'[c]) = P'
        BY DEF S, P
      <4>3. QED
        BY <3>3, <3>8, <4>1, <4>2 DEF WayInOrder, Below
  <2>5. QED
    BY <2>3, <2>4
<1>7. QED
  BY <1>3, <1>5, <1>6 DEF InOrder

\* The order when a pool runs its callback: the event moves from the head of what
\* the pool has to the end of what the callback saw.
LEMMA RunOrder ==
  ASSUME TypeOK, InOrder, NEW b \in Callbacks, RunCallback(b)
  PROVE  InOrder' /\ Below(In(seen[b]), {Head(poolq[b])}) /\ Head(poolq[b]) \in Event
<1> DEFINE h == Head(poolq[b])
<1>1. /\ poolq[b] # <<>> /\ seen' = [seen EXCEPT ![b] = Append(@, h)]
      /\ poolq' = [poolq EXCEPT ![b] = Tail(@)]
      /\ UNCHANGED <<wpc, wev, queue, queueVars, epoch, curId>>
  BY DEF RunCallback, writerVars
<1>2. seen[b] \in Seq(Event) /\ poolq[b] \in Seq(Event)
  BY DEF TypeOK, SubscriberType
<1>3. /\ Dispatched' = Dispatched /\ Adding' = Adding /\ VisitsOnce' /\ OwnEvents'
      /\ \A c \in Callbacks : Due(c)' <=> Due(c)
  BY <1>1 DEF queueVars, Dispatched, Dispatching, Adding, Due, VisitsOnce, OwnEvents, InOrder
<1>4. queue' = queue /\ qev' = qev /\ epoch' = epoch /\ curId' = curId
  BY <1>1 DEF queueVars
<1>5. QueueInOrder'
  BY <1>3, <1>4 DEF InOrder, QueueInOrder, Below
<1>6. /\ Increasing(poolq[b]) /\ Below(In(seen[b]), In(poolq[b]))
  BY DEF InOrder, WayInOrder
<1>7. /\ h \in Event /\ Increasing(Tail(poolq[b])) /\ Below({h}, In(Tail(poolq[b])))
      /\ In(poolq[b]) = {h} \cup In(Tail(poolq[b]))
  BY <1>1, <1>2, <1>6, QueueMembers
<1>8. In(Append(seen[b], h)) = In(seen[b]) \cup {h}
  BY <1>2, <1>7, QueueMembers
<1>9. ASSUME NEW c \in Callbacks PROVE WayInOrder(c)'
  <2> DEFINE S == In(seen[c])
             P == In(poolq[c])
  <2>1. /\ Increasing(poolq[c]) /\ Below(S, P) /\ Below(S \cup P, In(queue) \cup Adding)
        /\ Due(c) => Below(S \cup P, {qev})
        /\ \A f \in S \cup P : Past(f, epoch, curId)
    BY DEF InOrder, WayInOrder
  <2>2. /\ S' \cup P' = S \cup P /\ Increasing(poolq[c])' /\ Below(S', P')
    <3>1. CASE c # b
      <4>1. seen'[c] = seen[c] /\ poolq'[c] = poolq[c]
        BY <1>1, <3>1 DEF TypeOK, SubscriberType
      <4>2. QED
        BY <2>1, <4>1
    <3>2. CASE c = b
      <4>1. seen'[c] = Append(seen[b], h) /\ poolq'[c] = Tail(poolq[b])
        BY <1>1, <3>2 DEF TypeOK, SubscriberType
      <4>2. S' = S \cup {h} /\ P = {h} \cup P'
        BY <1>7, <1>8, <3>2, <4>1
      <4>3. Below(S', P')
        BY <1>7, <2>1, <4>1, <4>2 DEF Below
      <4>4. QED
        BY <1>7, <4>1, <4>2, <4>3
    <3>3. QED
      BY <3>1, <3>2
  <2>3. QED
    BY <1>3, <1>4, <2>1, <2>2 DEF WayInOrder, Below
<1>10. Below(In(seen[b]), {h})
  BY <1>6, <1>7 DEF Below
<1>11. QED
  BY <1>3, <1>5, <1>7, <1>9, <1>10 DEF InOrder

\* The next subscriber id is one of those still to visit.
LEMMA MinOfKeys ==
  ASSUME TypeOK, qkeys # {}
  PROVE  Min(qkeys) \in qkeys
<1>1. IsFiniteSet(Keys) /\ Keys \subseteq Nat /\ qkeys \subseteq Keys
  BY ConstantsOK DEF TypeOK, QueueType
<1>2. IsFiniteSet(qkeys)
  BY <1>1, FS_Subset
<1>3. qkeys \in SUBSET Int
  BY <1>1
<1>4. QED
  BY <1>2, <1>3, MinOfFinite

\* Every step keeps the order.
LEMMA OrderStep ==
  TypeOK /\ InOrder /\ [Next]_vars => InOrder'
<1> SUFFICES ASSUME TypeOK, InOrder, [Next]_vars PROVE InOrder'
  OBVIOUS
<1> DEFINE Same == UNCHANGED <<queue, qev, poolq, seen, epoch, curId>>
<1>1. /\ VisitsOnce /\ OwnEvents /\ Increasing(queue)
      /\ \A c \in Callbacks : Increasing(poolq[c])
  BY DEF InOrder, QueueInOrder, WayInOrder
<1>2. ASSUME Same, UNCHANGED <<qpc, qkeys, qids, qcb>>, OwnEvents', Adding' \subseteq Adding
      PROVE  InOrder'
  <2>1. /\ VisitsOnce' /\ Dispatched' = Dispatched /\ \A c \in Callbacks : Due(c)' => Due(c)
    BY <1>1, <1>2 DEF VisitsOnce, Dispatched, Dispatching, Due
  <2>2. QED
    BY <1>1, <1>2, <2>1, Fewer
<1>3. ASSUME NEW w \in Writers,
             WriteFile(w) \/ WriteFileRaises(w) \/ StoreCachePageRaises(w) \/ StoreCachePage(w)
      PROVE  InOrder'
  <2>1. /\ wev' = wev /\ Same /\ UNCHANGED <<qpc, qkeys, qids, qcb>>
        /\ \A v \in Writers : wpc'[v] # "idle" => wpc[v] # "idle"
    BY <1>3 DEF WriteFile, WriteFileRaises, StoreCachePageRaises, StoreCachePage,
           queueVars, TypeOK, WriterType
  <2>2. OwnEvents' /\ Adding' \subseteq Adding
    BY <1>1, <2>1 DEF OwnEvents, Adding
  <2>3. QED
    BY <1>2, <2>1, <2>2
<1>4. ASSUME NEW w \in Writers, AssignIdRaises(w) PROVE InOrder'
  <2>1. /\ UNCHANGED <<wpc, wev, queue, qpc, qev, qkeys, qids, qcb, poolq, seen, epoch>>
        /\ curId' = CurId + 1 /\ CurId \in Nat
    BY <1>4, CurIdBounds DEF AssignIdRaises, NextCurId, queueVars
  <2>2. /\ VisitsOnce' /\ OwnEvents' /\ Dispatched' = Dispatched /\ Adding' = Adding
        /\ \A c \in Callbacks : Due(c)' => Due(c)
    BY <1>1, <2>1 DEF VisitsOnce, OwnEvents, Dispatched, Dispatching, Adding, Due
  <2>3. \A e \in Event : Past(e, epoch, curId) => Past(e, epoch', curId')
    BY <2>1 DEF Past, CurId, Unset, Event, Ids
  <2>4. QED
    BY <1>1, <2>1, <2>2, <2>3, Fewer
<1>5. CASE CheckStopFlag \/ SeesShutdown \/ GetTimesOut \/ VisitKey \/ CheckCallback
           \/ SubmitRaises
  <2>1. wpc' = wpc /\ wev' = wev /\ Same
    BY <1>5 DEF CheckStopFlag, SeesShutdown, GetTimesOut, VisitKey, CheckCallback,
           SubmitRaises, writerVars
  <2>2. OwnEvents' /\ Adding' = Adding
    BY <1>1, <2>1 DEF OwnEvents, Adding
  <2>3. VisitsOnce' /\ Dispatched' \subseteq Dispatched /\ \A c \in Callbacks : Due(c)' => Due(c)
    <3>1. CASE CheckStopFlag \/ SeesShutdown \/ GetTimesOut \/ SubmitRaises
      BY <3>1 DEF CheckStopFlag, SeesShutdown, GetTimesOut, SubmitRaises, VisitsOnce,
             Dispatched,
                  Dispatching, Due
    <3>2. CASE VisitKey /\ qkeys = {}
      BY <3>2 DEF VisitKey, VisitsOnce, Dispatched, Dispatching, Due
    <3>3. CASE VisitKey /\ qkeys # {}
      <4>1. /\ qpc = "keys" /\ qpc' = "ids" /\ qkeys' = qkeys \ {Min(qkeys)}
            /\ \A c \in qids' : c[1] = Min(qkeys)
            /\ Min(qkeys) \in qkeys /\ qev' = qev
        BY <3>3, MinOfKeys DEF VisitKey
      <4>2. QED
        BY <4>1 DEF VisitsOnce, Dispatched, Dispatching, Due
    <3>4. CASE CheckCallback /\ qids = {}
      BY <3>4 DEF CheckCallback, VisitsOnce, Dispatched, Dispatching, Due
    <3>5. CASE CheckCallback /\ qids # {}
      <4>1. PICK c \in qids :
              /\ qids' = qids \ {c}
              /\ (qpc' = "submit" /\ qcb' = c) \/ qpc' = "ids"
        BY <3>5 DEF CheckCallback
      <4>2. qpc = "ids" /\ qkeys' = qkeys /\ qev' = qev
        BY <3>5 DEF CheckCallback
      <4>3. QED
        BY <1>1, <4>1, <4>2 DEF VisitsOnce, Dispatched, Dispatching, Due
    <3>6. QED
      BY <1>5, <3>1, <3>2, <3>3, <3>4, <3>5
  <2>4. QED
    BY <1>1, <2>1, <2>2, <2>3, Fewer
<1>6. CASE DrainQueue
  <2>1. /\ UNCHANGED <<wpc, wev, qpc, qev, qkeys, qids, qcb, poolq, seen, epoch, curId>>
        /\ queue' = queue \/ (queue # <<>> /\ queue' = Tail(queue))
    BY <1>6 DEF DrainQueue, writerVars, queueVars
  <2>2. In(queue') \subseteq In(queue) /\ Increasing(queue')
    BY <1>1, <2>1, QueueMembers DEF TypeOK, QueueType
  <2>3. /\ VisitsOnce' /\ OwnEvents' /\ Dispatched' = Dispatched /\ Adding' = Adding
        /\ \A c \in Callbacks : Due(c)' => Due(c)
    BY <1>1, <2>1 DEF VisitsOnce, OwnEvents, Dispatched, Dispatching, Adding, Due
  <2>4. QED
    BY <1>1, <2>1, <2>2, <2>3, Fewer
<1>7. CASE SessionThread /\ ~DrainQueue
  <2>1. wpc' = wpc /\ wev' = wev /\ Same /\ UNCHANGED <<qpc, qkeys, qids, qcb>>
    BY <1>7 DEF SessionThread, Subscribe, Unsubscribe, SubscribePool, ShutdownReturns,
         DeletePool, DeleteSubscriber, CloseStream, JoinReturns, CleanUpNext, writerVars,
         queueVars
  <2>2. OwnEvents' /\ Adding' = Adding
    BY <1>1, <2>1 DEF OwnEvents, Adding
  <2>3. QED
    BY <1>2, <2>1, <2>2
<1>8. CASE Crash
  <2>1. /\ queue' = <<>> /\ qpc' = "loop" /\ epoch' = epoch + 1 /\ curId' = Unset
        /\ wpc' = [w \in Writers |-> "idle"] /\ poolq' = [c \in Callbacks |-> <<>>]
        /\ seen' = seen
    BY <1>8 DEF Crash
  <2>2. /\ VisitsOnce' /\ OwnEvents' /\ Dispatched' = {} /\ Adding' = {}
        /\ \A c \in Callbacks : ~Due(c)'
    BY <2>1 DEF VisitsOnce, OwnEvents, Dispatched, Dispatching, Adding, Due
  <2>3. \A e \in Event : Past(e, epoch, curId) => Past(e, epoch', curId')
    BY <2>1 DEF Past, Event, TypeOK, SessionType
  <2>4. In(<<>>) = {} /\ Increasing(<<>>)
    BY DEF In, Increasing
  <2>5. /\ In(queue') = {} /\ Increasing(queue')
        /\ \A c \in Callbacks : In(poolq'[c]) = {} /\ Increasing(poolq'[c])
    BY <2>1, <2>4
  <2>6. QED
    BY <2>1, <2>2, <2>3, <2>5, Fewer
<1>9. CASE UNCHANGED vars
  <2>1. wpc' = wpc /\ wev' = wev /\ Same /\ UNCHANGED <<qpc, qkeys, qids, qcb>>
    BY <1>9 DEF vars
  <2>2. OwnEvents' /\ Adding' = Adding
    BY <1>1, <2>1 DEF OwnEvents, Adding
  <2>3. QED
    BY <1>2, <2>1, <2>2
<1>10. QED
  BY <1>3, <1>4, <1>5, <1>6, <1>7, <1>8, <1>9, AssignOrder, EnqueueOrder, GetOrder,
     SubmitOrder, RunOrder
  DEF Next, AddEvent, QueueThread

-----------------------------------------------------------------------------
(* The refinement.                                                         *)

\* Every step is a step of the abstract log or leaves it alone: a file is filled
\* that was free, or a callback is run with an event of the log that comes after
\* those of the same writer it has seen.
LEMMA StepOfLog ==
  TypeOK /\ FreshIds /\ EnqueuedIsDurable /\ InOrder /\ [Next]_vars
    => [Log!Next]_<<files, seen>>
<1> SUFFICES ASSUME TypeOK, FreshIds, EnqueuedIsDurable, InOrder, [Next]_vars
             PROVE  [Log!Next]_<<files, seen>>
  OBVIOUS
<1>1. ASSUME NEW w \in Writers, WriteFile(w) PROVE Log!Next
  <2>1. wev[w] \in Event
    BY <1>1 DEF WriteFile, TypeOK, WriterType
  <2>2. Log!AppendEvent(wev[w])
    BY <1>1 DEF WriteFile, FreshIds, Log!AppendEvent
  <2>3. QED
    BY <2>1, <2>2 DEF Log!Next
<1>2. ASSUME NEW c \in Callbacks, RunCallback(c) PROVE Log!Next
  <2> DEFINE e == Head(poolq[c])
  <2>1. e \in Event /\ Below(In(seen[c]), {e})
    BY <1>2, RunOrder
  <2>2. poolq[c] \in Seq(Event) /\ poolq[c] # <<>>
    BY <1>2 DEF RunCallback, TypeOK, SubscriberType
  <2>3. 1 \in DOMAIN poolq[c] /\ e = poolq[c][1]
    BY <2>2
  <2>4. files[e.id] = e
    BY <2>3 DEF EnqueuedIsDurable, Durable
  <2>5. \A k \in DOMAIN seen[c] : seen[c][k].by = e.by => Log!Before(seen[c][k], e)
    BY <2>1 DEF Below, In
  <2>6. Log!Deliver(c, e)
    BY <1>2, <2>4, <2>5 DEF RunCallback, storeVars, Log!Deliver
  <2>7. QED
    BY <2>1, <2>6 DEF Log!Next
<1>3. CASE (~\E w \in Writers : WriteFile(w)) /\ ~\E c \in Callbacks : RunCallback(c)
  BY <1>3 DEF Next, AddEvent, AssignId, AssignIdRaises, WriteFileRaises,
         StoreCachePageRaises, StoreCachePage,
       Enqueue, QueueThread, CheckStopFlag, SeesShutdown, GetTimesOut, GetEvent,
       VisitKey, CheckCallback,
       Submit, SubmitRaises, SessionThread, Subscribe, Unsubscribe, SubscribePool,
       ShutdownReturns, DeletePool, DeleteSubscriber, CloseStream, JoinReturns, CleanUpNext,
       DrainQueue, Crash, vars, storeVars
<1>4. QED
  BY <1>1, <1>2, <1>3

\* What one writer adds reaches each callback in order and at most once, whatever
\* the threads and the crashes do: the stream implements the abstract log.
THEOREM StreamIsLog == Spec => RefinesLog
<1>1. Init => Log!Init
  BY DEF Init, Log!Init
<1>2. Spec => []InOrder
  <2>1. Init => InOrder
    BY OrderInit
  <2>2. TypeOK /\ InOrder /\ [Next]_vars => InOrder'
    BY OrderStep
  <2>3. QED
    BY <2>1, <2>2, TypeCorrect, PTL DEF Spec
<1>3. TypeOK /\ FreshIds /\ EnqueuedIsDurable /\ InOrder /\ [Next]_vars
        => [Log!Next]_<<files, seen>>
  BY StepOfLog
<1>4. QED
  BY <1>1, <1>2, <1>3, TypeCorrect, IdsAreFresh, HandedOutIsDurable, PTL
  DEF Spec, RefinesLog, Log!Spec

-----------------------------------------------------------------------------
(* Quiet: close() leaves nothing that could still run a callback.          *)

CleansUp == mpc \in {"shutdown", "delpool", "delsub"}

\* A pool without a subscriber entry is gone, and a pool that is gone has nothing
\* to run.
PoolsOfSubscribers ==
  \A c \in Callbacks :
    /\ pool[c] = "none" => poolq[c] = <<>>
    /\ pool[c] # "none" => c \in subs

\* The pool the session thread works on was shut before it is deleted, and has
\* run everything before that.
CleanUpInOrder ==
  /\ mpc \in {"shutdown", "delpool"} => pool[mcb] = "shut"
  /\ mpc = "delpool" => poolq[mcb] = <<>>
  /\ mpc = "delsub" => pool[mcb] = "none"
  /\ mpc = "subscribe" => mcb \in subs

\* What close() has still to clean up is all that is subscribed.
NothingForgotten ==
  /\ mpc \in {"idle", "subscribe"} => ~stop
  /\ mpc = "cleanup" => mtodo = subs
  /\ stop /\ CleansUp => subs = mtodo \cup {mcb} /\ mcb \notin mtodo
  /\ mpc \in {"drain", "closed"} => subs = {}

QuietInv == PoolsOfSubscribers /\ CleanUpInOrder /\ NothingForgotten

LEMMA QuietStep == TypeOK /\ QuietInv /\ [Next]_vars => QuietInv'
<1> SUFFICES ASSUME TypeOK, QuietInv, [Next]_vars PROVE QuietInv'
  OBVIOUS
<1> USE DEF QuietInv, PoolsOfSubscribers, CleanUpInOrder, NothingForgotten, CleansUp
<1>1. /\ pool \in [Callbacks -> {"none", "open", "shut"}]
      /\ poolq \in [Callbacks -> Seq(Event)] /\ subs \subseteq Callbacks
      /\ mpc \in {"subscribe", "shutdown", "delpool", "delsub"} => mcb \in Callbacks
      /\ mtodo \subseteq Callbacks
      /\ qpc = "submit" => qcb \in Callbacks /\ qev \in Event
  BY DEF TypeOK, SubscriberType, SessionType, QueueType
<1>2. CASE UNCHANGED <<manageVars, subVars, poolq>>
  BY <1>2 DEF manageVars, subVars
<1>3. CASE Submit
  BY <1>1, <1>3 DEF Submit, manageVars, subVars
<1>4. ASSUME NEW c \in Callbacks, RunCallback(c) PROVE QuietInv'
  <2>1. /\ UNCHANGED <<manageVars, subVars>> /\ poolq[c] # <<>>
        /\ \A d \in Callbacks : poolq'[d] = IF d = c THEN Tail(poolq[c]) ELSE poolq[d]
    BY <1>1, <1>4 DEF RunCallback
  <2>2. \A d \in Callbacks : poolq[d] = <<>> => poolq'[d] = <<>>
    BY <2>1
  <2>3. QED
    BY <1>1, <2>1, <2>2 DEF manageVars, subVars
<1>5. ASSUME NEW c \in Callbacks, Subscribe(c) PROVE QuietInv'
  BY <1>1, <1>5 DEF Subscribe
<1>6. ASSUME NEW c \in Callbacks, Unsubscribe(c) PROVE QuietInv'
  BY <1>1, <1>6 DEF Unsubscribe
<1>7. CASE SubscribePool
  BY <1>1, <1>7 DEF SubscribePool
<1>8. CASE ShutdownReturns
  BY <1>1, <1>8 DEF ShutdownReturns, subVars
<1>9. CASE DeletePool
  BY <1>1, <1>9 DEF DeletePool
<1>10. CASE DeleteSubscriber
  BY <1>1, <1>10 DEF DeleteSubscriber
<1>11. CASE CloseStream \/ JoinReturns \/ DrainQueue
  BY <1>1, <1>11 DEF CloseStream, JoinReturns, DrainQueue, subVars
<1>12. CASE CleanUpNext
  BY <1>1, <1>12 DEF CleanUpNext
<1>13. CASE Crash
  BY <1>13, ConstantsOK DEF Crash
<1>14. CASE \E w \in Writers : AddEvent(w)
  BY <1>2, <1>14 DEF AddEvent, AssignId, AssignIdRaises, WriteFile, WriteFileRaises,
         StoreCachePageRaises,
       StoreCachePage, Enqueue
<1>15. CASE QueueThread \/ SeesShutdown
  BY <1>2, <1>3, <1>15 DEF QueueThread, CheckStopFlag, SeesShutdown, GetTimesOut,
         GetEvent, VisitKey,
       CheckCallback, SubmitRaises
<1>16. QED
  BY <1>2, <1>4, <1>5, <1>6, <1>7, <1>8, <1>9, <1>10, <1>11, <1>12, <1>13, <1>14, <1>15
  DEF Next, SessionThread, vars, manageVars, subVars

\* When close() has returned, no pool is left to run a callback, whatever was
\* subscribed and whatever the queue thread, the pools and a crash did meanwhile.
THEOREM ClosedStaysQuiet == Spec => []ClosedIsQuiet
<1>1. Init => QuietInv
  BY ConstantsOK DEF Init, QuietInv, PoolsOfSubscribers, CleanUpInOrder, NothingForgotten,
     CleansUp
<1>2. TypeOK /\ QuietInv /\ [Next]_vars => QuietInv'
  BY QuietStep
<1>3. QuietInv => ClosedIsQuiet
  BY DEF QuietInv, PoolsOfSubscribers, NothingForgotten, ClosedIsQuiet
<1>4. QED
  BY <1>1, <1>2, <1>3, TypeCorrect, PTL DEF Spec

-----------------------------------------------------------------------------
(* The cache pages: each event has its place in a write page, by its id.   *)

\* Quotient and remainder of the next number.
LEMMA DivMod ==
  ASSUME NEW c \in Nat \ {0}, NEW n \in Nat
  PROVE  /\ n % c \in 0 .. c - 1 /\ n \div c \in Nat
         /\ n = c * (n \div c) + (n % c)
         /\ (n + 1) % c = IF n % c = c - 1 THEN 0 ELSE (n % c) + 1
         /\ (n + 1) \div c = IF n % c = c - 1 THEN (n \div c) + 1 ELSE n \div c
<1>1. n % c \in 0 .. c - 1 /\ n \div c \in Nat
  OBVIOUS
<1>2. n = c * (n \div c) + (n % c)
  OBVIOUS
<1> DEFINE q == n \div c
           r == n % c
<1> HIDE DEF q, r
<1>3. n = c * q + r /\ q \in Nat /\ r \in 0 .. c - 1
  BY <1>1, <1>2 DEF q, r
<1>4. CASE r = c - 1
  <2>1. n + 1 = c * (q + 1) + 0
    BY <1>3, <1>4
  <2>2. (n + 1) % c = 0 /\ (n + 1) \div c = q + 1
    BY <1>3, <2>1
  <2>3. QED
    BY <1>1, <1>2, <1>4, <2>2 DEF q, r
<1>5. CASE r # c - 1
  <2>1. n + 1 = c * q + (r + 1)
    BY <1>3, <1>5
  <2>2. (n + 1) % c = r + 1 /\ (n + 1) \div c = q
    BY <1>3, <1>5, <2>1
  <2>3. QED
    BY <1>1, <1>2, <1>5, <2>2 DEF q, r
<1>6. QED
  BY <1>4, <1>5

\* The start of the page of n is in the same page, at its first place.
LEMMA StartOfPage ==
  ASSUME NEW c \in Nat \ {0}, NEW n \in Nat
  PROVE  /\ n - (n % c) \in 0 .. n
         /\ (n - (n % c)) \div c = n \div c
<1> DEFINE q == n \div c
           r == n % c
<1>1. n = c * q + r /\ q \in Nat /\ r \in 0 .. c - 1
  BY DivMod
<1> HIDE DEF q, r
<1>2. n - r = c * q + 0 /\ n - r \in 0 .. n
  <2>1. c * q \in Nat
    BY <1>1
  <2>2. QED
    BY <1>1, <2>1
<1>3. (n - r) \div c = q
  BY <1>1, <1>2
<1>4. QED
  BY <1>2, <1>3 DEF q, r

Page(i) == (i \div CacheSize) + 1
Slot(i) == (i % CacheSize) + 1
Assigned == IF curId = Unset THEN 0 ELSE curId

\* The event has its place in the write pages.
Held(e) ==
  /\ Page(e.id) \in DOMAIN pages /\ Slot(e.id) \in DOMAIN pages[Page(e.id)]
  /\ pages[Page(e.id)][Slot(e.id)] = e

\* As many pages as the ids fill; all but the last are full.
PagesFilled ==
  /\ Len(pages) = Page(Assigned)
  /\ \A k \in DOMAIN pages :
       Len(pages[k]) = IF k < Len(pages) THEN CacheSize ELSE Assigned % CacheSize

AllHeld ==
  /\ \A i \in Ids : files[i] # NoEvent => files[i].id = i /\ Held(files[i])
  /\ \A w \in Writers : wpc[w] # "idle" => Held(wev[w]) /\ wpage[w] = Page(wev[w].id)

\* The first event of a page says where the page starts.
FirstOfPage ==
  \A k \in DOMAIN pages : pages[k] # <<>> =>
    Page(pages[k][1].id) = k /\ Slot(pages[k][1].id) = 1

\* What was stored is a full page.
CachedPages ==
  \A i \in Ids : cache[i] # <<>> =>
    /\ Page(i) \in DOMAIN pages /\ Len(pages[Page(i)]) = CacheSize
    /\ cache[i] = pages[Page(i)]

PagesInv == PagesFilled /\ AllHeld /\ FirstOfPage /\ CachedPages

Untroubled == epoch = 0 /\ budget.badEvents = MaxBadEvents

\* The pages when an event takes the next id.
LEMMA AssignPages ==
  ASSUME TypeOK, PagesInv, NEW w \in Writers, AssignId(w)
  PROVE  PagesInv'
<1> DEFINE n == Assigned
           k0 == Len(pages)
           e == NewEvent(w)
           page == Append(pages[k0], e)
           filled == [pages EXCEPT ![k0] = page]
<1>1. /\ pages \in Seq(Seq(Event)) /\ pages # <<>> /\ k0 \in Nat \ {0}
      /\ CacheSize \in Nat \ {0} /\ n \in Nat /\ curId \in Nat \cup {Unset}
      /\ wpc \in [Writers -> {"idle", "write", "page", "put"}]
      /\ wev \in [Writers -> Event \cup {NoEvent}] /\ wpage \in [Writers -> Nat]
  BY ConstantsOK DEF TypeOK, WriterType, Assigned, Unset
<1>2. pages[k0] \in Seq(Event) /\ Len(pages[k0]) = n % CacheSize /\ k0 = Page(n)
  <2>1. k0 \in DOMAIN pages /\ pages[k0] \in Seq(Event) /\ ~(k0 < k0)
    BY <1>1
  <2>2. PagesFilled
    BY DEF PagesInv
  <2>3. QED
    BY <2>1, <2>2 DEF PagesFilled
<1>3. CurId = n
  <2>1. CASE curId = Unset
    <3>1. n = 0 /\ k0 = 1 /\ pages[1] = <<>>
      <4>1. 0 % CacheSize = 0 /\ 0 \div CacheSize = 0
        BY <1>1
      <4>2. n = 0
        BY <2>1 DEF Assigned
      <4>3. k0 = 1 /\ Len(pages[1]) = 0
        BY <1>2, <4>1, <4>2 DEF Page
      <4>4. QED
        BY <1>2, <4>2, <4>3, EmptySeq
    <3>2. \A f \in Event : ~Held(f)
      BY <1>1, <3>1 DEF Held
    <3>3. Stored = {}
      BY <3>2 DEF PagesInv, AllHeld, Stored, TypeOK, StoreType
    <3>4. QED
      BY <2>1, <3>1, <3>3 DEF CurId, CalculateCurId
  <2>2. CASE curId # Unset
    BY <2>2 DEF CurId, Assigned
  <2>3. QED
    BY <2>1, <2>2
<1>4. /\ pages' = IF Len(page) = CacheSize THEN Append(filled, <<>>) ELSE filled
      /\ curId' = n + 1 /\ wpage' = [wpage EXCEPT ![w] = k0]
      /\ wev' = [wev EXCEPT ![w] = e] /\ wpc' = [wpc EXCEPT ![w] = "write"]
      /\ files' = files /\ cache' = cache
  BY <1>3 DEF AssignId, NextCurId, storeVars
<1>5. e.id = n /\ e \in Event
  <2>1. wev'[w] = e /\ n < MaxId
    BY <1>1, <1>3, <1>4 DEF AssignId
  <2>2. n \in Ids /\ epoch \in 0 .. MaxCrashes
    BY <1>1, <2>1, ConstantsOK DEF Ids, TypeOK, SessionType
  <2>3. QED
    BY <1>3, <2>2 DEF NewEvent, Event
<1>6. Assigned' = n + 1
  BY <1>1, <1>4 DEF Assigned, Unset
<1>7. /\ Len(page) = (n % CacheSize) + 1 /\ page[Slot(n)] = e /\ Slot(n) \in DOMAIN page
      /\ page \in Seq(Event)
      /\ \A j \in DOMAIN pages[k0] : j \in DOMAIN page /\ page[j] = pages[k0][j]
  BY <1>1, <1>2, <1>5, DivMod DEF Slot
<1> HIDE DEF page, e, n
<1>8. /\ filled \in Seq(Seq(Event)) /\ Len(filled) = k0 /\ filled[k0] = page
      /\ \A k \in DOMAIN pages : k # k0 => filled[k] = pages[k]
  BY <1>1, <1>7
<1> HIDE DEF filled
<1>9. /\ DOMAIN pages \subseteq DOMAIN pages' /\ pages'[k0] = page
      /\ \A k \in DOMAIN pages : k # k0 => pages'[k] = pages[k]
      /\ \A k \in DOMAIN pages' \ DOMAIN pages : pages'[k] = <<>> /\ k = k0 + 1
  BY <1>1, <1>4, <1>8
<1>10. \A k \in 1 .. k0 - 1 : k \in DOMAIN pages /\ Len(pages[k]) = CacheSize
  <2>1. PagesFilled
    BY DEF PagesInv
  <2>2. \A k \in 1 .. k0 - 1 : k \in DOMAIN pages /\ k < k0
    BY <1>1
  <2>3. QED
    BY <2>1, <2>2 DEF PagesFilled
<1>11. PagesFilled'
  <2>1. CASE n % CacheSize = CacheSize - 1
    <3>1. /\ (n + 1) % CacheSize = 0 /\ (n + 1) \div CacheSize = (n \div CacheSize) + 1
          /\ n \div CacheSize \in Nat
      BY <1>1, <2>1, DivMod
    <3>2. Len(page) = CacheSize
      BY <1>1, <1>7, <2>1
    <3>3. Len(pages') = k0 + 1 /\ pages'[k0 + 1] = <<>> /\ DOMAIN pages' = 1 .. k0 + 1
      BY <1>4, <1>8, <3>2
    <3>4. Len(pages') = Page(n + 1)
      BY <1>2, <3>1, <3>3 DEF Page
    <3>5. ASSUME NEW k \in 1 .. k0 + 1
          PROVE  Len(pages'[k]) = IF k < k0 + 1 THEN CacheSize ELSE 0
      <4>1. CASE k = k0 + 1
        BY <3>3, <4>1
      <4>2. CASE k = k0
        BY <1>1, <1>9, <3>2, <4>2
      <4>3. CASE k < k0
        <5>1. k \in 1 .. k0 - 1 /\ k # k0 /\ k < k0 + 1
          BY <1>1, <4>3
        <5>2. k \in DOMAIN pages /\ Len(pages[k]) = CacheSize
          BY <1>10, <5>1
        <5>3. pages'[k] = pages[k]
          BY <1>9, <5>1, <5>2
        <5>4. QED
          BY <5>1, <5>2, <5>3
      <4>4. QED
        BY <1>1, <4>1, <4>2, <4>3
    <3>6. QED
      BY <1>1, <1>6, <3>1, <3>3, <3>4, <3>5 DEF PagesFilled, Page
  <2>2. CASE n % CacheSize # CacheSize - 1
    <3>1. /\ (n + 1) % CacheSize = (n % CacheSize) + 1
          /\ (n + 1) \div CacheSize = n \div CacheSize
          /\ n % CacheSize \in 0 .. CacheSize - 1
      BY <1>1, <2>2, DivMod
    <3>2. Len(page) # CacheSize
      BY <1>1, <1>7, <2>2, <3>1
    <3>3. pages' = filled /\ Len(pages') = k0
      BY <1>4, <1>8, <3>2
    <3>4. Len(pages') = Page(n + 1)
      BY <1>2, <3>1, <3>3 DEF Page
    <3>5. ASSUME NEW k \in 1 .. k0
          PROVE  Len(pages'[k]) = IF k < k0 THEN CacheSize ELSE (n % CacheSize) + 1
      <4>1. CASE k = k0
        <5>1. pages'[k0] = page /\ Len(page) = (n % CacheSize) + 1 /\ ~(k0 < k0)
          BY <1>1, <1>7, <1>9
        <5>2. QED
          BY <4>1, <5>1
      <4>2. CASE k < k0
        <5>1. k \in 1 .. k0 - 1 /\ k # k0
          BY <1>1, <4>2
        <5>2. k \in DOMAIN pages /\ Len(pages[k]) = CacheSize
          BY <1>10, <5>1
        <5>3. pages'[k] = pages[k]
          BY <1>9, <5>1, <5>2
        <5>4. QED
          BY <5>1, <5>2, <5>3
      <4>3. QED
        BY <1>1, <4>1, <4>2
    <3>6. QED
      BY <1>1, <1>6, <3>1, <3>3, <3>4, <3>5 DEF PagesFilled, Page
  <2>3. QED
    BY <2>1, <2>2
<1>12. \A f : Held(f) => Held(f)'
  BY <1>1, <1>7, <1>9 DEF Held
<1>13. (\A f : f = e => Held(f)') /\ Page(e.id) = k0
  BY <1>1, <1>2, <1>5, <1>7, <1>9 DEF Held
<1>14. AllHeld'
  <2>1. \A i \in Ids : files'[i] # NoEvent => files'[i].id = i /\ Held(files[i])'
    BY <1>4, <1>12 DEF PagesInv, AllHeld
  <2>2. ASSUME NEW v \in Writers, wpc'[v] # "idle"
        PROVE  Held(wev[v])' /\ wpage'[v] = Page(wev'[v].id)
    <3>1. CASE v = w
      <4>1. wev'[v] = e /\ wpage'[v] = k0
        BY <1>1, <1>4, <3>1
      <4>2. QED
        BY <1>13, <4>1 DEF Held
    <3>2. CASE v # w
      <4>1. wev'[v] = wev[v] /\ wpage'[v] = wpage[v] /\ wpc[v] # "idle"
        BY <1>1, <1>4, <2>2, <3>2
      <4>2. Held(wev[v]) /\ wpage[v] = Page(wev[v].id)
        BY <4>1 DEF PagesInv, AllHeld
      <4>3. QED
        BY <1>12, <4>1, <4>2 DEF Held
    <3>3. QED
      BY <3>1, <3>2
  <2>3. QED
    BY <2>1, <2>2 DEF AllHeld
<1>15. FirstOfPage'
  <2>1. ASSUME NEW k \in DOMAIN pages', pages'[k] # <<>>
        PROVE  Page(pages'[k][1].id) = k /\ Slot(pages'[k][1].id) = 1
    <3>1. k \in DOMAIN pages
      BY <1>9, <2>1
    <3>2. CASE k # k0
      BY <1>9, <2>1, <3>1, <3>2 DEF PagesInv, FirstOfPage
    <3>3. CASE k = k0 /\ pages[k0] # <<>>
      <4>1. 1 \in DOMAIN pages[k0]
        BY <1>2, <3>3
      <4>2. QED
        BY <1>7, <1>9, <3>1, <3>3, <4>1 DEF PagesInv, FirstOfPage
    <3>4. CASE k = k0 /\ pages[k0] = <<>>
      <4>1. n % CacheSize = 0 /\ Slot(n) = 1
        BY <1>2, <3>4 DEF Slot
      <4>2. pages'[k][1] = e
        BY <1>7, <1>9, <3>4, <4>1
      <4>3. QED
        BY <1>2, <1>5, <3>4, <4>1, <4>2
    <3>5. QED
      BY <3>2, <3>3, <3>4
  <2>2. QED
    BY <2>1 DEF FirstOfPage, Page, Slot
<1>16. CachedPages'
  <2>1. ASSUME NEW i \in Ids, cache[i] # <<>>
        PROVE  /\ Page(i) \in DOMAIN pages' /\ Len(pages'[Page(i)]) = CacheSize
               /\ cache[i] = pages'[Page(i)]
    <3>1. Page(i) \in DOMAIN pages /\ Len(pages[Page(i)]) = CacheSize
          /\ cache[i] = pages[Page(i)]
      BY <2>1 DEF PagesInv, CachedPages
    <3>2. Page(i) # k0
      BY <1>1, <1>2, <3>1, DivMod
    <3>3. QED
      BY <1>9, <3>1, <3>2
  <2>2. QED
    BY <1>4, <2>1 DEF CachedPages, Page
<1>17. QED
  BY <1>11, <1>14, <1>15, <1>16 DEF PagesInv

\* A page is stored under the place where it starts.
LEMMA StorePages ==
  ASSUME TypeOK, PagesInv, NEW w \in Writers, StoreCachePage(w)
  PROVE  PagesInv'
<1> DEFINE page == pages[wpage[w]]
<1>1. /\ cache' = IF Len(page) < CacheSize THEN cache ELSE [cache EXCEPT ![page[1].id] = page]
      /\ wpc[w] = "page" /\ wpc' = [wpc EXCEPT ![w] = "put"]
      /\ UNCHANGED <<files, curId, pages, wev, wpage>>
  BY DEF StoreCachePage
<1>2. /\ wpage[w] \in DOMAIN pages /\ page \in Seq(Event) /\ CacheSize \in Nat \ {0}
      /\ wpc \in [Writers -> {"idle", "write", "page", "put"}]
      /\ cache \in [Ids -> Seq(Event)] /\ pages \in Seq(Seq(Event))
  BY <1>1, ConstantsOK DEF TypeOK, WriterType, StoreType
<1>3. PagesFilled' /\ FirstOfPage'
  BY <1>1 DEF PagesInv, PagesFilled, FirstOfPage, Assigned, Page, Slot
<1>4. AllHeld'
  <2>1. \A v \in Writers : wpc'[v] # "idle" => wpc[v] # "idle"
    BY <1>1, <1>2
  <2>2. QED
    BY <1>1, <2>1 DEF PagesInv, AllHeld, Held, Page, Slot
<1>5. CachedPages'
  <2>1. ASSUME NEW i \in Ids, cache'[i] # <<>>
        PROVE  /\ Page(i) \in DOMAIN pages /\ Len(pages[Page(i)]) = CacheSize
               /\ cache'[i] = pages[Page(i)]
    <3>1. CASE cache'[i] = cache[i]
      BY <2>1, <3>1 DEF PagesInv, CachedPages
    <3>2. CASE cache'[i] # cache[i]
      <4>1. ~(Len(page) < CacheSize) /\ i = page[1].id /\ cache'[i] = page
        BY <1>1, <1>2, <3>2
      <4>2. Len(page) = CacheSize /\ page # <<>>
        <5>1. Assigned % CacheSize < CacheSize
          <6>1. Assigned \in Nat
            BY DEF Assigned, TypeOK, WriterType
          <6>2. QED
            BY <1>2, <6>1, DivMod
        <5>2. QED
          BY <1>2, <4>1, <5>1 DEF PagesInv, PagesFilled
      <4>3. Page(i) = wpage[w]
        BY <1>2, <4>1, <4>2 DEF PagesInv, FirstOfPage
      <4>4. QED
        BY <1>2, <4>1, <4>2, <4>3
    <3>3. QED
      BY <3>1, <3>2
  <2>2. QED
    BY <1>1, <2>1 DEF CachedPages, Page
<1>6. QED
  BY <1>3, <1>4, <1>5 DEF PagesInv

\* A file is written, or a writer is done, with the event's place kept.
LEMMA WritePages ==
  ASSUME TypeOK, PagesInv, NEW w \in Writers,
         WriteFile(w) \/ WriteFileRaises(w) \/ StoreCachePageRaises(w) \/ Enqueue(w)
  PROVE  PagesInv'
<1>1. /\ UNCHANGED <<cache, curId, pages, wev, wpage>>
      /\ \A v \in Writers : wpc'[v] # "idle" => wpc[v] # "idle"
      /\ \/ files' = files
         \/ wpc[w] # "idle" /\ wev[w] \in Event /\ files' = [files EXCEPT ![wev[w].id] = wev[w]]
  BY DEF WriteFile, WriteFileRaises, StoreCachePageRaises, Enqueue, storeVars, TypeOK,
         WriterType
<1>2. PagesFilled' /\ FirstOfPage' /\ CachedPages'
  BY <1>1 DEF PagesInv, PagesFilled, FirstOfPage, CachedPages, Assigned, Page, Slot
<1>3. \A f : Held(f)' <=> Held(f)
  BY <1>1 DEF Held, Page, Slot
<1>4. ASSUME NEW i \in Ids, files'[i] # NoEvent
      PROVE  files'[i].id = i /\ Held(files'[i])
  <2>1. CASE files'[i] = files[i]
    BY <1>4, <2>1 DEF PagesInv, AllHeld
  <2>2. CASE files'[i] # files[i]
    <3>1. i = wev[w].id /\ files'[i] = wev[w] /\ wpc[w] # "idle"
      BY <1>1, <2>2 DEF TypeOK, StoreType
    <3>2. QED
      BY <3>1 DEF PagesInv, AllHeld
  <2>3. QED
    BY <2>1, <2>2
<1>5. AllHeld'
  BY <1>1, <1>3, <1>4 DEF PagesInv, AllHeld, Held, Page, Slot
<1>6. QED
  BY <1>2, <1>5 DEF PagesInv

LEMMA PagesStep ==
  TypeOK /\ budget.badEvents <= MaxBadEvents /\ (Untroubled => PagesInv) /\ [Next]_vars
    => (budget.badEvents <= MaxBadEvents /\ (Untroubled => PagesInv))'
<1> SUFFICES ASSUME TypeOK, budget.badEvents <= MaxBadEvents, Untroubled => PagesInv, [Next]_vars
             PROVE  (budget.badEvents <= MaxBadEvents /\ (Untroubled => PagesInv))'
  OBVIOUS
<1>1. /\ budget \in [badEvents : Nat, badWrites : Nat, manage : Nat]
      /\ MaxBadEvents \in Nat /\ epoch \in Nat
  BY ConstantsOK DEF TypeOK, SessionType
<1>2. ASSUME NEW w \in Writers, AddEvent(w)
      PROVE  (budget.badEvents <= MaxBadEvents /\ (Untroubled => PagesInv))'
  <2>1. CASE AssignId(w)
    BY <1>2, <2>1, AssignPages DEF AssignId, Untroubled
  <2>2. CASE AssignIdRaises(w)
    BY <1>1, <2>2 DEF AssignIdRaises, Untroubled
  <2>3. CASE StoreCachePage(w)
    BY <2>3, StorePages DEF StoreCachePage, Untroubled
  <2>4. CASE WriteFile(w) \/ WriteFileRaises(w) \/ StoreCachePageRaises(w) \/ Enqueue(w)
    <3>1. epoch' = epoch /\ budget'.badEvents = budget.badEvents
      BY <1>1, <2>4 DEF WriteFile, WriteFileRaises, StoreCachePageRaises, Enqueue
    <3>2. QED
      BY <2>4, <3>1, WritePages DEF Untroubled
  <2>5. QED
    BY <1>2, <2>1, <2>2, <2>3, <2>4 DEF AddEvent
<1>3. CASE UNCHANGED <<storeVars, writerVars, epoch, budget.badEvents>>
  BY <1>3 DEF storeVars, writerVars, Untroubled, PagesInv, PagesFilled, AllHeld, Held,
     FirstOfPage, CachedPages, Assigned, Page, Slot
<1>4. CASE Crash
  BY <1>1, <1>4 DEF Crash, Untroubled
<1>5. CASE QueueThread \/ SeesShutdown \/ \E c \in Callbacks : RunCallback(c)
  <2>1. UNCHANGED <<storeVars, writerVars, epoch, budget>>
    BY <1>5 DEF QueueThread, CheckStopFlag, SeesShutdown, GetTimesOut, GetEvent,
           VisitKey, CheckCallback,
       Submit, SubmitRaises, RunCallback
  <2>2. QED
    BY <1>3, <2>1
<1>6. CASE SessionThread
  <2>1. UNCHANGED <<storeVars, writerVars, epoch, budget.badEvents>>
    BY <1>1, <1>6 DEF SessionThread, Subscribe, Unsubscribe, SubscribePool, ShutdownReturns,
       DeletePool, DeleteSubscriber, CloseStream, JoinReturns, CleanUpNext, DrainQueue
  <2>2. QED
    BY <1>3, <2>1
<1>7. QED
  BY <1>2, <1>3, <1>4, <1>5, <1>6 DEF Next, vars, storeVars, writerVars

\* As long as no event failed to convert and the process did not crash, reading
\* through the cache pages gives what the event files hold, whatever writes
\* failed and whoever stored which page when.
THEOREM CacheIsCoherent ==
  Spec => [](epoch = 0 /\ budget.badEvents = MaxBadEvents => CacheCoherent)
<1>1. Init => budget.badEvents <= MaxBadEvents /\ PagesInv
  <2> SUFFICES ASSUME Init PROVE budget.badEvents <= MaxBadEvents /\ PagesInv
    OBVIOUS
  <2>1. CacheSize \in Nat \ {0} /\ MaxBadEvents \in Nat
    BY ConstantsOK
  <2>2. 0 % CacheSize = 0 /\ 0 \div CacheSize = 0
    BY <2>1
  <2>3. /\ pages = << <<>> >> /\ Assigned = 0 /\ budget.badEvents = MaxBadEvents
        /\ \A i \in Ids : files[i] = NoEvent /\ cache[i] = <<>>
        /\ \A w \in Writers : wpc[w] = "idle"
    BY DEF Init, Assigned
  <2>4. QED
    BY <2>1, <2>2, <2>3 DEF PagesInv, PagesFilled, AllHeld, FirstOfPage, CachedPages, Page
<1>2. TypeOK /\ PagesInv => CacheCoherent
  <2> SUFFICES ASSUME TypeOK, PagesInv, NEW i \in Ids, files[i] # NoEvent
               PROVE  ReadEvent(i) = files[i]
    BY DEF CacheCoherent
  <2>1. CacheSize \in Nat \ {0} /\ i \in Nat
    BY ConstantsOK DEF Ids
  <2>2. PageStart(i) \in Ids /\ Page(PageStart(i)) = Page(i)
    <3>1. MaxId \in Nat /\ i <= MaxId - 1 /\ PageStart(i) \in 0 .. i
      <4>1. PageStart(i) \in 0 .. i
        BY <2>1, StartOfPage DEF PageStart
      <4>2. QED
        BY <2>1, <4>1, ConstantsOK DEF Ids
    <3>2. PageStart(i) \in Ids
      BY <2>1, <3>1 DEF Ids
    <3>3. QED
      BY <2>1, <3>2, StartOfPage DEF PageStart, Page
  <2>3. pages[Page(i)][Slot(i)] = files[i]
    BY DEF PagesInv, AllHeld, Held
  <2>4. cache[PageStart(i)] # <<>> => cache[PageStart(i)] = pages[Page(i)]
    BY <2>2 DEF PagesInv, CachedPages
  <2>5. QED
    BY <2>3, <2>4 DEF ReadEvent, Slot
<1>3. QED
  BY <1>1, <1>2, PagesStep, TypeCorrect, PTL DEF Spec, Untroubled

=============================================================================
