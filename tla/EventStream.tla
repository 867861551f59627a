---------------------------- MODULE EventStream ----------------------------
(***************************************************************************)
(* The event stream of one conversation: openhands/events/stream.py on top *)
(* of the event store of openhands/events/event_store.py.                  *)
(*                                                                         *)
(* Writers are the threads that call add_event.  Each takes an id under    *)
(* the lock and then, without it, writes the event file, maybe stores the  *)
(* cache page, and enqueues the event.  One queue thread hands the events  *)
(* to the thread pool of every subscribed callback; one session thread     *)
(* subscribes, unsubscribes and closes.  A crash loses everything but the  *)
(* files and the cache pages.                                              *)
(***************************************************************************)
EXTENDS Integers, Sequences, FiniteSets, FiniteSetsExt

CONSTANTS
  Writers,      \* threads that call add_event
  Keys,         \* subscriber ids; the queue thread visits them in this order
  CbIds,        \* callback ids, unique under one subscriber id
  InitialSubs,  \* the callbacks the process subscribes before the first event
  CacheSize,    \* EventStore.cache_size (25 in the code)
  MaxId,        \* bound: at most MaxId event ids are handed out
  MaxCrashes,   \* bound on restarts of the process
  MaxBadEvents, \* bound on events that fail to convert under the lock
  MaxBadWrites, \* bound on writes of an event file or a cache page that raise
  MaxManage     \* bound on calls of subscribe and unsubscribe

Callbacks == Keys \X CbIds
Ids == 0 .. MaxId - 1
Event == [id : Ids, epoch : 0 .. MaxCrashes, by : Writers]
NoEvent == [id |-> -1, epoch |-> -1, by |-> "none"]
Unset == -1
NoCallback == <<-1, "none">>

ASSUME ConstantsOK ==
  /\ Keys \subseteq Nat /\ IsFiniteSet(Keys)
  /\ InitialSubs \subseteq Callbacks
  /\ CacheSize \in Nat \ {0}
  /\ MaxId \in Nat /\ MaxCrashes \in Nat
  /\ MaxBadEvents \in Nat /\ MaxBadWrites \in Nat /\ MaxManage \in Nat

VARIABLES
  files,     \* the event files: [Ids -> Event or NoEvent]              (durable)
  cache,     \* the page stored as start-(start + CacheSize), or <<>>   (durable)
  curId,     \* _cur_id, Unset until it is first computed
  pages,     \* the write pages made so far; the last is _write_page_cache
  wpc,       \* where each writer is in add_event
  wev,       \* the event it is adding
  wpage,     \* current_write_page: the index in pages of its page
  queue,     \* _queue
  qpc,       \* where the queue thread is
  qev,       \* the event it is dispatching
  qkeys,     \* subscriber ids still to visit
  qids,      \* callbacks of the current subscriber id still to visit
  qcb,       \* the callback found subscribed
  stop,      \* _stop_flag
  skeys,     \* the subscriber ids in _subscribers; never removed
  subs,      \* the callbacks in _subscribers
  pool,      \* _thread_pools: none, open, or shut while shutdown() waits
  poolq,     \* the events submitted to each pool and not yet run
  seen,      \* history: the events each callback was run with, in order
  mpc,       \* where the session thread is
  mcb,       \* the callback it is subscribing or cleaning up
  mtodo,     \* callbacks close() still has to clean up
  epoch,     \* number of crashes so far
  budget     \* what is left of the bounds

storeVars  == <<files, cache>>
writerVars == <<curId, pages, wpc, wev, wpage>>
queueVars  == <<qpc, qev, qkeys, qids, qcb>>
subVars    == <<skeys, subs, pool>>
manageVars == <<mpc, mcb, mtodo, stop>>
vars == <<files, cache, curId, pages, wpc, wev, wpage, queue, qpc, qev, qkeys,
          qids, qcb, stop, skeys, subs, pool, poolq, seen, mpc, mcb, mtodo, epoch,
          budget>>

StoreType ==
  /\ files \in [Ids -> Event \cup {NoEvent}]
  /\ cache \in [Ids -> Seq(Event)]

WriterType ==
  /\ curId \in Nat \cup {Unset}
  /\ pages \in Seq(Seq(Event)) /\ pages # <<>>
  /\ wpc \in [Writers -> {"idle", "write", "page", "put"}]
  /\ wev \in [Writers -> Event \cup {NoEvent}]
  /\ wpage \in [Writers -> Nat]
  /\ \A w \in Writers : wpc[w] # "idle" => wev[w] \in Event
                                           /\ wpage[w] \in DOMAIN pages

QueueType ==
  /\ queue \in Seq(Event)
  /\ qpc \in {"loop", "get", "keys", "ids", "submit", "exited", "dead"}
  /\ qev \in Event \cup {NoEvent}
  /\ qpc \in {"keys", "ids", "submit"} => qev \in Event
  /\ qkeys \subseteq Keys /\ qids \subseteq Callbacks
  /\ qcb \in Callbacks \cup {NoCallback}
  /\ qpc = "submit" => qcb \in Callbacks

SubscriberType ==
  /\ skeys \subseteq Keys /\ subs \subseteq Callbacks
  /\ pool \in [Callbacks -> {"none", "open", "shut"}]
  /\ poolq \in [Callbacks -> Seq(Event)]
  /\ seen \in [Callbacks -> Seq(Event)]

SessionType ==
  /\ stop \in BOOLEAN
  /\ mpc \in {"idle", "subscribe", "shutdown", "delpool", "delsub", "join",
              "cleanup", "drain", "closed"}
  /\ mcb \in Callbacks \cup {NoCallback}
  /\ mpc \in {"subscribe", "shutdown", "delpool", "delsub"} => mcb \in Callbacks
  /\ mtodo \subseteq Callbacks
  /\ epoch \in 0 .. MaxCrashes
  /\ budget \in [badEvents : Nat, badWrites : Nat, manage : Nat]

TypeOK == StoreType /\ WriterType /\ QueueType /\ SubscriberType /\ SessionType

Init ==
  /\ files = [i \in Ids |-> NoEvent]
  /\ cache = [i \in Ids |-> <<>>]
  /\ curId = Unset
  /\ pages = << <<>> >>
  /\ wpc = [w \in Writers |-> "idle"]
  /\ wev = [w \in Writers |-> NoEvent]
  /\ wpage = [w \in Writers |-> 1]
  /\ queue = <<>>
  /\ qpc = "loop" /\ qev = NoEvent /\ qkeys = {} /\ qids = {} /\ qcb = NoCallback
  /\ stop = FALSE
  /\ skeys = {c[1] : c \in InitialSubs}
  /\ subs = InitialSubs
  /\ pool = [c \in Callbacks |-> IF c \in InitialSubs THEN "open" ELSE "none"]
  /\ poolq = [c \in Callbacks |-> <<>>]
  /\ seen = [c \in Callbacks |-> <<>>]
  /\ mpc = "idle" /\ mcb = NoCallback /\ mtodo = {}
  /\ epoch = 0
  /\ budget = [badEvents |-> MaxBadEvents, badWrites |-> MaxBadWrites,
               manage |-> MaxManage]

-----------------------------------------------------------------------------
(* The store: what cur_id starts from, and what a reader finds.            *)

Stored == {i \in Ids : files[i] # NoEvent}

\* Mutant: the next id is the number of files, gaps forgotten.
CountAsCurId == IF Stored = {} THEN 0 ELSE Cardinality(Stored)

CalculateCurId == IF Stored = {} THEN 0 ELSE Max(Stored) + 1

CurId == IF curId = Unset THEN CalculateCurId ELSE curId

PageStart(i) == i - (i % CacheSize)

\* search_events at one index: the aligned cache page if there is one, by
\* position in the page, and the event file otherwise.
ReadEvent(i) ==
  LET page == cache[PageStart(i)]
  IN  IF page # <<>> THEN page[(i % CacheSize) + 1] ELSE files[i]

-----------------------------------------------------------------------------
(* add_event.                                                              *)

\* Mutant: cur_id is not advanced.
SameCurId == CurId

NextCurId == CurId + 1

NewEvent(w) == [id |-> CurId, epoch |-> epoch, by |-> w]

\* The locked region: take the id, append to the write page, and start a new
\* page when this one is full.
AssignId(w) ==
  /\ wpc[w] = "idle"
  /\ CurId < MaxId
  /\ LET page == Append(pages[Len(pages)], NewEvent(w))
         filled == [pages EXCEPT ![Len(pages)] = page]
     IN  pages' = IF Len(page) = CacheSize THEN Append(filled, <<>>) ELSE filled
  /\ curId' = NextCurId
  /\ wev' = [wev EXCEPT ![w] = NewEvent(w)]
  /\ wpage' = [wpage EXCEPT ![w] = Len(pages)]
  /\ wpc' = [wpc EXCEPT ![w] = "write"]
  /\ UNCHANGED <<storeVars, queue, queueVars, manageVars, subVars, poolq, seen,
                 epoch, budget>>

\* event_to_dict or event_from_dict raises: cur_id has been advanced already.
AssignIdRaises(w) ==
  /\ wpc[w] = "idle"
  /\ CurId < MaxId
  /\ budget.badEvents > 0
  /\ budget' = [budget EXCEPT !.badEvents = @ - 1]
  /\ curId' = NextCurId
  /\ UNCHANGED <<storeVars, pages, wpc, wev, wpage, queue, queueVars, manageVars,
                 subVars, poolq, seen, epoch>>

WriteFile(w) ==
  /\ wpc[w] = "write"
  /\ files' = [files EXCEPT ![wev[w].id] = wev[w]]
  /\ wpc' = [wpc EXCEPT ![w] = "page"]
  /\ UNCHANGED <<cache, curId, pages, wev, wpage, queue, queueVars, manageVars,
                 subVars, poolq, seen, epoch, budget>>

\* Mutant: a failed write is logged and add_event goes on.
WriteFileSwallows(w) ==
  /\ wpc[w] = "write"
  /\ budget.badWrites > 0
  /\ budget' = [budget EXCEPT !.badWrites = @ - 1]
  /\ wpc' = [wpc EXCEPT ![w] = "page"]
  /\ UNCHANGED <<storeVars, curId, pages, wev, wpage, queue, queueVars,
                 manageVars, subVars, poolq, seen, epoch>>

\* file_store.write raises: the event stays in the write page.
WriteFileRaises(w) ==
  /\ wpc[w] = "write"
  /\ budget.badWrites > 0
  /\ budget' = [budget EXCEPT !.badWrites = @ - 1]
  /\ wpc' = [wpc EXCEPT ![w] = "idle"]
  /\ UNCHANGED <<storeVars, curId, pages, wev, wpage, queue, queueVars,
                 manageVars, subVars, poolq, seen, epoch>>

\* _store_cache_page: whoever finds its page full stores it.
StoreCachePage(w) ==
  /\ wpc[w] = "page"
  /\ LET page == pages[wpage[w]]
     IN  cache' = IF Len(page) < CacheSize THEN cache
                  ELSE [cache EXCEPT ![page[1].id] = page]
  /\ wpc' = [wpc EXCEPT ![w] = "put"]
  /\ UNCHANGED <<files, curId, pages, wev, wpage, queue, queueVars, manageVars,
                 subVars, poolq, seen, epoch, budget>>

\* The write of a full page raises: the event is in its file and never enqueued.
StoreCachePageRaises(w) ==
  /\ wpc[w] = "page" /\ Len(pages[wpage[w]]) >= CacheSize
  /\ budget.badWrites > 0
  /\ budget' = [budget EXCEPT !.badWrites = @ - 1]
  /\ wpc' = [wpc EXCEPT ![w] = "idle"]
  /\ UNCHANGED <<storeVars, curId, pages, wev, wpage, queue, queueVars,
                 manageVars, subVars, poolq, seen, epoch>>

\* Mutant: what is enqueued has no id yet.
EnqueueWithoutId(w) ==
  /\ wpc[w] = "put"
  /\ queue' = Append(queue, NoEvent)
  /\ wpc' = [wpc EXCEPT ![w] = "idle"]
  /\ UNCHANGED <<storeVars, curId, pages, wev, wpage, queueVars, manageVars,
                 subVars, poolq, seen, epoch, budget>>

\* Mutant: a stack instead of a queue.
EnqueueFirst(w) ==
  /\ wpc[w] = "put"
  /\ queue' = <<wev[w]>> \o queue
  /\ wpc' = [wpc EXCEPT ![w] = "idle"]
  /\ UNCHANGED <<storeVars, curId, pages, wev, wpage, queueVars, manageVars,
                 subVars, poolq, seen, epoch, budget>>

Enqueue(w) ==
  /\ wpc[w] = "put"
  /\ queue' = Append(queue, wev[w])
  /\ wpc' = [wpc EXCEPT ![w] = "idle"]
  /\ UNCHANGED <<storeVars, curId, pages, wev, wpage, queueVars, manageVars,
                 subVars, poolq, seen, epoch, budget>>

-----------------------------------------------------------------------------
(* The queue thread: _process_queue.                                       *)

\* Mutant: the loop does not look at the flag.
NeverCheckStopFlag ==
  /\ qpc = "loop"
  /\ qpc' = "get"
  /\ UNCHANGED <<storeVars, writerVars, queue, qev, qkeys, qids, qcb, manageVars,
                 subVars, poolq, seen, epoch, budget>>

CheckStopFlag ==
  /\ qpc = "loop"
  /\ qpc' = IF stop THEN "exited" ELSE "get"
  /\ UNCHANGED <<storeVars, writerVars, queue, qev, qkeys, qids, qcb, manageVars,
                 subVars, poolq, seen, epoch, budget>>

\* should_continue() is FALSE: a signal told the process to exit, at any time
\* before.  Nothing else of a stream looks at it.
SeesShutdown ==
  /\ qpc = "loop"
  /\ qpc' = "exited"
  /\ UNCHANGED <<storeVars, writerVars, queue, qev, qkeys, qids, qcb, manageVars,
                 subVars, poolq, seen, epoch, budget>>

\* get(timeout=0.1) on an empty queue: look at the flag again.
GetTimesOut ==
  /\ qpc = "get" /\ queue = <<>>
  /\ qpc' = "loop"
  /\ UNCHANGED <<storeVars, writerVars, queue, qev, qkeys, qids, qcb, manageVars,
                 subVars, poolq, seen, epoch, budget>>

\* The flag was read before get() returned, so one event may still be taken
\* after close() has set it.
GetEvent ==
  /\ qpc = "get" /\ queue # <<>>
  /\ qev' = Head(queue)
  /\ queue' = Tail(queue)
  /\ qkeys' = skeys
  /\ qpc' = "keys"
  /\ UNCHANGED <<storeVars, writerVars, qids, qcb, manageVars, subVars, poolq,
                 seen, epoch, budget>>

\* Mutant: only the first subscriber id is visited.
VisitFirstKeyOnly ==
  /\ qpc = "keys"
  /\ IF qkeys = {}
     THEN qpc' = "loop" /\ UNCHANGED <<qkeys, qids>>
     ELSE LET k == Min(qkeys)
          IN  /\ qkeys' = {}
              /\ qids' = {c \in subs : c[1] = k}
              /\ qpc' = "ids"
  /\ UNCHANGED <<storeVars, writerVars, queue, qev, qcb, manageVars, subVars,
                 poolq, seen, epoch, budget>>

\* Next subscriber id in sorted order: copy its callback ids.
VisitKey ==
  /\ qpc = "keys"
  /\ IF qkeys = {}
     THEN qpc' = "loop" /\ UNCHANGED <<qkeys, qids>>
     ELSE LET k == Min(qkeys)
          IN  /\ qkeys' = qkeys \ {k}
              /\ qids' = {c \in subs : c[1] = k}
              /\ qpc' = "ids"
  /\ UNCHANGED <<storeVars, writerVars, queue, qev, qcb, manageVars, subVars,
                 poolq, seen, epoch, budget>>

\* Skip a callback that has been removed since its id was copied.
CheckCallback ==
  /\ qpc = "ids"
  /\ \/ /\ qids = {}
        /\ qpc' = "keys" /\ UNCHANGED <<qids, qcb>>
     \/ \E c \in qids :
          /\ qids' = qids \ {c}
          /\ IF c \in subs THEN qcb' = c /\ qpc' = "submit"
                           ELSE UNCHANGED <<qcb, qpc>>
  /\ UNCHANGED <<storeVars, writerVars, queue, qev, qkeys, manageVars, subVars,
                 poolq, seen, epoch, budget>>

Submit ==
  /\ qpc = "submit"
  /\ qcb \in subs /\ pool[qcb] = "open"
  /\ poolq' = [poolq EXCEPT ![qcb] = Append(@, qev)]
  /\ qpc' = "ids"
  /\ UNCHANGED <<storeVars, writerVars, queue, qev, qkeys, qids, qcb, manageVars,
                 subVars, seen, epoch, budget>>

\* KeyError when the callback or its pool is not in the dictionaries,
\* RuntimeError when the pool is shut down: nothing catches either, and the
\* queue thread ends.
SubmitRaises ==
  /\ qpc = "submit"
  /\ ~(qcb \in subs /\ pool[qcb] = "open")
  /\ qpc' = "dead"
  /\ UNCHANGED <<storeVars, writerVars, queue, qev, qkeys, qids, qcb, manageVars,
                 subVars, poolq, seen, epoch, budget>>

\* The single worker of a callback's pool runs the next submitted event.
RunCallback(c) ==
  /\ poolq[c] # <<>>
  /\ seen' = [seen EXCEPT ![c] = Append(@, Head(poolq[c]))]
  /\ poolq' = [poolq EXCEPT ![c] = Tail(@)]
  /\ UNCHANGED <<storeVars, writerVars, queue, queueVars, manageVars, subVars,
                 epoch, budget>>

-----------------------------------------------------------------------------
(* The session thread: subscribe, unsubscribe, close.                      *)

\* subscribe: the callback is entered first ...
Subscribe(c) ==
  /\ mpc = "idle" /\ budget.manage > 0
  /\ c \notin subs
  /\ subs' = subs \cup {c} /\ skeys' = skeys \cup {c[1]}
  /\ mcb' = c /\ mpc' = "subscribe"
  /\ budget' = [budget EXCEPT !.manage = @ - 1]
  /\ UNCHANGED <<storeVars, writerVars, queue, queueVars, stop, mtodo, pool,
                 poolq, seen, epoch>>

\* ... and its pool one statement later.
SubscribePool ==
  /\ mpc = "subscribe"
  /\ pool' = [pool EXCEPT ![mcb] = "open"]
  /\ mpc' = "idle"
  /\ UNCHANGED <<storeVars, writerVars, queue, queueVars, stop, mcb, mtodo, skeys,
                 subs, poolq, seen, epoch, budget>>

Unsubscribe(c) ==
  /\ mpc = "idle" /\ budget.manage > 0
  /\ c \in subs
  /\ mcb' = c /\ mpc' = "shutdown"
  /\ pool' = [pool EXCEPT ![c] = "shut"]
  /\ budget' = [budget EXCEPT !.manage = @ - 1]
  /\ UNCHANGED <<storeVars, writerVars, queue, queueVars, stop, mtodo, skeys,
                 subs, poolq, seen, epoch>>

\* Mutant: shutdown(wait=False).
ShutdownDoesNotWait ==
  /\ mpc = "shutdown"
  /\ mpc' = "delpool"
  /\ UNCHANGED <<storeVars, writerVars, queue, queueVars, stop, mcb, mtodo,
                 subVars, poolq, seen, epoch, budget>>

\* _clean_up_subscriber: shutdown() returns when the pool has run everything
\* submitted; then the pool is deleted, then the subscriber entry.
ShutdownReturns ==
  /\ mpc = "shutdown" /\ poolq[mcb] = <<>>
  /\ mpc' = "delpool"
  /\ UNCHANGED <<storeVars, writerVars, queue, queueVars, stop, mcb, mtodo,
                 subVars, poolq, seen, epoch, budget>>

DeletePool ==
  /\ mpc = "delpool"
  /\ pool' = [pool EXCEPT ![mcb] = "none"]
  /\ mpc' = "delsub"
  /\ UNCHANGED <<storeVars, writerVars, queue, queueVars, stop, mcb, mtodo, skeys,
                 subs, poolq, seen, epoch, budget>>

DeleteSubscriber ==
  /\ mpc = "delsub"
  /\ subs' = subs \ {mcb}
  /\ mpc' = IF stop THEN "cleanup" ELSE "idle"
  /\ UNCHANGED <<storeVars, writerVars, queue, queueVars, stop, mcb, mtodo, skeys,
                 pool, poolq, seen, epoch, budget>>

CloseStream ==
  /\ mpc = "idle"
  /\ stop' = TRUE
  /\ mpc' = "join"
  /\ UNCHANGED <<storeVars, writerVars, queue, queueVars, mcb, mtodo, subVars,
                 poolq, seen, epoch, budget>>

\* join() returns once the queue thread has ended; snapshot the subscribers.
JoinReturns ==
  /\ mpc = "join" /\ qpc \in {"exited", "dead"}
  /\ mtodo' = subs
  /\ mpc' = "cleanup"
  /\ UNCHANGED <<storeVars, writerVars, queue, queueVars, stop, mcb, subVars,
                 poolq, seen, epoch, budget>>

CleanUpNext ==
  /\ mpc = "cleanup"
  /\ \/ /\ mtodo = {}
        /\ mpc' = "drain" /\ UNCHANGED <<mcb, mtodo, pool>>
     \/ \E c \in mtodo :
          /\ mtodo' = mtodo \ {c} /\ mcb' = c
          /\ pool' = [pool EXCEPT ![c] = "shut"]
          /\ mpc' = "shutdown"
  /\ UNCHANGED <<storeVars, writerVars, queue, queueVars, stop, skeys, subs, poolq,
                 seen, epoch, budget>>

DrainQueue ==
  /\ mpc = "drain"
  /\ IF queue # <<>> THEN queue' = Tail(queue) /\ UNCHANGED mpc
                     ELSE mpc' = "closed" /\ UNCHANGED queue
  /\ UNCHANGED <<storeVars, writerVars, queueVars, stop, mcb, mtodo, subVars,
                 poolq, seen, epoch, budget>>

-----------------------------------------------------------------------------
\* The process dies and a new one opens a stream on the same files.
Crash ==
  /\ epoch < MaxCrashes
  /\ epoch' = epoch + 1
  /\ curId' = Unset
  /\ pages' = << <<>> >>
  /\ wpc' = [w \in Writers |-> "idle"]
  /\ wev' = [w \in Writers |-> NoEvent]
  /\ wpage' = [w \in Writers |-> 1]
  /\ queue' = <<>>
  /\ qpc' = "loop" /\ qev' = NoEvent /\ qkeys' = {} /\ qids' = {}
  /\ qcb' = NoCallback
  /\ stop' = FALSE
  /\ skeys' = {c[1] : c \in InitialSubs}
  /\ subs' = InitialSubs
  /\ pool' = [c \in Callbacks |-> IF c \in InitialSubs THEN "open" ELSE "none"]
  /\ poolq' = [c \in Callbacks |-> <<>>]
  /\ mpc' = "idle" /\ mcb' = NoCallback /\ mtodo' = {}
  /\ UNCHANGED <<files, cache, seen, budget>>

AddEvent(w) ==
  \/ AssignId(w) \/ AssignIdRaises(w) \/ WriteFile(w) \/ WriteFileRaises(w)
  \/ StoreCachePage(w) \/ StoreCachePageRaises(w) \/ Enqueue(w)

QueueThread ==
  \/ CheckStopFlag \/ GetTimesOut \/ GetEvent \/ VisitKey \/ CheckCallback \/ Submit
  \/ SubmitRaises

SessionThread ==
  \/ \E c \in Callbacks : Subscribe(c) \/ Unsubscribe(c)
  \/ SubscribePool \/ ShutdownReturns \/ DeletePool \/ DeleteSubscriber
  \/ CloseStream \/ JoinReturns \/ CleanUpNext \/ DrainQueue

Next ==
  \/ \E w \in Writers : AddEvent(w)
  \/ QueueThread \/ SeesShutdown
  \/ \E c \in Callbacks : RunCallback(c)
  \/ SessionThread
  \/ Crash

Spec == Init /\ [][Next]_vars

\* A thread that can run eventually does; a writer that has taken an id
\* finishes add_event.  Nobody is obliged to call add_event, subscribe or
\* close, or to tell the process to exit.
FinishAdd(w) == WriteFile(w) \/ StoreCachePage(w) \/ Enqueue(w)
FinishManage ==
  \/ SubscribePool \/ ShutdownReturns \/ DeletePool \/ DeleteSubscriber
  \/ JoinReturns \/ CleanUpNext \/ DrainQueue

FairSpec ==
  /\ Spec
  /\ \A w \in Writers : WF_vars(FinishAdd(w))
  /\ WF_vars(QueueThread)
  /\ \A c \in Callbacks : WF_vars(RunCallback(c))
  /\ WF_vars(FinishManage)

-----------------------------------------------------------------------------
(* Properties.                                                             *)

\* An event file is never rewritten: ids that were handed out before a crash
\* are reused only when their file was never written (cur_id, add_event).
WriteOnce ==
  [][\A i \in Ids : files[i] # NoEvent => files'[i] = files[i]]_vars

\* The ids that writers hold and have not yet written are pairwise different,
\* free in the store and below cur_id, so no write can hit another event's file
\* (the lock in add_event, _calculate_cur_id after a crash).
FreshIds ==
  /\ \A i \in Ids : curId # Unset /\ files[i] # NoEvent => i < curId
  /\ \A w \in Writers : wpc[w] = "write" =>
       /\ curId # Unset /\ wev[w].id < curId
       /\ files[wev[w].id] = NoEvent
       /\ \A v \in Writers \ {w} : wpc[v] = "write" => wev[v].id # wev[w].id

Durable(e) == files[e.id] = e

\* What is queued, being dispatched, submitted to a pool or was seen by a
\* callback is in the event file of its id, also after a crash: add_event
\* enqueues only after the write.
EnqueuedIsDurable ==
  /\ \A w \in Writers : wpc[w] \in {"page", "put"} => Durable(wev[w])
  /\ \A k \in DOMAIN queue : Durable(queue[k])
  /\ qpc \in {"keys", "ids", "submit"} => Durable(qev)
  /\ \A c \in Callbacks :
       /\ \A k \in DOMAIN poolq[c] : Durable(poolq[c][k])
       /\ \A k \in DOMAIN seen[c] : Durable(seen[c][k])

\* Reading through the cache pages gives what the event files hold, as long as
\* no event fails to convert and the process does not crash (search_events,
\* _store_cache_page).
CacheCoherent ==
  \A i \in Ids : files[i] # NoEvent => ReadEvent(i) = files[i]

\* The stream implements the abstract log: write-once, at most once per
\* callback, and in order per writer, whatever threads and crashes do.
Log == INSTANCE EventLog WITH log <- files
RefinesLog == Log!Spec

\* When close() has returned no pool is left to run a callback.
ClosedIsQuiet ==
  mpc = "closed" =>
    \A c \in Callbacks : pool[c] = "none" /\ poolq[c] = <<>> /\ c \notin subs

\* An enqueued event reaches every callback subscribed from the start, unless
\* it is unsubscribed, the stream is being closed, the process is told to exit
\* or the queue thread has died (_process_queue).
EveryEventDelivered ==
  \A i \in Ids : \A c \in InitialSubs :
    (\E k \in DOMAIN queue : queue[k].id = i)
      ~> \/ \E k \in DOMAIN seen[c] : seen[c][k].id = i
         \/ stop \/ qpc \in {"exited", "dead"} \/ c \notin subs

\* close() returns: the queue thread ends, dead or stopped, and every pool
\* drains.
CloseReturns == (mpc = "join") ~> (mpc = "closed")
=============================================================================
