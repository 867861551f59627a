# TLA+ models of the Atoms Plus / OpenHands server

This directory models the part of the repository in which an agent's work is
carried from event to event: the event stream that stores and distributes
events, the controller that turns them into calls of the LLM and actions, the
session that starts and closes both, the context that is made of the history
for each call, the manager that keeps the sessions of one server and the one
that shares them among several, the service that runs agent servers as
processes, and the team mode, a graph of roles that works on a task behind a
WebSocket of its own. The models are written from the source (line numbers below are of
files under `src/`), checked by TLC on small instances, and in part proved by
TLAPS for every value of their constants.

- `tlc -config <run>.cfg <module>` repeats a run; `PROJECT.json` lists the runs,
  the mutants each property is tried against, the source lines of every
  definition, the hazards and the findings.
- `tlapm <module>Proofs.tla` repeats the proofs about a module: `EventStream`,
  `AgentController`, `AgentSession`, `AgentContext`, `AgentLoops`, `ClusterLoops`,
  `SandboxPool`, `TeamSession`.

## 1. The system

The server is one Python process. HTTP and socket handlers are coroutines of
one event loop, the *main loop*; an event stream has a queue thread and, for
each subscribed callback, a pool of one thread.

```
 browser -- socket --> listen_socket --> conversation manager (loops, connections)
                                            |  start, stop, evict, clean up
                                            v
                                     Session / AgentSession   start, close
                                            |  makes
              +-----------------------------+-----------------------------+
              v                             v                             v
        AgentController  <--events-->  EventStream  <--events-->  Runtime, Memory
              |                             |
              v                             v
           agent.step (LLM)          event files, cache pages

 browser -- WebSocket --> stream_session (team mode) --> graph of roles --> checkpoints
```

Components meet in four ways: by *events* (added to the stream and handed to
the subscribers by its threads), by *calls* (the manager starts and closes the
session, which makes and closes controller, runtime and stream), by *callbacks*
(status messages of controller, runtime and memory go to the session, which may
set the agent's state), and through *shared tables* (loops and connections of
the manager; `_subscribers` and `_thread_pools` of the stream).

### Components, state, operations

| component | state | operations | hard behaviour | what makes it correct |
|---|---|---|---|---|
| Event stream, event store (`openhands/events`) | event files, cache pages, `_cur_id`, write page, queue, subscribers, pools | `add_event`, `subscribe`, `unsubscribe`, `close`, `search_events` | any thread adds; the file write is outside the lock; a crash between two writes; callbacks removed under dispatch | files are written once, ids fresh after a crash, nobody sees an event that is not stored, pages agree with files, delivery, close ends |
| Agent controller, state tracker, control flags (`openhands/controller`) | agent state, pending action, iteration flag, history | `on_event`, `set_agent_state_to`, `_step`, `_reset`, status callback | four threads; the LLM call blocks while others change the state; late and repeated answers | nothing unconfirmed runs, limits hold, the agent does not wait for ever |
| Agent session (`server/session/agent_session.py`) | `_starting`, `_closed`, runtime, controller, stream | `start`, `close`, `get_state` | close in the middle of start; start failing anywhere | what was made is released; no work after a close |
| Web session (`server/session/session.py`) | publish queue, agent session | `dispatch`, status messages, `close` | a status error that is out of date | as the controller |
| Standalone conversation manager (`server/conversation_manager`) | loops, connections, attached conversations | join, disconnect, start, close, clean up, attach, detach | the awaits between a check and its use; closes that meet; cancellation | one session per conversation, closed once, never found while it closes; the limit |
| Socket and HTTP routes (`server/listen_socket.py`, `server/routes`) | none | connect, replay of events, user actions | events emitted between the replay and entering the room | a client sees every event |
| Runtime (`openhands/runtime`) | the action under way | run an action, answer it | failures that only send a status message | an action is answered or the agent is told |
| Memory, condensers, messages (`openhands/memory`, `agenthub/codeact_agent`) | the history of events; what is left of a response | recall; view of the history; condense; messages for the model | the recall a step waits for; events that are forgotten while their answers are due | every recall is answered or the agent is told; the model is shown each call with its result, and keeps its task |
| Stuck detector, replay (`controller/stuck.py`, `replay.py`) | none | patterns over the history | | what counts as a loop |
| LLM access (`openhands/llm`) | metrics, attempts | completion with retries | which exception leaves the last attempt | the listener hears of every retry |
| Other agents (`openhands/agenthub`) | queue of parsed actions | `step` | | |
| Team mode (`atoms_plus/team_mode`) | session records, the table of sessions, the mark of an execution, the graph's state and checkpoints | connect, run, ask, answer, watch, leave, recover | connections that come and go while the graph runs or waits; two recoveries of one session; failing LLM calls | one execution at a time, a run ends, reviews are bounded, nobody waits for an answer that cannot be used |
| Race mode, deep research (`atoms_plus`) | results per model, search steps | run, gather, score | one of several failing | the others' results survive |
| Sandbox processes of the V1 server (`app_server/sandbox/process_sandbox_service.py`) | processes, ports, the warm pool, its lock, what is in flight | start, warm up, replenish, pause, delete | ports reserved over awaits; processes that die; a lock held over requests; two ways into the pool | no port has two owners, none is lost, the pool keeps its size, starts end |
| V1 conversation service (`openhands/app_server`) | database rows, start tasks | start, list, callbacks | rows read, changed and saved without a transaction | no change is lost |
| Clustered manager (`enterprise/server/clustered_conversation_manager.py`) | keys in Redis that expire, loops and connections of each server | claim, update, publish, close, clean up, rescue | servers that crash; messages that get lost; keys that expire while work goes on | one owner, which the others can see; clients get a loop again |
| Nested managers (Docker, SaaS) | containers | proxy | | |
| Storage, configuration, integrations, security, enterprise, frontend, containers | — | I/O, data, UI | | |

`PROJECT.json` lists them all with what is modelled of each and why the rest is not.

## 2. The modules

| module | what it is |
|---|---|
| `EventStream` | the event stream and store of one conversation, thread by thread, with crashes |
| `EventLog` | what a stream promises: the abstract log that `EventStream` implements |
| `AgentController` | one controller with runtime, memory, status messages and clients |
| `AgentSession` | start and close of one session, await by await |
| `AgentContext` | what the model is shown of a conversation: history, view, condensers, messages |
| `AgentLoops` | the loops and connections of one standalone manager |
| `ClusterLoops` | one conversation on several servers that share a Redis |
| `SandboxPool` | the agent servers one application server runs, their ports and the warm pool |
| `TeamSession` | one team mode session: its graph, its WebSocket handlers, restarts and recovery |
| `TeamRun` | what a team mode session promises: the abstract run that `TeamSession` implements |
| `...Proofs` | theorems and their proofs, one module for each module above except `EventLog` and `TeamRun` |
| `MC...` | instances for TLC: sets of callbacks, states and responses, symmetry |

A module stands alone, with two exceptions: `EventStream` implements `EventLog` and
`TeamSession` implements `TeamRun`.
What one component asks of another is an action of the module that asks: the close of a
session is one step of `AgentLoops` and of `ClusterLoops` and the matter of
`AgentSession`; adding an event is one step of `AgentController` and the matter of
`EventStream`.

### EventStream (`openhands/events/stream.py`, `event_store.py`)

`add_event` is cut where another thread or a crash can come between: `AssignId`
is the region under the lock (id, write page, new page when full);
`WriteFile`, `StoreCachePage` and `Enqueue` are what follows it. Three failures
are actions of their own: the conversion that raises after `cur_id` has been
advanced, the file write that raises, and the write of a full page that raises, after which the
event is in its file and never enqueued. The write page is a Python list that
writers share: `pages` keeps each list made and `wpage` which one a writer has in
hand, so that a writer can find its page filled by another. The queue thread is
cut at every look at a shared dictionary (`CheckStopFlag` ... `Submit`), with
the exceptions nothing catches in `SubmitRaises`. A process that is told to exit ends the loop too (`SeesShutdown`): the signal may come at
any time and only this loop of a stream looks at it, so that it sees it is a choice and needs no
variable. The session thread is cut likewise
(`Subscribe`, then `SubscribePool`; `ShutdownReturns`, `DeletePool`,
`DeleteSubscriber`). Contents of events, filters and secrets are data and are
left out: an event is its id, the writer and the life of the process it was added
in. `seen` is a history variable: what each callback was run with. `Crash` keeps
files and pages and forgets the rest.

`EventLog` has two actions: a free place of the log is filled, and a callback is
run with an event that is in the log and is not older than one of the same writer
it has seen. `RefinesLog` says the stream implements it (`log` is `files`). Order
between writers is not promised, for the code does not keep it.

### AgentController (`agent_controller.py`, `state_tracker.py`, `control_flags.py`, `runtime/base.py`, `memory.py`, `session.py`)

A handler is written as a function from a working copy of the controller and its
inboxes to another, in the order of the code (`SetAgentState`, `Reset`,
`HandleObservation`, ...); an action applies the handler of one event.
`thread` is where the controller's thread is, for the main loop sets the state to
ERROR when a status message says so (`StatusError`), with no lock, and does it in
between: after an event is handled (`OnEvent`) and before the step; while
`agent.step` waits for the LLM, from `Step` to `StepReturns`, which has every kind of result (an
action to run with or without confirmation, an action that is answered at once, a
message, the end, a condensation, a malformed call, an exception); and after an action was made
pending and before `add_event` gives it an id (`recall`, `reissue`, `ask`, `add`).
`_reset` itself adds an event before it clears the pending action; `clearing` is
that moment, in which the controller's thread goes on. Given up before it has an id, an action is posted and run
all the same, or, when it was to be added again after a confirmation, the handler dies of
an exception (`add_event(None)`). The inboxes hold what each subscriber reacts
to. An action is its LLM call, its id and its state of confirmation. The variables
`asked`, `approved`, `late`, `abandoned`, `unnamed`, `awaited`, `calls` and `executed`
are history: no guard reads them.

### AgentSession (`agent_session.py`)

`spc` is the await in which `start` is suspended; an action takes it to the next,
and `StartRaises` leaves any of them through the `finally` block (not the set-up,
whose tasks catch their errors). `close` sleeps and wakes (`Wake`) with the
condition as the code has it. Time is counted in intervals of 5 seconds: `Tick`
moves it and never past a sleeper that should wake. The runtime and the
controller are nothing, open, or released; `ReleaseRaises` is the close that an
exception of the stream, the saved state or the controller ends before the runtime's turn.

### AgentLoops (`standalone_conversation_manager.py`)

A task is a request or one close of the cleanup; its record holds the await it is
in and what it took with it: the conversation it will start, the ones to evict, the
connections still to disconnect, the session it took out of the table. `Proceed`
is what a task does when a close has returned: begin to evict the next, make the
session, or end. `GiveUp` is an await that raises, which ends a start or a close where it
is, and `wait_all` cancelling a close of the cleanup.
Which conversations are oldest, or idle, is read from metadata and is any choice.

### TeamSession (`atoms_plus/team_mode/api.py`, `graph.py`, `router.py`, `nodes`)

`pc` is the await in which a connection's handler is: `starting` (checkpointer
and graph are being made), `running` (`astream` works on the next node), `chunk`
(a node is done and its thought goes out), `waiting` (its questions are with the
client), `ending`, `failing` and `hungup` (the error of the run, or of the wait for its
client, is noted and goes out; `Report`); `helper` is a connection that came while the session waits and
`observer` one that came while another executes. From the look at the table to
the mark of an execution there is no await, so `Connect` is one step. `sess`
holds every record made, because a handler keeps the record it took when
another request replaces it in the table.

The graph is run by LangGraph, which is external and modelled from its use: one
node at a time from the entry, the edges of `graph.py` (`Following`), and
checkpoints at any time (`Checkpoint`). Of the state only what routes the graph is
kept: whether the task is unclear, whether there is code, the verdict of the review
and the count. `Outcomes` includes the calls of the LLM that fail and leave all as
it was. A client that goes (`left`) is noticed when something is sent to it or
awaited from it; a send may then raise or not. `run.reviews` is history.

`TeamRun` forgets who watches, the records and their table, the checkpoints and the
nodes: there is nobody, or one connection (`Owner`) whose run works or asks, has asked
or not and has made so many reviews, and a session that says that it awaits input or
does not (`Question`, which holds if any record says so: a record that was replaced
in the table is still its handler's).

### AgentContext (`view.py`, the condensers of `session.py`, `conversation_memory.py`, `codeact_agent.py`)

The history grows as the controller lets it: messages of the user with the recall they
bring about, responses of the model with one or two tool calls or the call that finishes,
their results in any order, a context window that is exceeded, a stop with the
answer `_reset` makes up. The result of a call may be a page of the browser. `View` is
`View.from_events`; `Window`, `Masked` and `Summarized` are the three condensers of the pipeline
that a session configures by default (`session.py:247-256`), in its order: `CondenseWindow`
condenses if a request is unhandled; otherwise `Masked` replaces all pages but the last
`AttentionWindow` by placeholders without id (`Condensed`), and `Summarize` condenses what is too
long of that. With nothing but placeholders to summarize, `min` of no ids raises: no step of
`Summarize`, and the error stops the agent (`Stop`). `Prompt` is `process_events`: a loop over the
masked view that keeps the tool calls that wait and the results that came, then
the filter of calls and results without a partner. An event is its kind, id, response
and place in the response; a message is its role and what it is made of.
Texts, images, caching marks and the condensers that are not in that pipeline are left out.

### ClusterLoops (`clustered_conversation_manager.py`)

A server does several things at once (`Task`): a client joins, the listener reads
messages, the loop of a stopped server is started here, idle loops are closed, a
request to close is served. Each is cut at its commands to Redis and its
awaits; what it found before an await is kept (`found`, `beat`). `Execute` is the
pipeline of an update, which may run after others were served (`Collect`,
`ExecuteLater`). `Publish` may lose a message for any server, `Crash` forgets what a server had and
leaves its keys, which expire (`Tick`); so does a start that raises (`StartRaises`). A task that
closes a session awaits it after the keys are gone (`SessionClosed`): the listener, which
awaits it inline, reads nothing meanwhile, however long it takes. The time to live is counted in ticks of the
length of the interval between two updates. There is one conversation of one user:
keys of several do not interact, except at the limit, which is a choice (`TooMany`).

### SandboxPool (`process_sandbox_service.py`)

The tasks are requests, the one of `warm_pool` and those of `_replenish_pool`. An
action takes a task from one await to the next: the look into the pool under the
lock, the ports and the process, the second after which it is looked at, the answer of the server or the
time-out, the pool again. `asyncio.Lock` is first come, first served: `waiting` is
its queue, and a task that asks goes behind it even if the lock is free. Each way a start
can fail is an alternative of its action, with what the code gives back, and so is a
`delete_sandbox` that raises because the process outlives its kill (`Forget`).
`displaced` observes sandboxes whose id a second start took, for these keep
their ports.

## 3. The runs

Runs that pass:

| run | instance | shows |
|---|---|---|
| `stream_crash` | 2 writers, 1 callback, 3 ids, pages of 2, 1 crash, 1 bad event, 1 bad write of a file or a page | `FreshIds`, `EnqueuedIsDurable`, `WriteOnce`, `RefinesLog` hold across a crash at any point |
| `stream_live` | 2 writers, 2 subscriber ids of which the second is subscribed from the start, 3 ids, 1 bad write, 1 call of subscribe or unsubscribe, close, exit of the process | `CacheCoherent`, `ClosedIsQuiet`; with fair threads `CloseReturns` and `EveryEventDelivered` |
| `controller_all` | limit 2, confirmation mode, headless, 2 intents, 2 client events of six kinds | `OnlyConfirmedRuns`, `OneOutstanding`, `CallsBounded`; with fair threads `MessageIsStepped`, `PendingIsAnswered` |
| `session_close` | the code's 18 intervals | `PatientCloseReleases`, `NoWorkAfterClose`; with time passing `CloseFollowsStart` |
| `context_all` | `keep_first` 2, `max_size` 8, `attention_window` 1, four shapes of response, 16 events, 2 messages, 2 exceeded windows, 1 stop | `PromptWellFormed`, `EssentialsStay`, `CondensationHalves` |
| `loops_contended` | 3 conversations, 2 connections, 2 requests, 1 cleanup task, limit 1, 4 sessions | `RegisteredIsOpen`, `ClosedByOne`, `LimitPassedByRace` |
| `cluster_all` | 2 servers, keys of 3 ticks, an update at least every second tick, 2 connections, 1 crash, close, idle loop, start that raises or update in two halves | `OneOwner`, `OwnerIsVisible`; with fair servers `ClientsServed` |
| `pool_all` | 2 requests, one id of their own, 2 replenishments, a pool of 2, 4 ports of which a sandbox takes 2, 3 processes that die, hang or outlive their kill | `PortsPartitioned`, `PoolWithinSize`; with fair tasks `StartsEnd` |
| `team_runs` | 3 connections, 2 requests to recover, 1 restart, at most 2 reviews, a bound conversation | `OneExecution`, `AwaitingIsHeld`, `RefinesRun`; with fair handlers `RunEnds` |

Every passing run except `stream_live` also checks the `TypeOK` of its module
(`stream_crash` does it for the stream).

Runs that end in a violation, each of a statement that the repository itself makes:

| run | statement | what the code does |
|---|---|---|
| `session_patience` | "Waited too long for initialization to finish before closing session" (`agent_session.py:265`) | the comparison is inverted: close gives up at the first wake-up |
| `loops_second` | "Start an event loop if one is not already running" (`conversation_manager.py:116`) | two requests at the limit make two sessions of one conversation |
| `pool_refill` | "Replenish the warm pool after a sandbox was taken" (`process_sandbox_service.py:739`) | a finished sandbox is in the pool and still in flight until its task gets the lock again; a replenishment that waits for the lock counts it twice and returns, and nothing starts another |

Deadlock is not checked: a stream that was closed, a controller without events,
a server without requests and a history at its bound do stop.

### Bounds, and why they are enough

- Stream: a page is shared by two writers, is full after two events and followed
  by a begun one; one crash separates two lives, and the second uses the first's
  ids. Three ids give a full page, a begun page, a gap and a reuse. A second
  callback under another subscriber id tests the queue thread's two loops.
- Controller: two calls of the LLM are enough for an answer to arrive at another
  action than its own; with two client events one decides about an action and one starts or stops
  the agent, and status errors come without them. A message of the user that is followed by a
  resumption and a confirmation is out of reach of the run, and is covered by the proofs. The limit is reached within these bounds, and the second
  repetition of an intent triggers the hint that takes three in the code.
- Session: the bound is the code's. Time stops counting one interval past the
  wait, from where the comparison cannot change any more.
- Loops: at limit 1 every start evicts; with three conversations and two requests
  one may evict what another starts and the cleanup may close what either
  evicts. Four sessions allow a conversation to come back. Clients, requests and
  conversations are interchangeable, so `loops_contended` uses their symmetry;
  the run has no temporal property.
- Context: `max_size` 8 and `keep_first` 2 are the smallest with a middle of more than
  one event; 16 events hold two condensations of either kind, in either order. `attention_window`
  1 is the least that shows a page (session.py has 2), so that two pages are enough for a
  placeholder at either end of what is summarized. The second message
  of the user tells the first from the last. `SizesOK` asks for a `max_size` whose half exceeds
  `keep_first` by two, one more than the code does (section 5).
- Cluster: two servers are enough for a claim against a claim and a claim against
  a crash. A key lives one tick longer than an update may be late and the start of a loop may
  take together, the least that `TimesOK` allows. One trouble
  meets whatever the other server does; the second connection comes before or after it.
- Pool: in a pool of two the first sandbox is taken, and its replacement started, while the
  warm-up still makes the second. The third process finds no ports unless another has given its
  own back, and one request takes an id that exists. A request comes while there is a filler
  for each that runs, so that the number of fillers holds nobody up. `pool_refill` needs a
  third filler, and no failure.
- Team: one connection asks, a second answers or watches, a third comes after
  both; two recoveries meet in one read of the checkpoint, and a restart is what
  makes them possible. With two reviews the loop is taken, is refused, and a run
  can start from the state of an earlier one at any count. A connection comes once,
  in the order of its number: which of them comes first does not matter.

### Fairness

- `EventStream!FairSpec`: a started thread runs on. A writer that has its id ends
  `add_event`, the queue thread and pools take what is there, a begun subscribe,
  unsubscribe or close goes on. Nobody is obliged to call any of them. Weak
  fairness is enough, for nothing disables these steps but themselves.
- `AgentController!FairSpec`: each thread takes its next event and goes on with it (`Controller`,
  the main loop's `StatusError` and `ResetEnds`); `agent.step`
  returns, for its retries are limited; an action ends, for it has a timeout.
  Clients owe nothing: nobody must confirm or reject.
- `AgentSession!FairSpec`: time passes and the event loop resumes a sleeper. No
  await of `start` is obliged to end, for the runtime may never connect; hence
  `CloseFollowsStart` begins where start is over.
- `TeamSession!FairSpec`: a handler that works goes on (`Work`), because a node
  ends when its call of the LLM does: the nodes set no timeout, the client
  library's default ends it. Clients owe nothing:
  nobody must answer, which is why `RunEnds` accepts a run that ends in its questions.
- `SandboxPool!FairSpec`: tasks are resumed, and what they await comes, an answer or
  its time-out; the first that waits for a free lock gets it; `warm_pool` goes on to
  its next iteration. No process is obliged to die or to live, nobody to start or delete.
- `ClusterLoops!FairSpec`: time passes, and a server that runs goes on: the listener
  reads, updates are made, an orphaned client is found, tasks go to their next
  await; that the close of a session ends is what `AgentSession` shows of it. Nobody is obliged to join, leave, stop, crash or restart; no loop is obliged
  to be idle; that there are too many loops is nobody's duty either.
- `AgentContext` needs none: its properties are about each step and each prompt.
- `AgentLoops` has no liveness property: closing waits for disconnections and
  sessions that promise nothing, and the cleanup cancels.

## 4. What is proved

`EventStreamProofs` (constants: any set of writers, finite set of subscriber ids,
any page size, any bounds; assumption `ConstantsOK`):

- `TypeCorrect`: `Spec => []TypeOK`. The type invariant is inductive as it is;
  it includes the facts on program counters that later steps need (a thread in the
  middle of a dispatch has an event in hand).
- `IdsAreFresh`: `Spec => []FreshIds`. Inductive together with the types: an id is
  taken under the lock, above every file (`MaxOfFinite`, `CurIdBounds` say what
  `_calculate_cur_id` gives after a crash), and stays free until its own writer
  fills it.
- `FilesAreWriteOnce`: `Spec => WriteOnce`, from the freshness of the writer's id.
- `HandedOutIsDurable`: `Spec => []EnqueuedIsDurable`, from write-once
  (`DurableKept`) and the order of write and enqueue.
- `StreamIsLog`: `Spec => RefinesLog`, the refinement. A write of a file fills a free
  place of the log (`IdsAreFresh`); running a callback delivers an event that is in
  the log (`HandedOutIsDurable`) and comes after those of its writer that the
  callback saw; every other step stutters (`StepOfLog`). The last needs `InOrder`,
  which follows an event all its way: the events one writer adds are in order, by
  crash and id, along what a callback saw, its pool, the event in dispatch while it
  is still due to the callback, the queue, and what is being added (`QueueInOrder`,
  `WayInOrder`). Two facts make it inductive. Everything on the way lies below the
  next id of its process life (`Past`), so a new event comes after all of them. And
  the queue thread visits a callback once for each event (`VisitsOnce`), so what was
  just submitted is no longer due. Each step that moves an event has a lemma
  (`AssignOrder`, `EnqueueOrder`, `GetOrder`, `SubmitOrder`, `RunOrder`).
- `ClosedStaysQuiet` (`Spec => []ClosedIsQuiet`). What close has cleaned up stays so
  only because nothing reappears behind it, which is what `QuietInv` says: pools
  belong to subscribers, a pool that is gone has nothing to run, cleanup takes the
  subscribers it has not reached yet in their order, and none is forgotten.
- `CacheIsCoherent`: `CacheCoherent` holds in every life of the process that did
  not crash and met no bad event. Each writer's events have their place in
  its shared page by id (`FirstOfPage`), every place below the last id of a page is
  filled (`PagesFilled`), so that the page a writer stores is a whole one
  (`CachedPages`). The two conditions are those under which the code keeps ids and
  pages together; what happens without them is in section 5.

`AgentSessionProofs` (any `Wait`; assumption `WaitOK`):

- `TypeCorrect`, `PatientCloseIsComplete` (`Spec => []PatientCloseReleases`),
  `NoLateWork` (`Spec => NoWorkAfterClose`).
- `PatientCloseReleases` is not inductive: after a close, `start` could make
  another runtime. The invariant `IInv` says why it does not: `_starting` is true
  exactly while `start` is in one of its awaits, `_closed` exactly from the first step
  of close, and nothing exists before start begins. The property itself says that a
  close that did not give up ended with `_starting` false, whether it returned or raised;
  from then on `start` is over or refuses to begin.
  `NoLateWork` follows from the one action that writes `initial` and reads
  `_closed`.

`TeamSessionProofs` (any number of connections, any set of requests, any number
of restarts; assumptions `IterationsOK`, the range the request model allows, and
`TeamOK`):

- `TypeCorrect`; `OneExecutionAlways` (`Spec => []OneExecution`), by induction: the
  mark is taken when nobody executes, and whoever returns was the only one
  (`ReturnsFrees`).
- `QuestionsAreHeld` (`Spec => []AwaitingIsHeld`). It needs `OneExecution`: while a
  handler works nobody waits, so no record can say so (`WorkingAwaitsNothing`), and
  the handler that stops waiting was the only one (`StatusAwaitsNothing`).
- `ReviewsAreBounded` (`Spec => []ReviewsBounded`). The bound is not inductive:
  `ReviewsInv` adds that the reviews of a run are among those its state counts, that
  the nodes before the engineer have made none, and that engineer and review are
  entered with none made or with the count below the limit. A run that starts
  beyond the limit thus makes one.
- `SessionIsRun` (`Spec => RefinesRun`), step by step: a handler that works goes on
  unseen (`WorkGoesOn`), a return or a send that raises ends the run (`RunFinishes`), what
  others do is unseen (`OthersGoOn`). It needs all of the above: who the owner is
  rests on `OneExecution`, that no question stands before and after a run on
  `AwaitingIsHeld`, that `Review` stays below the limit on `ReviewsInv`. `AsksInv`
  is its own: a run that was resumed is past the node that asks, and a connection
  without a run has an empty one, so that a run starts unasked and asks once. The one
  step of another connection that is seen is its answer to the waiting session
  (`Noted`): the record says `ready_to_resume` and the run waits on.

`AgentControllerProofs` (any limit, modes, number of intents, states the clients ask
for and number of their events; the five assumptions of the module):

- `TypeCorrect`; `ConfirmedBeforeRun` (`Spec => []OnlyConfirmedRuns`),
  `HeldIsAccounted` (`Spec => []OneOutstanding`), `HeadlessEnds`
  (`Spec => []CallsBounded`).
- Handlers are functions from working copy to working copy, so the invariant is a
  predicate `Good` of a working copy, and there is one lemma for each helper: it
  takes a good copy to a good copy. An action is then a chain of such lemmas
  (`Ends` turns a good copy that is posted into `IInv'`).
- `Good` says: no id is given twice (`Numbered`); what the runtime holds to run is
  pending or given up, by its id or before it had one, and what an observation on its way answers is not
  held any longer, or was given up (`Outstanding`); what may run was not put to the
  user, or was confirmed (`Confirms`); the flag counts the calls and, headless, its limit
  never grows (`Limited`); only the action that the thread is about to add is pending without
  an id (`Adding`). `OnlyConfirmedRuns` alone is not inductive: an
  action the runtime still has in its queue could become asked for later. It
  cannot, because a call is put to the user when it returns, and nothing of
  a later call is in the queue (`Known`).

`AgentLoopsProofs` (any conversations, connections, requests, cleanup tasks, limits):

- `TypeCorrect`, `FoundIsOpen` (`Spec => []RegisteredIsOpen`), `ClosedOnce`
  (`Spec => []ClosedByOne`). The invariant adds that the session a task closes is
  not open, so that it cannot be found again, and that two tasks that close hold different
  ones: who takes a session out of the table marks it, and it was open.
- `LimitIsPassedByOneEach` (`Spec => []LimitPassedByRace`): the limit on running loops
  is passed by one for each request that races, and by no more. `Spare` is the count
  that is inductive: for every set of starts under way, the loops that these will not
  close, with the starts, are at most the limit and one less than the requests.
  It rests on the finiteness of the set of requests (`TasksOK`).

`ClusterLoopsProofs` (any servers and bounds; assumptions `TimesOK`, `BoundsOK`):

- `TypeCorrect`, `OneOwnerAlways` (`Spec => []OneOwner`), `OwnerAlwaysVisible`
  (`Spec => []OwnerIsVisible`).
- That one server at most owns the conversation rests on the key: it is claimed
  when there is none. `OneHolder` therefore counts whoever has the key as its own: a loop,
  one that is being started, and one that has left the table and not yet
  deleted its key. `HolderHasKey` says the key is there as long; `StartIsFresh` and `LoopIsFresh`
  say how much of its time may have passed, and are the only part
  that needs `TimesOK` and the guard of `Tick`. They cover the update whose first half was made
  before the loop was registered and which therefore does not renew the key.

`SandboxPoolProofs` (any requests, pool tasks, ports and sizes; assumptions
`TasksOK`, `SizesOK`, `PortsOK`, `RandomOK`):

- `TypeCorrect`, `PortsHaveOneOwner` (`Spec => []PortsPartitioned`), `PoolBounded`
  (`Spec => []PoolWithinSize`).
- A sandbox is in one task's hands or in one place (`HandsApart`, `PlacesApart`),
  so that giving its ports back takes none of another's. The bound of the pool
  needs a second count: the tasks between the increment of what is in flight and
  its decrement are never more than it says.

`AgentContextProofs` (any responses, sizes, attention window and bounds; assumptions `SizesOK`,
`AttentionOK`, `ShapesOK`, `BoundsOK`):

- `TypeCorrect`, `PromptsPair` (`Spec => []PromptWellFormed`), `FilterIsIdle`,
  `EssentialsAreShown` (`Spec => []EssentialsStay`, for `keep_first` of two or more),
  `HalfIsLeft` (`Spec => CondensationHalves`).
- The properties are about what loops over the history compute. `Only` (the
  elements of a sequence at some places, the code's list comprehensions) and `Processed` (the
  loop of `process_events`) are therefore recursive functions on places. `Recursion`
  gives such a function its equations, from the library's theorem on natural numbers with the
  step as a function; `Induct` is induction over places for a set of numbers. Neither needs
  a theorem with an operator parameter.
- `Only` lists its places in order (`OnlyPlaces`, `Lists`), and all that follows about views
  is arithmetic on such lists: which events are kept (`KeptIs`), where the
  summary stands (`ViewIs`), what masking changes (`MaskedIs`), what the middle of the view is with
  and without an earlier summary (`MiddleIs`), which of its events a summary names (`NamedIs`), that
  the range of ids from the first to the last of them forgets what is kept between them and nothing
  else (`ListRange`, `SummedIs`), how many placeholders it does not reach (`BeyondIs`), and what is
  left (`ListWithout`, `SummaryHalves`): half of `max_size` and those placeholders.
- A sequence of messages is `Sound` if calls and results are paired and no message has to go.
  Sound conversations can be put one after the other (`SoundConcat`); an event adds its own message
  and whole exchanges (`EventIsProcessed`), so whatever is left of a history gives
  a sound prompt (`PromptIsSound`), and the filter after it leaves it as it is
  (`SoundIsMatched`). The last fact is `FilterIsIdle`: the filter guards against
  nothing that `process_events` lets through.
- That the essentials stay needs the past: the invariant `IInv` says that the history
  starts with the instructions and goes on with the user's first message, that the agent does
  not run before, and, if `keep_first` is at least two, that no condensation named
  either. `WindowSpares` and `SummarySpares` show that the next one will not. The
  hypothesis is the code's: `session.py:253` has `keep_first=4`. With
  `keep_first=1`, the default of the configuration, a summary may forget the first message, and
  another of the user's may then stand in its place.

Only model-checked: every liveness property (fairness and ENABLED are outside the
prover).

## 5. Observed, and not a run of its own

Event stream and session:

- A writer stores the shared cache page when it is full, also if it holds an event of
  another writer whose file is not written yet (`stream.py:201`, "Store the cache page last"). After a
  crash at that point the id is used again and reads find the stale event of the page.
- `unsubscribe` deletes the pool before the entry (`stream.py:147`), and `subscribe`
  makes the entry before the pool: a dispatch between the two raises in
  the queue thread (`stream.py:268`), which ends. `SubmitRaises` models it; `EveryEventDelivered` speaks of
  the stream whose queue thread lives.
- With a bad event (`MaxBadEvents = 1`) the page that lacks its id is read by
  position, and `search_events` returns later events for the following ids:
  `CacheCoherent` then fails without a crash.
- An event whose file was never written, for the write raised, is read from its page once another
  writer has filled and stored that: a reader finds an event that no callback was ever run with.
- A close that is still waiting after 90 seconds does not give up: the same
  inverted condition as in `session_patience`.
- `AgentSession.close` marks the session closed first (`agent_session.py:257`) and
  releases the runtime last (line 273). When the state cannot be saved (line 270) or the
  controller not be closed, the exception skips the runtime, and the next close
  returns at once (`ReleaseRaises`).

Controller:

- An action that `agent.step` returns after a status error becomes pending in
  ERROR and is sent to the runtime, although the pending action is reset "when
  the agent is STOPPED or ERROR" (`agent_controller.py:725`).
- An error status between `_pending_action = action` (`agent_controller.py:1085`) and the
  `add_event` of line 1098 gives up an action that has no id yet: it is posted and run, nothing
  is pending, and in confirmation mode the state may be AWAITING_USER_CONFIRMATION with no action
  to confirm.
- The hint the controller adds under source USER (`agent_controller.py:650`) raises the limit of
  an agent in ERROR as a user's message does ("User is allowing to check control
  limits", line 752); headless, nothing raises it.
- USER_CONFIRMED names no action (line 756): a confirmation that is repeated confirms the next.
- A resume button sets RUNNING and triggers no step (line 417).
- The text "has not been executed" that `_reset` adds is also added for an action
  the runtime has begun.
- `retry_attempt` is put on an exception only before a sleep, so the last one has none (line 367); the
  string compared with a delegate's `last_error` (line 476) is never its value.

Context:

- The results of a response with two calls of which one was never executed (a
  `finish` after a call, or a stop between them) are left out of the prompt with the
  response: it waits for all its results. The branch of the filter that keeps "an updated
  message if there are tool calls left" is reached by no history of `AgentContext`.
- `LLMSummarizingCondenser` accepts a `max_size` whose half is `keep_first + 1`: the
  tail is then `view[keep_first:-0]`, which is empty, and `min` of nothing raises.
- A summary does not always leave half of `max_size`. The placeholders of masked pages are
  of the class of summaries, which `llm_summarizing_condenser.py:67-69` does not count; those before
  the first or after the last event it does count are outside the range of forgotten ids and stay in
  the view, now and at every later summary (`CondensationHalves`, `Beyond`). In a
  very long conversation with many pages they could fill the view up to `max_size`: the step after
  a summary would then find only them to summarize, and `min` of nothing raises. Within
  the bounds of `context_all` the next step always asks the model.
- `BrowserOutputCondenser` returns a view without `forgotten_event_ids` (line 40), so
  that the test of `conversation_memory.py:867`, which keeps a forgotten first message from being put back,
  never succeeds in the default pipeline. With `keep_first=4` it does not have to.
- A window condensation that forgets nothing is still an answer: the next call exceeds
  the window again, and so on until the iteration limit.

Managers:

- A client that joins while a close disconnects the others
  (`standalone_conversation_manager.py:584`) stays connected to nothing.
- A cancelled close of the cleanup leaves a session outside of every table (line 224).
- A conversation is joined again while its previous session still closes (line 364): for a
  while two controllers write to one directory of events.
- Clustered: a conversation that its user stops is started again where another client of it is
  connected: the request to close is ignored by servers without the loop, and what the
  server that closes it then announces, `session_closing`, makes them start
  one (`clustered_conversation_manager.py:159`, 176, 381).
- Clustered: an LLM completion is published under `message` (line 351) and read under `data` (line 183); a
  deletion of keys is not awaited and never happens (line 647); the listener
  handles a close inline, which may hold up what follows by 90 seconds; the eviction at the limit counts the
  key of the conversation that is being started.
- What a joining client is sent first is read from the store, and live events reach it after it
  entered the room (`listen_socket.py:103`): an event in between is not sent to it.

Team mode:

- After the engineer failed the review finds no code, plans instead, and the run
  hands off; nothing reads `error` on the way. What is streamed after a resumption
  is not stored in the session (`api.py:612`). A session that is completed starts
  over when a client connects again, and hands off a second time.
- The answer of a second connection is acknowledged and stored (`api.py:386`) for "the original
  connection or a new stream call"; neither reads it, the next stream call begins
  at the entry and asks again.

V1 server:

- `on_conversation_update` and others read a row, change it and save it without a lock or
  transaction: of two that meet, one change is lost. The rows are not modelled.

## 6. Not modelled, and why

- *Planned below*: delegation, the budget flag, loop recovery and the controller's
  close; attached conversations; the browser's publish queue; retries of the LLM; stuck patterns.
- *Alternatives of what is modelled*: the condensers outside the default pipeline, graphs without
  clarification, the nested managers (an HTTP proxy to a container per conversation),
  the Docker and remote sandbox services.
- *Left out of a model that exists*: the completions by message, the limit as a number and
  the graceful shutdown of the clustered manager. Its times are
  assumptions (`TimesOK`, the guard of `Tick`): a server that stands still for longer than its
  keys live loses its conversation to another, and the model does not say what then happens. The same holds of a start that outlasts its claim: at the limit
  `_start_agent_loop` closes an older session first, which may take up to 90 seconds while the key lives
  for 15 (`clustered_conversation_manager.py:400`); the eviction is therefore no step of `Register`, and
  its end in time is assumed.
- *I/O and data*: containers, bash sessions, HTTP clients, databases, prompts,
  parsing, the frontend and the enterprise server's accounts have little state of
  their own that a model could add to. They are most of the repository's lines,
  which is why the modelled share of it is small.

## 7. Plan

What is left, in this order:

1. `ConversationServer`: `AgentLoops` composed with sessions and their streams, for
   the session that closes while its conversation is joined again, and the ids the
   two streams hand out.
2. `ClientReplay` (`listen_socket.py:103`): replay from the store and live events into
   a room, against "a client sees every event once".
3. `AttachedConversations`: attach and detach under the lock, and the loop that
   disconnects stale ones.
4. `Delegation`, `LLMRetry`, `StuckDetector`: small modules, the last a pure function
   checked against a reference definition.
