---------------------------- MODULE AgentSession ----------------------------
(***************************************************************************)
(* The start and the close of one agent session:                           *)
(* openhands/server/session/agent_session.py.                              *)
(*                                                                         *)
(* start and close are coroutines of one event loop: they interleave at    *)
(* their awaits, and what lies between two awaits is one step.  spc names  *)
(* the await start is suspended in.  Time is counted in units of           *)
(* WAIT_TIME_BEFORE_CLOSE_INTERVAL since start began.                      *)
(***************************************************************************)
EXTENDS Integers

CONSTANT
  Wait         \* WAIT_TIME_BEFORE_CLOSE, in intervals (90 s / 5 s = 18)

ASSUME WaitOK == Wait \in Nat \ {0}

VARIABLES
  spc,         \* where start is
  cpc,         \* where close is
  starting,    \* _starting
  closed,      \* _closed
  connected,   \* runtime_connected
  runtime,     \* self.runtime: none, open, or its close submitted
  controller,  \* self.controller: none, live or closed
  streamOpen,  \* the event stream has not been closed
  initial,     \* the initial events were added
  age,         \* intervals since _started_at, up to Wait + 1
  nap,         \* what is left of the sleep of close
  gaveUp,      \* history: close stopped waiting while start was under way
  running      \* should_continue(): the process is not shutting down

vars == <<spc, cpc, starting, closed, connected, runtime, controller,
          streamOpen, initial, age, nap, gaveUp, running>>
session == <<closed, cpc, nap, gaveUp, streamOpen>>

Awaits == {"provider", "connect", "clone", "setup", "secrets", "memory", "mcp"}

Init ==
  /\ spc = "none" /\ cpc = "none"
  /\ starting = FALSE /\ closed = FALSE /\ connected = FALSE
  /\ runtime = "none" /\ controller = "none" /\ streamOpen = TRUE
  /\ initial = FALSE
  /\ age = Wait + 1       \* _started_at is 0 until start begins
  /\ nap = 0 /\ gaveUp = FALSE /\ running = TRUE

----------------------------------------------------------------------------
(* start *)

\* Up to the first await; a RemoteRuntime is constructed without one.
Start ==
  /\ spc = "none"
  /\ \/ closed /\ spc' = "refused" /\ UNCHANGED <<starting, age, runtime>>
     \/ /\ ~closed /\ starting' = TRUE /\ age' = 0
        /\ \/ spc' = "connect" /\ runtime' = "open"
           \/ spc' = "provider" /\ UNCHANGED runtime
  /\ UNCHANGED <<session, connected, controller, initial, running>>

\* An exception leaves start through its finally block.
StartRaises ==
  /\ spc \in Awaits \ {"setup"}
  /\ spc' = "failed" /\ starting' = FALSE
  /\ UNCHANGED <<session, connected, runtime, controller, initial, age, running>>

ConstructRuntime ==
  /\ spc = "provider" /\ spc' = "connect" /\ runtime' = "open"
  /\ UNCHANGED <<session, starting, connected, controller, initial, age, running>>

\* git_provider_tokens may be given or not
AfterRuntime == {"secrets", "memory"}

\* connect() returns, or raises AgentRuntimeUnavailableError: not connected.
Connected ==
  /\ spc = "connect" /\ spc' = "clone"
  /\ UNCHANGED <<session, starting, connected, runtime, controller, initial, age, running>>
Unavailable ==
  /\ spc = "connect" /\ spc' \in AfterRuntime
  /\ UNCHANGED <<session, starting, connected, runtime, controller, initial, age, running>>

Cloned ==
  /\ spc = "clone" /\ spc' = "setup"
  /\ UNCHANGED <<session, starting, connected, runtime, controller, initial, age, running>>

\* The set-up tasks may fail; create_runtime returns True all the same.
SetUp ==
  /\ spc = "setup" /\ spc' \in AfterRuntime /\ connected' = TRUE
  /\ UNCHANGED <<session, starting, runtime, controller, initial, age, running>>

SecretsSet ==
  /\ spc = "secrets" /\ spc' = "memory"
  /\ UNCHANGED <<session, starting, connected, runtime, controller, initial, age, running>>

\* Mutant: the events are added whether or not the session was closed.
AddsInitialAlways == TRUE
AddsInitial == ~closed

\* From the last await to the end: the controller, the initial events, finally.
\* An event that cannot be written raises, in the controller's constructor
\* (then there is none) or after it.
Finish ==
  /\ starting' = FALSE
  /\ \/ /\ spc' = "started" /\ controller' = "live"
        /\ initial' = AddsInitial
     \/ /\ spc' = "failed" /\ controller' \in {controller, "live"}
        /\ UNCHANGED initial
  /\ UNCHANGED <<session, connected, runtime, age, running>>

MemoryCreated ==
  /\ spc = "memory"
  /\ \/ Finish
     \/ /\ connected /\ spc' = "mcp"   \* agent.config.enable_mcp
        /\ UNCHANGED <<session, starting, connected, runtime, controller,
                       initial, age, running>>

ToolsAdded == spc = "mcp" /\ Finish

----------------------------------------------------------------------------
(* close *)

\* Mutant: close does not wait for start.
NeverWaits == FALSE
\* Mutant: close waits for more than start.
AlwaysWaits == running
MustWait == starting /\ running

\* What follows the waiting, up to the await in controller.close(), which does
\* not suspend: the stream, the controller, the runtime.
\* Mutant: the runtime is closed only when there is a controller.
ReleasedWithController ==
  IF runtime = "open" /\ controller # "none" THEN "released" ELSE runtime
Released == IF runtime = "open" THEN "released" ELSE runtime
ReleaseAll ==
  /\ cpc' = "done"
  /\ streamOpen' = FALSE
  /\ controller' = IF controller = "live" THEN "closed" ELSE controller
  /\ runtime' = Released

\* The stream cannot be cleaned up, the state cannot be saved, or the controller
\* cannot be closed: the exception leaves close, and _closed makes the next one
\* return at once.
ReleaseRaises ==
  /\ cpc' = "raised" /\ streamOpen' = FALSE
  /\ UNCHANGED <<controller, runtime>>

Release == ReleaseAll \/ ReleaseRaises

\* Mutant: close sleeps two intervals at a time.
TwoIntervals == 2
Nap == 1

Close ==
  /\ cpc = "none" /\ closed' = TRUE
  /\ IF MustWait
     THEN cpc' = "sleep" /\ nap' = Nap /\ UNCHANGED <<streamOpen, controller, runtime>>
     ELSE Release /\ UNCHANGED nap
  /\ UNCHANGED <<spc, starting, connected, initial, age, gaveUp, running>>

GivesUp == age <= Wait

Wake ==
  /\ cpc = "sleep" /\ nap = 0
  /\ IF GivesUp
     THEN Release /\ gaveUp' = starting /\ UNCHANGED nap
     ELSE /\ UNCHANGED gaveUp
          /\ IF MustWait
             THEN nap' = Nap /\ UNCHANGED <<cpc, streamOpen, controller, runtime>>
             ELSE Release /\ UNCHANGED nap
  /\ UNCHANGED <<spc, starting, closed, connected, initial, age, running>>

----------------------------------------------------------------------------
\* An interval passes; the sleeper of close gets no more than one ahead.
Tick ==
  /\ age <= Wait \/ nap > 0
  /\ cpc = "sleep" => nap > 0
  /\ age' = IF age <= Wait THEN age + 1 ELSE age
  /\ nap' = 0
  /\ UNCHANGED <<spc, cpc, starting, closed, connected, runtime, controller,
                 streamOpen, initial, gaveUp, running>>

ShutDown ==
  /\ running /\ running' = FALSE
  /\ UNCHANGED <<spc, cpc, starting, closed, connected, runtime, controller,
                 streamOpen, initial, age, nap, gaveUp>>

StartNext ==
  \/ StartRaises \/ ConstructRuntime \/ Connected \/ Unavailable \/ Cloned
  \/ SetUp \/ SecretsSet \/ MemoryCreated \/ ToolsAdded
Next == Start \/ StartNext \/ Close \/ Wake \/ Tick \/ ShutDown

Spec == Init /\ [][Next]_vars

\* The event loop resumes what can go on, and time passes.  Nothing obliges a
\* runtime to connect: start may stay in an await for ever.
FairSpec == Spec /\ WF_vars(Wake) /\ WF_vars(Tick)

----------------------------------------------------------------------------
(* Properties.                                                             *)

Places ==
  /\ spc \in Awaits \cup {"none", "refused", "failed", "started"}
  /\ cpc \in {"none", "sleep", "done", "raised"}
  /\ runtime \in {"none", "open", "released"}
  /\ controller \in {"none", "live", "closed"}
Flags ==
  /\ starting \in BOOLEAN /\ closed \in BOOLEAN /\ connected \in BOOLEAN
  /\ streamOpen \in BOOLEAN /\ initial \in BOOLEAN
  /\ gaveUp \in BOOLEAN /\ running \in BOOLEAN
Times == age \in 0 .. Wait + 1 /\ nap \in 0 .. 1

\* The variables keep their types; time stops counting past the bound.
TypeOK == Places /\ Flags /\ Times

\* A close that had the patience to see start end, or came outside of it, is the
\* last word, however it ends: start makes nothing after it.  When it returns it
\* leaves nothing behind, no runtime, no controller, whatever start raised; when it
\* raises it leaves what there is for good (agent_session.py 253-274, 233-234).
PatientCloseReleases ==
  cpc \in {"done", "raised"} /\ running /\ ~gaveUp =>
    /\ ~starting /\ ~streamOpen
    /\ cpc = "done" => runtime # "open" /\ controller # "live"

\* The agent gets its first events from start or not at all once close has
\* begun: a session closed during its start does no work (agent_session.py 220).
NoWorkAfterClose == [][closed => initial' = initial]_vars

\* Once start is over, close goes on to its end, also when it had been waiting
\* for longer than the bound (agent_session.py 258-267).
CloseFollowsStart == cpc = "sleep" /\ ~starting ~> cpc \in {"done", "raised"}

\* Stated by the message "Waited too long for initialization to finish before
\* closing session" (agent_session.py 265): close gives up no earlier than
\* WAIT_TIME_BEFORE_CLOSE after start began.
GivesUpOnlyAfterWait == [][gaveUp' /\ ~gaveUp => age > Wait]_vars
============================================================================
