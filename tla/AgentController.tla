-------------------------- MODULE AgentController --------------------------
(***************************************************************************)
(* One agent controller with the runtime and the memory it talks to over   *)
(* the event stream: openhands/controller/agent_controller.py, the         *)
(* action side of openhands/runtime/base.py and openhands/memory/memory.py,*)
(* and the status messages of openhands/server/session/session.py.         *)
(*                                                                         *)
(* Four threads: the controller's, the runtime's and the memory's stream   *)
(* callback threads, and the server's main loop, which sets the state to   *)
(* ERROR when a status message says so, without a lock.  It runs while     *)
(* agent.step waits for the LLM, between an event's handling and the step, *)
(* and between _pending_action = action and the add_event that gives the   *)
(* action its id; _reset itself adds an event before it clears the pending *)
(* action, and the controller's thread runs in between.                    *)
(*                                                                         *)
(* Adding an event and putting it on its subscribers' queues is one step   *)
(* (module EventStream has the steps inside).  A queue holds only the      *)
(* events its subscriber reacts to: the AgentStateChangedObservation at    *)
(* the end of set_agent_state_to reaches nobody here.  Ids are counted for *)
(* the actions that get an answer; id 0 went to the first event of all,    *)
(* the system message or the user's first.                                 *)
(***************************************************************************)
EXTENDS Integers, Sequences, FiniteSets

CONSTANTS
  IterationDelta,    \* iteration_delta: LLM calls allowed, and each raise
  Confirmation,      \* confirmation_mode
  Headless,          \* headless_mode
  IntentRetries,     \* _max_action_intent_retries (3 in the code)
  UserStates,        \* the states a client asks for by ChangeAgentStateAction
  MaxUser            \* bound on events the clients add

ASSUME IterationsOK == IterationDelta \in Nat
ASSUME IntentsOK == IntentRetries \in Nat \ {0}
ASSUME ModesOK == Confirmation \in BOOLEAN /\ Headless \in BOOLEAN
ASSUME MaxUserOK == MaxUser \in Nat

Running == "running"
AwaitingInput == "awaiting_user_input"
AwaitingConfirmation == "awaiting_user_confirmation"
Confirmed == "user_confirmed"
Rejected == "user_rejected"
Error == "error"
Stopped == "stopped"
AgentStates == {Running, AwaitingInput, AwaitingConfirmation, Confirmed,
                Rejected, Error, Stopped, "loading", "paused", "finished",
                "rejected", "rate_limited"}

ASSUME UserStatesOK == UserStates \subseteq AgentStates

NoId == -1
\* confirmation_state: CONFIRMED is also the default of an action no one need
\* confirm; the model tells the two apart as "none" and "confirmed"
ConfStates == {"none", "awaiting", "confirmed", "rejected"}
\* An action that waits for an observation.  act is the LLM call it comes
\* from, which stands for its tool_call_metadata; a RecallAction has none (0).
Act(kind, act, conf) == [kind |-> kind, id |-> NoId, act |-> act, conf |-> conf]
NoAction == Act("none", 0, "none")
Obs(kind, act, cause) == [kind |-> kind, act |-> act, cause |-> cause]

Thread(at, action) == [at |-> at, action |-> action]
Idle == Thread("idle", NoAction)

VARIABLES
  ctl,      \* the controller: state, _pending_action, iteration flag, ...
  thread,   \* where the controller's thread is, and the action it is adding
  clearing, \* the main loop's _reset has still to clear the pending action
  calls,    \* history: calls of agent.step so far
  inbox,    \* the queues of the controller, the runtime and the memory
  nextId,   \* the event stream's cur_id, as far as the model counts it
  busy,     \* the action the runtime is running
  errs,     \* error status messages the main loop has still to handle
  users,    \* events added by clients
  executed  \* history: LLM calls whose action was run

vars == <<ctl, thread, clearing, calls, inbox, nextId, busy, errs, users, executed>>

----------------------------------------------------------------------------
(* A handler changes the controller and adds events: it maps a working     *)
(* copy of both to another.                                                *)

Now == [c |-> ctl, inbox |-> inbox, next |-> nextId, thread |-> thread]
At(w, at) == [w EXCEPT !.thread = Thread(at, NoAction)]
AddTo(w, s, e) == [w EXCEPT !.inbox[s] = Append(@, e)]

\* An action is made pending; it has no id before add_event gives it one.
SetPending(w, at, p) == [w EXCEPT !.c.pending = p, !.thread = Thread(at, p)]

\* Mutant: a copy of the action gets the id.
AddCopy(w, s, at) ==
  [AddTo(w, s, [w.thread.action EXCEPT !.id = w.next])
     EXCEPT !.next = @ + 1, !.thread = Thread(at, NoAction)]
\* add_event gives the action its id, pending as it is or given up meanwhile.
AddAction(w, s, at) ==
  LET p == [w.thread.action EXCEPT !.id = w.next]
  IN [AddTo(w, s, p)
        EXCEPT !.c.pending = IF @ = NoAction THEN NoAction ELSE p,
               !.next = @ + 1, !.thread = Thread(at, NoAction)]

\* History: the pending action is given up before its observation.
MarkGivenUp(w) ==
  LET p == w.c.pending
  IN IF p = NoAction THEN w
     ELSE IF p.id = NoId THEN [w EXCEPT !.c.unnamed = @ \cup {p.act}]
     ELSE [w EXCEPT !.c.abandoned = @ \cup {p.id}]
GiveUp(w) == [MarkGivenUp(w) EXCEPT !.c.pending = NoAction]

\* _reset: the pending action is given up; the history is told that it was not
\* executed, unless it has an observation; then it is no longer pending.
BeginReset(w) ==
  LET p == w.c.pending
      v == MarkGivenUp(w)
  IN IF p = NoAction \/ p.act \in w.c.answered THEN v
     ELSE AddTo(v, "controller", Obs("observation", p.act, p.id))
Reset(w) == GiveUp(BeginReset(w))

\* Mutant: the limit grows in headless mode too.
IncreaseLimitAlways(w) ==
  IF w.c.hit THEN [w EXCEPT !.c.max = @ + IterationDelta, !.c.hit = FALSE] ELSE w
IncreaseLimit(w) ==
  IF ~Headless /\ w.c.hit
  THEN [w EXCEPT !.c.max = @ + IterationDelta, !.c.hit = FALSE]
  ELSE w

\* A confirmed or rejected action is made new: it will be added again.
Reissue(w, conf) ==
  SetPending(MarkGivenUp(w), "reissue", [w.c.pending EXCEPT !.conf = conf, !.id = NoId])

EnterState(w, new) == [w EXCEPT !.c.state = new, !.c.awaited = @ /\ new = Running]

SetAgentState(w, new) ==
  LET old == w.c.state
      w1 == EnterState(w, new)
      w2 == IF new \in {Stopped, Error} THEN Reset(w1) ELSE w1
      w3 == IF old = Error /\ new = Running THEN IncreaseLimit(w2) ELSE w2
      w4 == IF w3.c.pending = NoAction \/ new \notin {Confirmed, Rejected} THEN w3
            ELSE IF new = Confirmed
                 THEN Reissue([w3 EXCEPT !.c.approved = @ \cup {w3.c.pending.act}],
                              "confirmed")
                 ELSE Reissue(w3, "rejected")
  IN IF new = old THEN w ELSE w4

----------------------------------------------------------------------------
(* What the controller does with an event before it may step.              *)

HandleUserMessage(w) == SetPending(GiveUp(w), "recall", Act("recall", 0, "none"))

HandleAgentMessage(w, e) ==
  LET n == IF e.intent THEN w.c.intents + 1 ELSE 0
  IN IF n >= IntentRetries
     THEN [AddTo(w, "controller", [kind |-> "message"]) EXCEPT !.c.intents = 0]
     ELSE LET w1 == [w EXCEPT !.c.intents = n]
          IN IF e.intent THEN w1 ELSE SetAgentState(w1, AwaitingInput)

HandleAction(w, e) ==
  CASE e.kind = "message" -> HandleUserMessage(w)
    [] e.kind = "say"     -> HandleAgentMessage(w, e)
    [] e.kind = "change"  -> SetAgentState(w, e.state)
    [] e.kind = "finish"  -> SetAgentState(w, "finished")
    [] e.kind = "refuse"  -> SetAgentState(w, "rejected")
    [] e.kind = "condense" -> w

\* Mutant: any observation releases the pending action.
AnswersAny(w, e) == w.c.pending # NoAction
Answers(w, e) == w.c.pending # NoAction /\ w.c.pending.id = e.cause

HandleObservation(w, e) ==
  IF ~Answers(w, e) \/ w.c.state = AwaitingConfirmation THEN w
  ELSE LET w1 == [w EXCEPT !.c.pending = NoAction]
       IN CASE w.c.state = Confirmed -> SetAgentState(w1, Running)
            [] w.c.state = Rejected  -> SetAgentState(w1, AwaitingInput)
            [] OTHER -> w1

\* state.history keeps every observation but a NullObservation.
AddHistory(w, e) ==
  IF e.kind = "observation" THEN [w EXCEPT !.c.answered = @ \cup {e.act}] ELSE w

Handle(w, e) ==
  IF e.kind \in {"observation", "null"}
  THEN HandleObservation(AddHistory(w, e), e)
  ELSE HandleAction(w, e)

\* Mutant: a NullObservation never makes the agent step.
ShouldStepNoNull(w, e) ==
  \/ e.kind \in {"message", "condense", "observation"}
  \/ e.kind = "say" /\ w.c.state # AwaitingInput
ShouldStep(w, e) ==
  \/ e.kind \in {"message", "condense", "observation"}
  \/ e.kind = "say" /\ w.c.state # AwaitingInput
  \/ e.kind = "null" /\ e.cause > 0

MayStep == ctl.state = Running /\ ctl.pending = NoAction

LimitReached == ctl.iter >= ctl.max

----------------------------------------------------------------------------
Init ==
  /\ ctl = [state |-> "loading", pending |-> NoAction, iter |-> 0,
            max |-> IterationDelta, hit |-> FALSE, intents |-> 0,
            answered |-> {},
            awaited |-> FALSE,   \* history: a user message has had no step yet
            asked |-> {},        \* history: calls whose action is put to the user
            approved |-> {},     \* history: calls confirmed while pending
            late |-> {},         \* history: calls that ended in no running agent
            abandoned |-> {},    \* history: ids given up before their answer
            unnamed |-> {}]      \* history: calls given up before they had an id
  /\ thread = Idle /\ clearing = FALSE /\ calls = 0
  /\ inbox = [controller |-> <<>>, runtime |-> <<>>, memory |-> <<>>]
  /\ nextId = 1
  /\ busy = NoAction
  /\ errs = 0 /\ users = 0
  /\ executed = {}

Post(w) == ctl' = w.c /\ inbox' = w.inbox /\ nextId' = w.next /\ thread' = w.thread
Take(s) == [Now EXCEPT !.inbox[s] = Tail(@)]

\* _react_to_exception: the error goes to the status callback, which queues a
\* message for the main loop, and the state becomes ERROR at once.
React(w) == Post(SetAgentState(w, Error)) /\ errs' = errs + 1

\* on_event: the event is handled; it may then call for a step.
OnEvent ==
  /\ thread = Idle /\ inbox.controller # <<>>
  /\ LET e == Head(inbox.controller)
         w == Handle(Take("controller"), e)
     IN Post(IF w.thread = Idle /\ ShouldStep(w, e) THEN At(w, "step") ELSE w)
  /\ UNCHANGED <<clearing, calls, busy, errs, users, executed>>

\* The recall of a user message is added and the agent set running.
AddRecall ==
  /\ thread.at = "recall"
  /\ Post([SetAgentState(AddAction(Now, "memory", "step"), Running)
             EXCEPT !.c.awaited = TRUE])
  /\ UNCHANGED <<clearing, calls, busy, errs, users, executed>>

\* The confirmed or rejected action is added; given up meanwhile there is none,
\* and the handler ends in an exception.
AddReissued ==
  /\ thread.at = "reissue"
  /\ Post(IF ctl.pending = NoAction THEN At(Now, "idle")
          ELSE AddAction(Now, IF ctl.pending.kind = "recall" THEN "memory" ELSE "runtime",
                         "idle"))
  /\ UNCHANGED <<clearing, calls, busy, errs, users, executed>>

\* _step: when the agent is running with nothing pending, the control flags are
\* run and agent.step starts.
Step ==
  /\ thread.at = "step"
  /\ LET w == At(Now, "idle")
         flagged == [w EXCEPT !.c.hit = LimitReached]
     IN \/ ~MayStep /\ Post(w) /\ UNCHANGED <<calls, errs>>
        \/ MayStep /\ React(w) /\ UNCHANGED calls  \* the stuck detector finds a loop
        \/ MayStep /\ LimitReached /\ React(flagged) /\ UNCHANGED calls
        \/ /\ MayStep /\ ~LimitReached
           /\ Post([At(flagged, "llm") EXCEPT !.c.iter = @ + 1, !.c.awaited = FALSE])
           /\ calls' = calls + 1
           /\ UNCHANGED errs
  /\ UNCHANGED <<clearing, busy, users, executed>>

\* What agent.step returned is pending, and will be added.
Propose(conf) ==
  LET w == [Now EXCEPT !.c.late = IF ctl.state = Running THEN @ ELSE @ \cup {calls},
                       !.c.asked = IF conf = "awaiting" THEN @ \cup {calls} ELSE @]
  IN SetPending(w, IF conf = "awaiting" THEN "ask" ELSE "add", Act("run", calls, conf))

StepReturns ==
  /\ thread.at = "llm"
  /\ LET w == At(Now, "idle") IN
     \/ \E conf \in IF Confirmation THEN {"none", "awaiting"} ELSE {"none"} :
          Post(Propose(conf)) /\ UNCHANGED errs
     \/ \* AgentThinkAction, TaskTrackingAction: answered, not waited for
        /\ Post([AddTo(w, "runtime", [Act("think", calls, "none") EXCEPT !.id = nextId])
                   EXCEPT !.next = @ + 1])
        /\ UNCHANGED errs
     \/ \E intent \in BOOLEAN :
          /\ Post(AddTo(w, "controller", [kind |-> "say", intent |-> intent]))
          /\ UNCHANGED errs
     \/ \E kind \in {"finish", "refuse", "condense"} :
          Post(AddTo(w, "controller", [kind |-> kind])) /\ UNCHANGED errs
     \/ \* an action the LLM got wrong: ErrorObservation without a cause
        /\ Post(AddTo(w, "controller", Obs("observation", 0, NoId)))
        /\ UNCHANGED errs
     \/ Post(SetAgentState(w, "rate_limited")) /\ UNCHANGED errs
     \/ React(w)
  /\ UNCHANGED <<clearing, calls, busy, users, executed>>

\* The user is asked about the action before it is added.
Ask ==
  /\ thread.at = "ask"
  /\ Post([SetAgentState(Now, AwaitingConfirmation) EXCEPT !.thread.at = "add"])
  /\ UNCHANGED <<clearing, calls, busy, errs, users, executed>>

AddProposed ==
  /\ thread.at = "add"
  /\ Post(AddAction(Now, "runtime", "idle"))
  /\ UNCHANGED <<clearing, calls, busy, errs, users, executed>>

Controller ==
  OnEvent \/ AddRecall \/ AddReissued \/ Step \/ StepReturns \/ Ask \/ AddProposed

----------------------------------------------------------------------------
(* The other threads.                                                      *)

\* Mutant: the runtime runs what it is given.
RunsAll(e) == TRUE
Runs(e) == e.conf # "awaiting"

\* Runtime._handle_action up to the action's execution.
RuntimeTakes ==
  /\ busy = NoAction /\ inbox.runtime # <<>>
  /\ LET e == Head(inbox.runtime)
         observe == AddTo(Take("runtime"), "controller", Obs("observation", e.act, e.id))
     IN \/ /\ ~Runs(e)
           /\ Post(Take("runtime")) /\ UNCHANGED <<busy, executed>>
        \/ /\ Runs(e) /\ (e.kind = "think" \/ e.conf = "rejected")
           /\ Post(observe) /\ UNCHANGED <<busy, executed>>
        \/ /\ Runs(e) /\ e.kind = "run" /\ e.conf # "rejected"
           /\ Post(Take("runtime"))
           /\ busy' = e /\ executed' = executed \cup {e.act}
  /\ UNCHANGED <<clearing, calls, errs, users>>

\* The execution ends: an observation, or an exception that is only reported.
RuntimeEnds ==
  /\ busy # NoAction /\ busy' = NoAction
  /\ \/ /\ Post(AddTo(Now, "controller", Obs("observation", busy.act, busy.id)))
        /\ UNCHANGED errs
     \/ errs' = errs + 1 /\ UNCHANGED <<ctl, inbox, nextId, thread>>
  /\ UNCHANGED <<clearing, calls, users, executed>>

\* Memory._on_event: knowledge, nothing, or an exception that is only reported.
MemoryRecalls ==
  /\ inbox.memory # <<>>
  /\ LET w == Take("memory")
         e == Head(inbox.memory)
     IN \/ \E kind \in {"observation", "null"} :
             Post(AddTo(w, "controller", Obs(kind, 0, e.id))) /\ UNCHANGED errs
        \/ Post(w) /\ errs' = errs + 1
  /\ UNCHANGED <<clearing, calls, busy, users, executed>>

\* Mutant: the main loop does not wait for a message.
AnyTime == TRUE
StatusQueued == errs > 0

\* _send_status_message on the main loop, to the end of _reset's search for the
\* observation of the pending action, and the rest of _reset.
StatusError ==
  /\ StatusQueued /\ ~clearing /\ errs' = errs - 1
  /\ IF ctl.state = Error THEN Post(Now) /\ UNCHANGED clearing
     ELSE Post(BeginReset(EnterState(Now, Error))) /\ clearing' = TRUE
  /\ UNCHANGED <<calls, busy, users, executed>>
ResetEnds ==
  /\ clearing /\ clearing' = FALSE
  /\ Post(GiveUp(Now))
  /\ UNCHANGED <<calls, busy, errs, users, executed>>

\* dispatch: a client sends a message or asks for a state.
ClientSends ==
  /\ users < MaxUser /\ users' = users + 1
  /\ \/ Post(AddTo(Now, "controller", [kind |-> "message"]))
     \/ \E s \in UserStates :
          Post(AddTo(Now, "controller", [kind |-> "change", state |-> s]))
  /\ UNCHANGED <<clearing, calls, busy, errs, executed>>

Next ==
  \/ Controller
  \/ RuntimeTakes \/ RuntimeEnds \/ MemoryRecalls
  \/ StatusError \/ ResetEnds \/ ClientSends

Spec == Init /\ [][Next]_vars

\* Every thread goes on while it has something to do: agent.step returns (its
\* retries are limited), an action ends (it has a timeout).  Clients owe nothing.
FairSpec ==
  /\ Spec
  /\ WF_vars(Controller)
  /\ WF_vars(RuntimeTakes) /\ WF_vars(RuntimeEnds)
  /\ WF_vars(MemoryRecalls) /\ WF_vars(StatusError) /\ WF_vars(ResetEnds)

----------------------------------------------------------------------------
(* Properties.                                                             *)

Pending == [kind : {"none", "run", "recall"}, id : Nat \cup {NoId}, act : Nat,
            conf : ConfStates]

\* The variables keep their shape.
TypeOK ==
  /\ ctl \in [state : AgentStates, pending : Pending, iter : Nat, max : Nat,
              hit : BOOLEAN, intents : Nat, answered : SUBSET Nat,
              awaited : BOOLEAN, asked : SUBSET Nat,
              approved : SUBSET Nat, late : SUBSET Nat, abandoned : SUBSET Nat,
              unnamed : SUBSET Nat]
  /\ thread \in [at : {"idle", "recall", "reissue", "step", "llm", "ask", "add"},
                 action : Pending]
  /\ clearing \in BOOLEAN
  /\ calls \in Nat /\ nextId \in Nat /\ errs \in Nat /\ users \in 0 .. MaxUser
  /\ executed \subseteq Nat
  /\ busy \in [kind : {"none", "run", "think"}, id : Nat \cup {NoId}, act : Nat,
               conf : ConfStates]

\* An action put to the user runs only after a confirmation was handled while
\* that very action was pending (agent_controller.py 756-767, base.py 1099-1104).
OnlyConfirmedRuns == executed \cap ctl.asked \subseteq ctl.approved

InRuntime == {e \in {inbox.runtime[i] : i \in DOMAIN inbox.runtime} \cup {busy} :
                e.kind = "run" /\ e.conf # "awaiting"}
\* Whatever the runtime holds is the pending action or one the controller gave
\* up, by its id or, when an error status came between _pending_action = action
\* and add_event (agent_controller.py 1085-1098), before it had one: an
\* observation never releases an action it does not answer
\* (agent_controller.py 583-588).
OneOutstanding ==
  \A e \in InRuntime :
    e.id = ctl.pending.id \/ e.id \in ctl.abandoned \/ e.act \in ctl.unnamed

\* Headless, no resumption buys a call over the limit: not the user's, not the
\* hint the controller adds itself (control_flags.py 53-73).
CallsBounded == Headless => calls <= IterationDelta

\* A user message is followed by an LLM call unless the agent stops running:
\* the recall that blocks the step always releases it (should_step,
\* agent_controller.py 441-450).
MessageIsStepped == ctl.awaited ~> ~ctl.awaited

WaitsOnPending ==
  /\ ctl.pending # NoAction /\ ctl.pending.conf # "awaiting"
  /\ ctl.pending.act \notin ctl.late
  /\ ctl.state \in {Running, Confirmed, Rejected}
\* An agent that waits on its pending action alone does not wait for ever, also
\* when a confirmation or a rejection added the action again under a new id and
\* when running it failed (agent_controller.py 583-593, 756-767; base.py 453-466).
\* Not so for an action returned by a step during which a status message had set
\* ERROR: it becomes pending in ERROR, against the comment of _reset (line 725).
PendingIsAnswered == WaitsOnPending ~> ~WaitsOnPending
============================================================================
