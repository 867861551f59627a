----------------------------- MODULE AgentContext -----------------------------
(***************************************************************************)
(* What the language model is shown of a conversation: the history of      *)
(* events, the view that is left of it when it was condensed               *)
(* (openhands/memory/view.py and the condensers of session.py), and the    *)
(* messages made of the view (openhands/memory/conversation_memory.py).    *)
(*                                                                         *)
(* The history grows by what the user, the memory, the runtime and the     *)
(* agent's steps (codeact_agent.py) add to it.  A tool call carries the    *)
(* response it comes from, as tool_call_metadata does.                     *)
(***************************************************************************)
EXTENDS Integers, Sequences, FiniteSets, FiniteSetsExt, SequencesExt

CONSTANTS
  KeepFirst,   \* keep_first of LLMSummarizingCondenser
  MaxSize,     \* its max_size
  AttentionWindow, \* attention_window of BrowserOutputCondenser
  Shapes,      \* what a response may hold: sequences of "call" and "finish"
  MaxLen,      \* bound: events of the history
  MaxUser,     \* bound: messages of the user
  MaxRequests, \* bound: times the context window is exceeded
  MaxStops     \* bound: times the user stops the agent

ASSUME SizesOK == /\ KeepFirst \in Nat /\ MaxSize \in Nat
                  /\ KeepFirst + 1 < MaxSize \div 2
ASSUME AttentionOK == AttentionWindow \in Nat
ASSUME ShapesOK == Shapes \subseteq Seq({"call", "finish"}) \ {<<>>}
ASSUME BoundsOK == {MaxLen, MaxUser, MaxRequests, MaxStops} \subseteq Nat

VARIABLES
  history,     \* state.history; the id of an event is its place
  pending,     \* _pending_action: its id, or 0
  open,        \* ids of the calls and recalls not answered yet
  plan,        \* agent.pending_actions
  state,       \* running, waiting for the user, or stopped
  stops        \* how often it was stopped

vars == <<history, pending, open, plan, state, stops>>

Make(kind) == [kind |-> kind, id |-> 0, resp |-> 0, call |-> 0, calls |-> 0,
               forgets |-> {}, summary |-> FALSE]
Event == Make("system")
Add(e) == history' = Append(history, [e EXCEPT !.id = Len(history) + 1])

Init ==
  /\ history = <<[Event EXCEPT !.id = 1]>> /\ pending = 0 /\ open = {}
  /\ plan = <<>> /\ state = "waiting" /\ stops = 0

Count(kind) == Cardinality({i \in DOMAIN history : history[i].kind = kind})
InBound(n) == Len(history) + n <= MaxLen

\* What a sequence holds at some of its places, in their order.
Only(s, places) ==
  LET upto[n \in 0..Len(s)] ==
        IF n = 0 THEN <<>>
        ELSE IF n \in places THEN Append(upto[n - 1], s[n]) ELSE upto[n - 1]
  IN upto[Len(s)]

----------------------------------------------------------------------------
(* The view                                                                *)

Condensations(h) == {i \in DOMAIN h : h[i].kind = "condensation"}
Requests(h) == {i \in DOMAIN h : h[i].kind = "request"}
Forgotten(h) ==
  (UNION {h[i].forgets \cup {i} : i \in Condensations(h)}) \cup Requests(h)

\* The last condensation that has a summary has it for those before, too.
Summaries(h) == {i \in Condensations(h) : h[i].summary}
\* Mutant: only the last condensation is looked at.
SummaryOfLast(h) ==
  Condensations(h) # {} /\ h[Max(Condensations(h))].summary
HasSummary(h) == Summaries(h) # {}

Kept(h) == Only(h, {i \in DOMAIN h : h[i].id \notin Forgotten(h)})
View(h) ==
  LET kept == Kept(h) IN
  IF HasSummary(h)
    THEN InsertAt(kept, Min({KeepFirst, Len(kept)}) + 1, Make("summary"))
    ELSE kept

Unhandled(h) ==
  \E i \in Requests(h) : \A j \in Condensations(h) : j < i

IsObservation(e) == e.kind \in {"recalled", "result", "page", "summary"}
Ids(v) == {v[i].id : i \in DOMAIN v}
Places(v, kind) == {i \in DOMAIN v : v[i].kind = kind}
First(S) == IF S = {} THEN {} ELSE {Min(S)}

----------------------------------------------------------------------------
(* Condensers                                                              *)

\* The first message of the user, what was recalled for it, the system message.
Essential(v) ==
  LET user == First(Places(v, "user"))
      recall == First({i \in Places(v, "recall") :
                  \E u \in user : v[i].call = v[u].id})
      recalled == First({i \in Places(v, "recalled") :
                  \E r \in recall : v[i].call = v[r].id /\ r < i}) IN
  First(Places(v, "system")) \cup user \cup recall \cup recalled

\* ConversationWindowCondenser: half of the rest, less the observations the
\* later half begins with.
Window(v) ==
  LET recent == Max({1, (Len(v) - Cardinality(Essential(v))) \div 2})
      slice == (Len(v) - recent + 1)..Len(v)
      valid == {i \in slice : \E j \in slice : j <= i /\ ~IsObservation(v[j])}
      keep == Essential(v) \cup valid IN
  [Make("condensation") EXCEPT !.forgets =
     IF Places(v, "user") = {} THEN {}
     ELSE Ids(v) \ {v[i].id : i \in keep}]

\* BrowserOutputCondenser: of what the browser returned, all but the last few
\* are masked; the placeholder has no id and belongs to no call.
Masked(v) ==
  LET later(i) == {j \in (i + 1)..Len(v) : v[j].kind = "page"} IN
  [i \in DOMAIN v |->
     IF v[i].kind = "page" /\ Cardinality(later(i)) >= AttentionWindow
       THEN Make("masked") ELSE v[i]]

\* LLMSummarizingCondenser: what is between the head and the tail, as a range
\* of ids; a summary and a placeholder, of one class, do not count.
IsSummary(e) == e.kind \in {"summary", "masked"}
\* Mutant: the summary is not counted.
RestOfTarget == MaxSize \div 2 - KeepFirst
EventsFromTail == MaxSize \div 2 - KeepFirst - 1
Middle(v) == (KeepFirst + 1)..(Len(v) - EventsFromTail)
ToSummarize(v) == {i \in Middle(v) : ~IsSummary(v[i])}
Summarized(v) ==
  LET ids == {v[i].id : i \in ToSummarize(v)} IN
  [Make("condensation") EXCEPT
     !.forgets = Min(ids)..Max(ids), !.summary = TRUE]

TooLong(v) == Len(v) > MaxSize

----------------------------------------------------------------------------
(* Messages                                                                *)

Message(role, resp, calls, event) ==
  [role |-> role, resp |-> resp, calls |-> calls, event |-> event]
Say(role, e) == <<Message(role, 0, <<>>, e.id)>>
Tool(w, c) == Message("tool", w.resp, <<c>>, 0)
Asked(w) == Message("assistant", w.resp, [c \in 1..w.calls |-> c], 0)

\* What becomes a message where it stands.
Direct(e) ==
  CASE e.kind = "system" -> Say("system", e)
    [] e.kind \in {"user", "recalled", "summary", "masked"} -> Say("user", e)
    [] e.kind \in {"say", "finish"} -> Say("assistant", e)
    [] OTHER -> <<>>

\* A response with tool calls is a message when each has its result, followed
\* by the results.
AllGot(w, got) == \A c \in 1..w.calls : <<w.resp, c>> \in got
\* Mutant: the results are added before the message that asked for them.
ResultsFirst(w) == [c \in 1..w.calls |-> Tool(w, c)] \o <<Asked(w)>>
Exchange(w) == <<Asked(w)>> \o [c \in 1..w.calls |-> Tool(w, c)]

ProcessEvent(acc, e) ==
  LET new == e.kind = "call" /\ \A i \in DOMAIN acc.waits :
               acc.waits[i].resp # e.resp
      waits == IF new
                 THEN Append(acc.waits, [resp |-> e.resp, calls |-> e.calls])
                 ELSE acc.waits
      got == IF e.kind \in {"result", "page"}
               THEN acc.got \cup {<<e.resp, e.call>>} ELSE acc.got
      ready == {i \in DOMAIN waits : AllGot(waits[i], got)}
      done == Only(waits, ready) IN
  [out |-> acc.out \o Direct(e) \o
             FlattenSeq([i \in DOMAIN done |-> Exchange(done[i])]),
   waits |-> Only(waits, DOMAIN waits \ ready),
   got |-> {g \in got : \A i \in DOMAIN done : done[i].resp # g[1]}]

Processed(v) ==
  LET upto[n \in 0..Len(v)] ==
        IF n = 0 THEN [out |-> <<>>, waits |-> <<>>, got |-> {}]
        ELSE ProcessEvent(upto[n - 1], v[n])
  IN upto[Len(v)].out

\* _filter_unmatched_tool_calls
CallIds(ms) ==
  UNION {{<<ms[i].resp, c>> : c \in ToSet(ms[i].calls)} :
           i \in {j \in DOMAIN ms : ms[j].role = "assistant"}}
ResponseIds(ms) ==
  {<<ms[i].resp, ms[i].calls[1]>> : i \in {j \in DOMAIN ms : ms[j].role = "tool"}}
AnsweredCalls(m, ms) ==
  Only(m.calls, {k \in DOMAIN m.calls : <<m.resp, m.calls[k]>> \in ResponseIds(ms)})
Pruned(ms) ==
  [i \in DOMAIN ms |->
     IF ms[i].role # "assistant" THEN ms[i]
     ELSE [ms[i] EXCEPT !.calls = AnsweredCalls(ms[i], ms)]]
Keeps(m, ms) ==
  IF m.role = "tool" THEN <<m.resp, m.calls[1]>> \in CallIds(ms)
  ELSE m.resp = 0 \/ m.calls # <<>>
Matched(ms) ==
  LET pruned == Pruned(ms) IN
  Only(pruned, {i \in DOMAIN pruned : Keeps(pruned[i], ms)})

\* The system message and the first message of the user come first.  (The view
\* BrowserOutputCondenser makes has no forgotten ids, so that the test for a
\* forgotten first message never finds it.)
InitialUser(h) == h[Min(Places(h, "user"))]
WithSystem(v) ==
  IF Places(v, "system") # {} THEN v ELSE <<Event>> \o v
WithUser(v, h) ==
  IF Len(v) > 1 /\ v[2].kind = "user" THEN v ELSE InsertAt(v, 2, InitialUser(h))

Prompt(h) ==
  Matched(Processed(WithUser(WithSystem(Masked(View(h))), h)))

----------------------------------------------------------------------------
(* What adds events                                                        *)

\* A message of the user, for which the controller asks the memory; what it
\* waited for so far it no longer waits for.
User ==
  /\ Count("user") < MaxUser /\ InBound(2)
  /\ history' = history \o
       <<[Make("user") EXCEPT !.id = Len(history) + 1],
         [Make("recall") EXCEPT !.id = Len(history) + 2,
                                !.call = Len(history) + 1]>>
  /\ pending' = Len(history) + 2 /\ open' = open \cup {Len(history) + 2}
  /\ state' = "running" /\ UNCHANGED <<plan, stops>>

\* An answer; the memory's may be that there is nothing to recall, which the
\* history leaves out.
\* Mutant: a null observation releases nothing.
KeptByNull(i) == IF pending = i /\ history' # history THEN 0 ELSE pending
Released(i) == IF pending = i THEN 0 ELSE pending
AnswerTo(i) ==
  IF history[i].kind = "recall" THEN [Make("recalled") EXCEPT !.call = i]
  ELSE [Make("result") EXCEPT !.resp = history[i].resp, !.call = history[i].call]
\* The result of a call may be a page of the browser.
Answers(i) ==
  {AnswerTo(i)} \cup
    {[AnswerTo(i) EXCEPT !.kind = "page"] : j \in {i} \ Places(history, "recall")}
Answer(i) ==
  /\ \/ InBound(1) /\ \E e \in Answers(i) : Add(e)
     \/ history[i].kind = "recall" /\ UNCHANGED history
  /\ open' = open \ {i}
  /\ pending' = Released(i)
  /\ UNCHANGED <<plan, state, stops>>

Emit(e, rest) ==
  /\ Add(e) /\ plan' = rest
  /\ IF e.kind = "call"
       THEN /\ pending' = Len(history) + 1
            /\ open' = open \cup {Len(history) + 1}
       ELSE UNCHANGED <<pending, open>>
  /\ state' = IF e.kind \in {"finish", "say"} THEN "waiting" ELSE "running"
  /\ UNCHANGED stops

\* The actions of a response, in its order.
Response(shape) ==
  [i \in DOMAIN shape |->
     [Make(shape[i]) EXCEPT !.resp = Len(history) + 1, !.call = i,
                            !.calls = Len(shape)]]

CanStep == state = "running" /\ pending = 0
Steps == CanStep /\ InBound(1)

NextOfPlan == Steps /\ plan # <<>> /\ Emit(Head(plan), Tail(plan))

\* The first condenser of the pipeline that condenses.
CondenseWindow ==
  /\ Steps /\ plan = <<>> /\ Unhandled(history)
  /\ Emit(Window(View(history)), <<>>)
\* The last one.  With nothing to summarize it raises, which is a Stop.
Condensed == Masked(View(history))
Summarize ==
  /\ Steps /\ plan = <<>> /\ ~Unhandled(history)
  /\ TooLong(Condensed) /\ ToSummarize(Condensed) # {}
  /\ Emit(Summarized(Condensed), <<>>)

\* The model is asked.
Asks == CanStep /\ plan = <<>> /\ ~Unhandled(history) /\ ~TooLong(Condensed)
Ask ==
  /\ Asks /\ InBound(1)
  /\ \/ \E shape \in Shapes :
          LET r == Response(shape) IN Emit(Head(r), Tail(r))
     \/ Emit(Make("say"), <<>>)
     \/ Count("request") < MaxRequests /\ Emit(Make("request"), <<>>)

\* The user stops the agent, or an error does: _reset answers for the pending
\* action unless it has its answer (one without tool calls has it as soon as
\* any answer without is there), and drops the rest of the response.  The
\* runtime may still answer.
Answered(e) ==
  \E i \in DOMAIN history :
    IF e.kind = "recall" THEN history[i].kind = "recalled"
    ELSE /\ history[i].kind \in {"result", "page"}
         /\ history[i].resp = e.resp /\ history[i].call = e.call
Stop ==
  /\ state # "stopped" /\ stops < MaxStops /\ InBound(1)
  /\ IF pending = 0 \/ Answered(history[pending]) THEN UNCHANGED history
     ELSE Add(AnswerTo(pending))
  /\ pending' = 0 /\ plan' = <<>> /\ state' = "stopped" /\ stops' = stops + 1
  /\ UNCHANGED open

Next ==
  \/ User \/ NextOfPlan \/ CondenseWindow \/ Summarize \/ Ask \/ Stop
  \/ \E i \in open : Answer(i)

Spec == Init /\ [][Next]_vars

----------------------------------------------------------------------------
(* Properties                                                              *)

Kinds == {"system", "user", "recall", "recalled", "call", "result", "page",
          "finish", "say", "request", "condensation"}
Entry == [kind : Kinds, id : Nat, resp : Nat, call : Nat, calls : Nat,
          forgets : SUBSET Nat, summary : BOOLEAN]
Planned == [kind : {"call", "finish"}, id : {0}, resp : Nat, call : Nat \ {0},
            calls : Nat \ {0}, forgets : {{}}, summary : {FALSE}]

\* Each variable holds what the code puts there, and what the controller waits
\* for was not answered.
TypeOK ==
  /\ history \in Seq(Entry)
  /\ \A i \in DOMAIN history :
       history[i].id = i /\ history[i].forgets \subseteq 0..(i - 1)
  /\ pending \in open \cup {0} /\ open \subseteq 1..Len(history)
  /\ plan \in Seq(Planned)
  /\ state \in {"running", "waiting", "stopped"} /\ stops \in 0..MaxStops

\* Whatever was condensed and in whatever order answers come, a message with
\* tool calls is followed at once by one result for each of them, in order,
\* and no result stands anywhere else (process_events).
FollowedByResults(ms, i) ==
  \A k \in DOMAIN ms[i].calls :
    /\ i + k <= Len(ms) /\ ms[i + k].role = "tool"
    /\ ms[i + k].resp = ms[i].resp /\ ms[i + k].calls = <<ms[i].calls[k]>>
Paired(ms) ==
  /\ \A i \in DOMAIN ms : ms[i].role = "assistant" => FollowedByResults(ms, i)
  /\ \A j \in {k \in DOMAIN ms : ms[k].role = "tool"} :
       \E i \in 1..(j - 1) : ms[i].role = "assistant" /\ j <= i + Len(ms[i].calls)
PromptWellFormed == Asks => Paired(Prompt(history))

\* The model is always told its instructions first and then the user's first
\* message, and once events were summarized it is told the summary, however
\* the condensers follow each other.
EssentialsStay ==
  Asks => LET ms == Prompt(history) IN
    /\ ms[1].role = "system"
    /\ ms[2].event = InitialUser(history).id
    /\ (\E i \in Condensations(history) : history[i].summary)
         => Places(Condensed, "summary") # {}

\* A summary leaves half of max_size in the view, and of what it was to
\* summarize only the placeholders at either end of it, which the range of
\* forgotten ids does not reach: with none there, the next step asks the model
\* and does not condense again.
Beyond(v) ==
  {i \in Middle(v) \ ToSummarize(v) : v[i].kind = "masked" /\
     (\/ \A j \in ToSummarize(v) : i < j
      \/ \A j \in ToSummarize(v) : j < i)}
CondensationHalves ==
  [][Summarize =>
       Len(View(history')) = MaxSize \div 2 + Cardinality(Beyond(Condensed))]_vars
===============================================================================
