------------------------------ MODULE EventLog ------------------------------
(***************************************************************************)
(* What an event stream promises, without threads, queues or pages: a log  *)
(* that is only ever added to, and callbacks that are run with events of   *)
(* the log, each event at most once, and the events of one writer in the   *)
(* order it added them.                                                    *)
(***************************************************************************)
EXTENDS Integers, Sequences

CONSTANTS Ids, Event, NoEvent, Callbacks

VARIABLES
  log,   \* [Ids -> Event or NoEvent]
  seen   \* the events each callback was run with, in order

\* e was added before f: in an earlier life of the process, or with a lower id.
Before(e, f) == e.epoch < f.epoch \/ (e.epoch = f.epoch /\ e.id < f.id)

Init ==
  /\ log = [i \in Ids |-> NoEvent]
  /\ seen = [c \in Callbacks |-> <<>>]

AppendEvent(e) ==
  /\ log[e.id] = NoEvent
  /\ log' = [log EXCEPT ![e.id] = e]
  /\ UNCHANGED seen

Deliver(c, e) ==
  /\ log[e.id] = e
  /\ \A k \in DOMAIN seen[c] : seen[c][k].by = e.by => Before(seen[c][k], e)
  /\ seen' = [seen EXCEPT ![c] = Append(@, e)]
  /\ UNCHANGED log

Next ==
  \E e \in Event : AppendEvent(e) \/ \E c \in Callbacks : Deliver(c, e)

Spec == Init /\ [][Next]_<<log, seen>>
=============================================================================
