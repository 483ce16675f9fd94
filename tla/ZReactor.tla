------------------------------ MODULE ZReactor ------------------------------
(***************************************************************************)
(* The event loop of a process (src/zreactor.c): one thread polls every    *)
(* monitored item, then calls the handlers in the order of the items. The  *)
(* handlers themselves belong to the modules that extend this one.         *)
(***************************************************************************)
EXTENDS Integers, Sequences, FiniteSets

CONSTANT Monitor \* what may be monitored: the handle, sockets, descriptors

VARIABLES
    monitors, \* the monitored items, in the order of their dispatch
    running,  \* cleared by zreactor_stop
    phase,    \* "poll" between two passes, "dispatch", "handler", the end
    at,       \* the item being dispatched
    max,      \* how many items this pass dispatches
    revents   \* the events the last poll reported

loopVars == <<monitors, running, phase, at, max, revents>>

Event == {"IN", "OUT", "ERR"}

Quiet == [m \in Monitor |-> {}]

\* zreactor_create, and the items added before the loop runs.
ReactorInit(items) ==
    /\ monitors = items
    /\ running = TRUE
    /\ phase = "poll"
    /\ at = 0
    /\ max = 0
    /\ revents = Quiet

\* A pass starts when something fired; a timeout changes nothing.
Poll(fired) ==
    /\ phase = "poll"
    /\ running
    /\ fired # Quiet
    /\ phase' = "dispatch"
    /\ at' = 1
    /\ max' = Len(monitors)
    /\ revents' = fired
    /\ UNCHANGED <<monitors, running>>

\* Mutant of Leave: a stop is obeyed only after a pass that had no event.
Leave_WhenQuiet ==
    /\ phase = "poll"
    /\ ~running
    /\ revents = Quiet
    /\ phase' = "exited"
    /\ UNCHANGED <<monitors, running, at, max, revents>>

\* The loop of zreactor_run ends between two passes only.
Leave ==
    /\ phase = "poll"
    /\ ~running
    /\ phase' = "exited"
    /\ UNCHANGED <<monitors, running, at, max, revents>>

Dispatching(m) == phase = "dispatch" /\ monitors[at] = m

\* Mutant of NextPlace: the pass goes one item too far.
NextPlace_OnePast ==
    /\ IF at <= max THEN at' = at + 1 /\ phase' = "dispatch"
                    ELSE at' = 0 /\ phase' = "poll"
    /\ UNCHANGED <<max, revents>>

\* On to the next item, or back to the poll.
NextPlace ==
    /\ IF at < max THEN at' = at + 1 /\ phase' = "dispatch"
                   ELSE at' = 0 /\ phase' = "poll"
    /\ UNCHANGED <<max, revents>>

NextItem == NextPlace /\ UNCHANGED monitors

\* The handler appended items: the pass under way does not reach them.
NextItemAfterAdding(items) == NextPlace /\ monitors' = monitors \o items

\* Nothing was reported for a socket or a descriptor: its handler is not called.
Skip(m) ==
    /\ Dispatching(m)
    /\ revents[m] = {}
    /\ NextItem
    /\ UNCHANGED running

\* zookeeper_process failed: the loop is over, the items left are not served.
Fail(m) ==
    /\ Dispatching(m)
    /\ phase' = "exited"
    /\ UNCHANGED <<monitors, running, at, max, revents>>

LoopTypeOK ==
    /\ monitors \in Seq(Monitor)
    /\ running \in BOOLEAN
    /\ phase \in {"poll", "dispatch", "handler", "exited", "aborted"}
    /\ max \in 0..Len(monitors)
    /\ at \in 0..max
    /\ phase \in {"dispatch", "handler"} => at > 0
    /\ revents \in [Monitor -> SUBSET Event]
=============================================================================
