------------------------------- MODULE PipeIn -------------------------------
(***************************************************************************)
(* The zpull and zsub tools (examples/common_pipe_in.c): a reactor that     *)
(* dumps the frames its socket receives to the standard output, a pipe that *)
(* somebody reads.  The frames have no end: what is counted is how many     *)
(* wait in the socket, in the buffer of stdio and in the pipe.              *)
(***************************************************************************)
EXTENDS ZReactor

CONSTANTS
    QueueMax,   \* frames the socket can hold
    BufferSize, \* frames the buffer of stdio can hold
    PipeMax     \* frames the pipe can hold

ASSUME PipeInAssumption ==
    /\ Monitor = {"zk", "zsock", "stdout"}
    /\ {QueueMax, BufferSize, PipeMax} \subseteq Nat \ {0}

VARIABLES
    subscribed, \* a SUB socket that has no subscription receives nothing
    evt,        \* what the reactor waits for on the socket
    queue,      \* frames in the socket
    buffered,   \* frames in the buffer of stdio
    flushing,   \* _manage_in is in its fflush
    pipe,       \* frames in the pipe
    reader      \* is the pipe read: "open" or "closed"

dataVars == <<subscribed, evt, queue, buffered, flushing, pipe, reader>>
vars == <<loopVars, dataVars>>

Over == phase \in {"exited", "aborted"}

\* A socket that is sent something: zenv_create_socket subscribes to nothing.
zenv_create_socket(ztype) == ztype = "PULL"

Init ==
    /\ ReactorInit(<<"zk", "zsock", "stdout">>)
    /\ subscribed \in {zenv_create_socket(ztype) : ztype \in {"PULL", "SUB"}}
    /\ evt = {"IN"}
    /\ queue = 0
    /\ buffered = 0
    /\ flushing = FALSE
    /\ pipe = 0
    /\ reader = "open"

(* The peers, the reader and the operator. *)

Arrive ==
    /\ subscribed
    /\ queue < QueueMax
    /\ queue' = queue + 1
    /\ UNCHANGED <<loopVars, subscribed, evt, buffered, flushing, pipe, reader>>

Read ==
    /\ pipe > 0
    /\ pipe' = pipe - 1
    /\ UNCHANGED <<loopVars, subscribed, evt, queue, buffered, flushing, reader>>

CloseReader ==
    /\ reader = "open"
    /\ reader' = "closed"
    /\ pipe' = 0
    /\ UNCHANGED <<loopVars, subscribed, evt, queue, buffered, flushing>>

sighandler_stop ==
    /\ running
    /\ ~Over
    /\ running' = FALSE
    /\ UNCHANGED <<monitors, phase, at, max, revents, dataVars>>

-----------------------------------------------------------------------------
(* The reactor. *)

\* Nothing is waited for on the output, but its end is reported all the same.
Fired ==
    [m \in Monitor |->
        CASE m = "zsock" -> IF queue > 0 THEN evt ELSE {}
          [] m = "stdout" -> IF reader = "closed" THEN {"ERR"} ELSE {}
          [] OTHER -> {}]

PollAll ==
    /\ \E zk \in SUBSET {"IN"} : Poll([Fired EXCEPT !["zk"] = zk])
    /\ UNCHANGED dataVars

LeaveLoop == Leave /\ UNCHANGED dataVars

ProcessZk == Dispatching("zk") /\ NextItem /\ UNCHANGED <<running, dataVars>>

LoseZk == Fail("zk") /\ UNCHANGED dataVars

SkipItem == (\E m \in {"zsock", "stdout"} : Skip(m)) /\ UNCHANGED dataVars

\* Mutant of zsock_handler: the input is waited for once only, as the output is.
zsock_handler_ClearsIn ==
    /\ Dispatching("zsock")
    /\ "IN" \in revents["zsock"]
    /\ phase' = "handler"
    /\ evt' = evt \ {"IN"}
    /\ UNCHANGED <<monitors, running, at, max, revents, subscribed, queue, buffered, flushing, pipe, reader>>

zsock_handler ==
    /\ Dispatching("zsock")
    /\ "IN" \in revents["zsock"]
    /\ phase' = "handler"
    /\ UNCHANGED <<monitors, running, at, max, revents, dataVars>>

\* on_output: a socket that only receives is never ready for output, so that
\* the test of the end of the output is not reached.
on_output ==
    /\ Dispatching("stdout")
    /\ revents["stdout"] # {}
    /\ NextItem
    /\ UNCHANGED <<running, dataVars>>

-----------------------------------------------------------------------------
(* _manage_in *)

Receive ==
    /\ phase = "handler" /\ ~flushing
    /\ queue > 0
    /\ buffered < BufferSize
    /\ queue' = queue - 1
    /\ buffered' = buffered + 1
    /\ UNCHANGED <<loopVars, subscribed, evt, flushing, pipe, reader>>

\* Mutant of NothingMore: nothing is flushed.
NothingMore_KeepsBuffer ==
    /\ phase = "handler" /\ ~flushing
    /\ queue = 0
    /\ NextItem
    /\ UNCHANGED <<running, dataVars>>

NothingMore ==
    /\ phase = "handler" /\ ~flushing
    /\ queue = 0
    /\ flushing' = TRUE
    /\ UNCHANGED <<loopVars, subscribed, evt, queue, buffered, pipe, reader>>

\* stdio writes when its buffer is full, or flushed.
Writing == phase = "handler" /\ buffered > 0 /\ (flushing \/ buffered = BufferSize)

\* The write waits for the reader when the pipe is full.
WriteOut ==
    /\ Writing
    /\ reader = "open"
    /\ pipe < PipeMax
    /\ buffered' = buffered - 1
    /\ pipe' = pipe + 1
    /\ UNCHANGED <<loopVars, subscribed, evt, queue, flushing, reader>>

\* Mutant of BrokenPipe: the signal is ignored, and the text dropped.
BrokenPipe_Ignored ==
    /\ Writing
    /\ reader = "closed"
    /\ buffered' = 0
    /\ UNCHANGED <<loopVars, subscribed, evt, queue, flushing, pipe, reader>>

\* Nobody reads any more: SIGPIPE ends the process.
BrokenPipe ==
    /\ Writing
    /\ reader = "closed"
    /\ phase' = "aborted"
    /\ UNCHANGED <<monitors, running, at, max, revents, dataVars>>

Flushed ==
    /\ phase = "handler" /\ flushing
    /\ buffered = 0
    /\ flushing' = FALSE
    /\ NextItem
    /\ UNCHANGED <<running, subscribed, evt, queue, buffered, pipe, reader>>

_manage_in == Receive \/ NothingMore \/ WriteOut \/ BrokenPipe \/ Flushed

Environment == Arrive \/ Read \/ CloseReader \/ sighandler_stop

Process == PollAll \/ LeaveLoop \/ ProcessZk \/ SkipItem \/ zsock_handler \/ on_output \/ _manage_in

Next == Environment \/ Process \/ LoseZk

Spec == Init /\ [][Next]_vars

\* The thread is scheduled; nothing says that frames come or that they are read.
FairSpec == Spec /\ WF_vars(Process)

-----------------------------------------------------------------------------
TypeOK ==
    /\ LoopTypeOK
    /\ evt = {"IN"}
    /\ queue \in 0..QueueMax
    /\ buffered \in 0..BufferSize
    /\ flushing => phase \in {"handler", "aborted"}
    /\ pipe \in 0..PipeMax

\* What was received is written before the tool waits, looks at a signal or
\* ends its loop: only a reader that has gone makes it lose text.
NothingWithheld == phase # "handler" => buffered = 0 \/ (phase = "aborted" /\ reader = "closed")

\* A stop is served once the frames pause and the text is read: while they go
\* on the drain loop does not return to the reactor.
StopIsServed ==
    <>[](queue = 0) /\ []<>(pipe < PipeMax) => (~running ~> Over)

\* However fast frames come, text keeps coming out, as long as the tool runs.
TextKeepsFlowing == []<>(queue > 0) => <>Over \/ []<>(pipe > 0) \/ <>(~running)

\* A reader that has gone is noticed when a frame comes.
GoneReaderIsNoticed == reader = "closed" /\ queue > 0 ~> Over
=============================================================================
