------------------------------ MODULE PipeOut ------------------------------
(***************************************************************************)
(* The zpush and zpub tools (examples/common_pipe_out.c): a reactor that   *)
(* copies the lines of its standard input to a socket, a message per line. *)
(* Input and output are never waited for together: the socket being        *)
(* writable arms the input, the input finding it full arms the socket.     *)
(*                                                                         *)
(* The text is counted in characters. What the writer wrote goes first     *)
(* into the pipe, then into the buffer of stdio, where poll sees nothing.  *)
(***************************************************************************)
EXTENDS ZReactor, FiniteSetsExt

CONSTANTS
    Text,        \* what the writer has to say: "char" and "nl"
    Pauses,      \* where it may stop between two writes
    LineMax,     \* what fgets returns at most, sizeof(b) - 1
    BufferSize,  \* what stdio reads at most at once
    HighWater,   \* messages the connections to the peers can hold
    MaxAdoptions \* bound: rounds adopted by the discovery (ZConnect)

ASSUME PipeOutAssumption ==
    /\ Monitor = {"zk", "zsock", "stdin"}
    /\ Text \in Seq({"char", "nl"})
    /\ Pauses \subseteq 0..Len(Text)
    /\ {LineMax, BufferSize, HighWater} \subseteq Nat \ {0}
    /\ MaxAdoptions \in Nat

VARIABLES
    in_evt,    \* what the reactor waits for on stdin
    evt,       \* what it waits for on the socket
    written,   \* characters the writer wrote
    closed,    \* the writer closed the pipe
    buffered,  \* characters stdio has read
    taken,     \* characters fgets has returned
    flags,     \* the error and end-of-file flags of stdin
    lossy,     \* a PUB socket, that is always writable and drops what it cannot send
    connected, \* the socket has an entry in connect_real
    room,      \* messages the connections still accept
    fading,    \* the same, of connections being closed
    adoptions  \* rounds adopted so far

inputVars == <<in_evt, evt, written, closed, buffered, taken, flags>>
peerVars == <<lossy, connected, room, fading, adoptions>>
vars == <<loopVars, inputVars, peerVars>>

-----------------------------------------------------------------------------
Init ==
    /\ ReactorInit(<<"zk", "zsock", "stdin">>)
    /\ in_evt = {}
    /\ evt = {"OUT"}
    /\ written = 0
    /\ closed = FALSE
    /\ buffered = 0
    /\ taken = 0
    /\ flags = {}
    /\ lossy \in BOOLEAN \* zpub or zpush
    /\ connected = FALSE
    /\ room = 0
    /\ fading = 0
    /\ adoptions = 0

(* The writer, the peers and the operator. *)

Write ==
    /\ ~closed
    /\ \E p \in Pauses : p > written /\ written' = p
    /\ UNCHANGED <<loopVars, in_evt, evt, closed, buffered, taken, flags, peerVars>>

\* The last line may have no end: it is then written just before the pipe is
\* closed.
Close ==
    /\ ~closed
    /\ closed' = TRUE
    /\ written' \in {written, Len(Text)}
    /\ UNCHANGED <<loopVars, in_evt, evt, buffered, taken, flags, peerVars>>

\* A peer takes a message: its connection accepts one more.
Consume ==
    /\ connected
    /\ room < HighWater
    /\ room' = room + 1
    /\ UNCHANGED <<loopVars, inputVars, lossy, connected, fading, adoptions>>

\* The input/output thread of ZeroMQ finishes closing a connection.
Terminate ==
    /\ fading > 0
    /\ fading' = 0
    /\ UNCHANGED <<loopVars, inputVars, lossy, connected, room, adoptions>>

\* sighandler_stop, at any moment.
sighandler_stop ==
    /\ running
    /\ phase \notin {"exited", "aborted"}
    /\ running' = FALSE
    /\ UNCHANGED <<monitors, phase, at, max, revents, inputVars, peerVars>>

-----------------------------------------------------------------------------
(* The reactor. *)

Writable == lossy \/ room + fading > 0

\* Mutant of Fired: the end of the pipe is not reported.
Fired_NoHangup ==
    [m \in Monitor |->
        CASE m = "zsock" -> IF Writable THEN evt ELSE {}
          [] m = "stdin" -> IF written > buffered THEN in_evt ELSE {}
          [] OTHER -> {}]

\* An end of the pipe is reported whatever is waited for.
Fired ==
    [m \in Monitor |->
        CASE m = "zsock" -> IF Writable THEN evt ELSE {}
          [] m = "stdin" -> (IF written > buffered THEN in_evt ELSE {})
                            \cup (IF closed THEN {"ERR"} ELSE {})
          [] OTHER -> {}]

\* The handle of ZooKeeper may be ready at any time.
PollAll ==
    /\ \E zk \in SUBSET {"IN"} : Poll([Fired EXCEPT !["zk"] = zk])
    /\ UNCHANGED <<inputVars, peerVars>>

LeaveLoop == Leave /\ UNCHANGED <<inputVars, peerVars>>

\* zookeeper_process, called at each pass: the discovery may adopt a round
\* (ZConnect); the URLs it drops fade away, the new ones accept messages.
ProcessZk ==
    /\ Dispatching("zk")
    /\ NextItem
    /\ \/ UNCHANGED peerVars
       \/ /\ adoptions < MaxAdoptions
          /\ adoptions' = adoptions + 1
          /\ connected' = TRUE
          /\ fading' = fading + room
          /\ room' = HighWater
    /\ UNCHANGED <<running, inputVars, lossy>>

\* zookeeper_process fails.
LoseZk == Fail("zk") /\ UNCHANGED <<inputVars, peerVars>>

SkipItem ==
    /\ \E m \in {"zsock", "stdin"} : Skip(m)
    /\ UNCHANGED <<inputVars, peerVars>>

\* Mutant of zsock_handler: the socket stays monitored for output.
zsock_handler_KeepsOut ==
    /\ Dispatching("zsock")
    /\ "OUT" \in revents["zsock"]
    /\ in_evt' = {"IN"}
    /\ NextItem
    /\ UNCHANGED <<running, evt, written, closed, buffered, taken, flags, peerVars>>

\* zsock_handler on ZMQ_POLLOUT, and its hook _manage_out.
zsock_handler ==
    /\ Dispatching("zsock")
    /\ "OUT" \in revents["zsock"]
    /\ evt' = evt \ {"OUT"}
    /\ in_evt' = {"IN"}
    /\ NextItem
    /\ UNCHANGED <<running, written, closed, buffered, taken, flags, peerVars>>

-----------------------------------------------------------------------------
(* on_input: the handler of stdin. *)

\* zsock_ready
Ready == connected /\ Writable

\* The output is not ready: it is waited for, and the input no more.
InputWaits ==
    /\ Dispatching("stdin")
    /\ revents["stdin"] # {}
    /\ ~Ready
    /\ in_evt' = {}
    /\ evt' = {"OUT"}
    /\ NextItem
    /\ UNCHANGED <<running, written, closed, buffered, taken, flags, peerVars>>

\* The output is ready: the rest of the handler runs, the world goes on.
InputReady ==
    /\ Dispatching("stdin")
    /\ revents["stdin"] # {}
    /\ Ready
    /\ phase' = "handler"
    /\ UNCHANGED <<monitors, running, at, max, revents, inputVars, peerVars>>

StopAtEof == NextItem /\ running' = FALSE

\* A flag of stdin is set already.
InputEnded ==
    /\ phase = "handler"
    /\ flags # {}
    /\ StopAtEof
    /\ UNCHANGED <<inputVars, peerVars>>

\* Where a line that starts after character k may end.
LineEnds(k) == {i \in (k + 1)..Len(Text) : Text[i] = "nl" \/ i = k + LineMax}

HasLine == \E i \in LineEnds(taken) : i <= written

\* Where fgets stops: at the end of the line, or when read has no more.
LineEnd == IF HasLine THEN Min(LineEnds(taken)) ELSE written

\* stdio reads whole buffers, or all there is, until it has got to character k.
Filled(k) ==
    IF k <= buffered THEN buffered
    ELSE Min({f \in k..written : f = written \/ (f - buffered) % BufferSize = 0})

\* Mutant of fgets: what a failed read leaves is taken for the end of the text.
fgets_AlwaysFlags ==
    /\ buffered' = Filled(LineEnd)
    /\ taken' = LineEnd
    /\ flags' = IF LineEnd = written THEN {IF closed THEN "eof" ELSE "error"} ELSE {}

\* fgets returns a line, the beginning of one when no more can be read, or NULL.
\* A read that fails for now (EAGAIN) sets the error flag.
fgets ==
    /\ buffered' = Filled(LineEnd)
    /\ taken' = LineEnd
    /\ flags' = IF HasLine THEN {} ELSE {IF closed THEN "eof" ELSE "error"}

InputNull ==
    /\ phase = "handler"
    /\ flags = {}
    /\ LineEnd = taken
    /\ fgets
    /\ StopAtEof
    /\ UNCHANGED <<in_evt, evt, written, closed, peerVars>>

\* The line is sent on a connection that has room, or dropped by a PUB socket.
InputSent ==
    /\ phase = "handler"
    /\ flags = {}
    /\ LineEnd > taken
    /\ fgets
    /\ \/ lossy /\ UNCHANGED <<room, fading>>
       \/ room > 0 /\ room' = room - 1 /\ UNCHANGED fading
       \/ fading > 0 /\ fading' = fading - 1 /\ UNCHANGED room
    /\ NextItem
    /\ UNCHANGED <<running, in_evt, evt, written, closed, lossy, connected, adoptions>>

\* The assertion on the result of zmq_sendmsg fails.
InputAborts ==
    /\ phase = "handler"
    /\ flags = {}
    /\ LineEnd > taken
    /\ ~Writable
    /\ fgets
    /\ phase' = "aborted"
    /\ UNCHANGED <<monitors, running, at, max, revents>>
    /\ UNCHANGED <<in_evt, evt, written, closed, peerVars>>

on_input == InputWaits \/ InputReady \/ InputEnded \/ InputNull \/ InputSent \/ InputAborts

Environment == Write \/ Close \/ Consume \/ Terminate \/ sighandler_stop

\* The one thread of the process.
Process == PollAll \/ LeaveLoop \/ ProcessZk \/ SkipItem \/ zsock_handler \/ on_input

Next == Environment \/ Process \/ LoseZk

Spec == Init /\ [][Next]_vars

\* The thread is scheduled; the writer, the peers and the operator are free.
FairSpec == Spec /\ WF_vars(Process)

-----------------------------------------------------------------------------
TypeOK ==
    /\ LoopTypeOK
    /\ in_evt \subseteq {"IN"}
    /\ evt \subseteq {"OUT"}
    /\ written \in 0..Len(Text)
    /\ closed \in BOOLEAN
    /\ buffered \in 0..written
    /\ taken \in 0..buffered
    /\ flags \subseteq {"eof", "error"}
    /\ lossy \in BOOLEAN
    /\ connected \in BOOLEAN
    /\ room \in 0..HighWater
    /\ fading \in Nat
    /\ adoptions \in 0..MaxAdoptions

\* The reactor waits for the input or for the output, never for both (a busy
\* loop) and never for neither (a deaf process).
OneSideWaited == (in_evt = {"IN"} /\ evt = {}) \/ (in_evt = {} /\ evt = {"OUT"})

\* The writer writes whole lines, one or several at once, before the last one.
PausesAtLines == \A p \in Pauses : p = 0 \/ Text[p] = "nl"

\* The input is held to be over only when the writer has closed it.
EofIsReal == flags # {} => closed

\* The reactor leaves its loop once it was told to stop.
StopIsServed == ~running ~> phase \in {"exited", "aborted"}

\* The process ended without having seen the end of its input: a signal, the
\* loss of ZooKeeper, or the failed assertion.
Disrupted == phase = "aborted" \/ (phase = "exited" /\ flags = {})

\* When the writer closes and peers keep taking messages, all that was written
\* is sent, or published, before the process ends.
Drained ==
    <>closed /\ []<>(room > 0) => <>(Disrupted \/ (closed /\ taken = written))
=============================================================================
