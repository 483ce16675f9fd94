---------------------------- MODULE PipeInProofs ----------------------------
(* Theorems about PipeIn, and the lemmas they rest on. *)
EXTENDS PipeIn, ZReactorProofs

USE PipeInAssumption

\* Where the loop stands among its three items.
Loop ==
    /\ monitors = <<"zk", "zsock", "stdout">>
    /\ phase \in {"dispatch", "handler"} => max = 3
    /\ phase = "handler" => at = 2

\* The inductive invariant: the buffer of stdio is empty outside the handler,
\* and the handler only flushes while it runs.
PipeInv == TypeOK /\ Loop /\ NothingWithheld

\* The constants are sizes of at least one.
LEMMA Sizes ==
    /\ QueueMax \in Nat /\ QueueMax > 0
    /\ BufferSize \in Nat /\ BufferSize > 0
    /\ PipeMax \in Nat /\ PipeMax > 0
  OBVIOUS

\* The first poll finds everything empty.
LEMMA InitPipeInv == Init => PipeInv
<1>. SUFFICES ASSUME Init PROVE PipeInv
  OBVIOUS
<1>1. /\ <<"zk", "zsock", "stdout">> \in Seq(Monitor)
      /\ Len(<<"zk", "zsock", "stdout">>) = 3
  OBVIOUS
<1>2. Quiet \in [Monitor -> SUBSET Event]
  BY DEF Quiet
<1>3. LoopTypeOK /\ Loop
  BY <1>1, <1>2 DEF Init, ReactorInit, LoopTypeOK, Loop
<1>. QED
  BY <1>3, Sizes DEF Init, TypeOK, PipeInv, NothingWithheld

\* Whatever a handler did, the loop goes on to an item of this pass or polls.
LEMMA NextItemKeeps ==
    ASSUME LoopTypeOK, Loop, phase \in {"dispatch", "handler"}, NextItem,
           running' \in BOOLEAN
    PROVE  LoopTypeOK' /\ Loop' /\ phase' \in {"poll", "dispatch"}
<1>1. Len(monitors) = 3 /\ max = 3 /\ at \in 1..3
  BY DEF LoopTypeOK, Loop
<1>2. CASE at < 3
  BY <1>1, <1>2 DEF NextItem, NextPlace, LoopTypeOK, Loop
<1>3. CASE at = 3
  BY <1>1, <1>3 DEF NextItem, NextPlace, LoopTypeOK, Loop
<1>. QED
  BY <1>1, <1>2, <1>3

\* The peers, the reader and the operator leave the loop and the buffer alone.
LEMMA EnvironmentKeeps ==
    ASSUME PipeInv, Environment
    PROVE  PipeInv'
<1>. USE Sizes DEF PipeInv, TypeOK, LoopTypeOK, Loop, NothingWithheld
<1>1. CASE Arrive
  BY <1>1 DEF Arrive, loopVars
<1>2. CASE Read
  BY <1>2 DEF Read, loopVars
<1>3. CASE CloseReader
  BY <1>3 DEF CloseReader, loopVars
<1>4. CASE sighandler_stop
  BY <1>4 DEF sighandler_stop, dataVars
<1>. QED
  BY <1>1, <1>2, <1>3, <1>4 DEF Environment

\* A poll, and the steps that call no handler or one that changes nothing.
LEMMA ReactorKeeps ==
    ASSUME PipeInv,
           PollAll \/ LeaveLoop \/ ProcessZk \/ LoseZk \/ SkipItem \/ zsock_handler \/ on_output
    PROVE  PipeInv'
<1>. USE DEF PipeInv
<1>1. CASE PollAll
  <2>1. PICK zk \in SUBSET {"IN"} : Poll([Fired EXCEPT !["zk"] = zk])
    BY <1>1 DEF PollAll
  <2>2. Fired \in [Monitor -> SUBSET Event]
    BY DEF Fired, TypeOK, Event
  <2>3. [Fired EXCEPT !["zk"] = zk] \in [Monitor -> SUBSET Event]
    BY <2>2 DEF Event
  <2>. DEFINE fired == [Fired EXCEPT !["zk"] = zk]
  <2>4. fired \in [Monitor -> SUBSET Event] /\ Poll(fired)
    BY <2>1, <2>3
  <2>. HIDE DEF fired
  <2>5. Len(monitors) = 3
    BY DEF Loop
  <2>6. LoopTypeOK' /\ Loop' /\ phase' = "dispatch" /\ phase = "poll"
    BY <2>4, <2>5 DEF Poll, Loop, TypeOK, LoopTypeOK
  <2>. QED
    BY <1>1, <2>6 DEF PollAll, dataVars, TypeOK, NothingWithheld
<1>2. CASE LeaveLoop \/ LoseZk
  <2>1. /\ phase \in {"poll", "dispatch"} /\ phase' = "exited"
        /\ UNCHANGED <<monitors, running, at, max, revents, dataVars>>
    BY <1>2 DEF LeaveLoop, Leave, LoseZk, Fail, Dispatching
  <2>2. LoopTypeOK' /\ Loop'
    BY <2>1 DEF TypeOK, LoopTypeOK, Loop
  <2>. QED
    BY <2>1, <2>2 DEF dataVars, TypeOK, NothingWithheld
<1>3. CASE ProcessZk \/ SkipItem \/ on_output
  <2>1. phase = "dispatch" /\ NextItem /\ running' = running /\ UNCHANGED dataVars
    BY <1>3 DEF ProcessZk, SkipItem, on_output, Skip, Dispatching, dataVars
  <2>2. LoopTypeOK' /\ Loop' /\ phase' \in {"poll", "dispatch"}
    BY <2>1, NextItemKeeps DEF TypeOK, LoopTypeOK
  <2>. QED
    BY <2>1, <2>2 DEF dataVars, TypeOK, NothingWithheld
<1>4. CASE zsock_handler
  <2>1. phase = "dispatch" /\ monitors[at] = "zsock"
    BY <1>4 DEF zsock_handler, Dispatching
  <2>2. at \in 1..3 /\ at = 2
    BY <2>1 DEF TypeOK, LoopTypeOK, Loop
  <2>3. phase' = "handler" /\ UNCHANGED <<monitors, running, at, max, revents, dataVars>>
    BY <1>4 DEF zsock_handler
  <2>4. LoopTypeOK' /\ Loop'
    BY <2>1, <2>2, <2>3 DEF TypeOK, LoopTypeOK, Loop
  <2>. QED
    BY <2>3, <2>4 DEF dataVars, TypeOK, NothingWithheld
<1>. QED
  BY <1>1, <1>2, <1>3, <1>4

\* _manage_in returns to the loop only once it has flushed everything.
LEMMA ManageInKeeps ==
    ASSUME PipeInv, _manage_in
    PROVE  PipeInv'
<1>. USE Sizes DEF PipeInv, NothingWithheld
<1>1. CASE Receive
  BY <1>1 DEF Receive, loopVars, TypeOK, LoopTypeOK, Loop
<1>2. CASE NothingMore
  BY <1>2 DEF NothingMore, loopVars, TypeOK, LoopTypeOK, Loop
<1>3. CASE WriteOut
  BY <1>3 DEF WriteOut, Writing, loopVars, TypeOK, LoopTypeOK, Loop
<1>4. CASE BrokenPipe
  BY <1>4 DEF BrokenPipe, Writing, dataVars, TypeOK, LoopTypeOK, Loop
<1>5. CASE Flushed
  <2>1. phase = "handler" /\ NextItem /\ running' = running /\ buffered = 0
    BY <1>5 DEF Flushed
  <2>2. LoopTypeOK' /\ Loop' /\ phase' \in {"poll", "dispatch"}
    BY <2>1, NextItemKeeps DEF TypeOK, LoopTypeOK
  <2>. QED
    BY <1>5, <2>1, <2>2 DEF Flushed, TypeOK
<1>. QED
  BY <1>1, <1>2, <1>3, <1>4, <1>5 DEF _manage_in

\* Every step of the tool or of its environment keeps the invariant.
LEMMA NextPipeInv == PipeInv /\ [Next]_vars => PipeInv'
<1>. SUFFICES ASSUME PipeInv, [Next]_vars PROVE PipeInv'
  OBVIOUS
<1>1. CASE UNCHANGED vars
  BY <1>1 DEF vars, loopVars, dataVars, PipeInv, TypeOK, LoopTypeOK, Loop, NothingWithheld
<1>. QED
  BY <1>1, EnvironmentKeeps, ReactorKeeps, ManageInKeeps DEF Next, Process

\* The invariant holds in every reachable state.
LEMMA PipeInvHolds == Spec => []PipeInv
  BY InitPipeInv, NextPipeInv, PTL DEF Spec

\* The queue, the buffer and the pipe stay within their sizes, and the loop of
\* zreactor_run within its items, whatever the sizes.
THEOREM TypeCorrect == Spec => []TypeOK
<1>1. PipeInv => TypeOK
  BY DEF PipeInv
<1>. QED
  BY <1>1, PipeInvHolds, PTL

\* _manage_in never leaves a frame in the buffer of stdio: no stop, nor loss of
\* ZooKeeper, comes between a receive and the flush.
THEOREM NothingIsWithheld == Spec => []NothingWithheld
<1>1. PipeInv => NothingWithheld
  BY DEF PipeInv
<1>. QED
  BY <1>1, PipeInvHolds, PTL
=============================================================================
