--------------------------- MODULE PipeOutProofs ---------------------------
(* Theorems about PipeOut, and the lemmas they rest on. *)
EXTENDS PipeOut, ZReactorProofs

USE PipeOutAssumption

\* The constants are what the code's sizes are: at least one.
LEMMA Sizes ==
    /\ LineMax \in Nat /\ LineMax > 0
    /\ BufferSize \in Nat /\ BufferSize > 0
    /\ HighWater \in Nat /\ HighWater > 0
  OBVIOUS

\* A read never goes beyond what was written nor falls short of what it is for.
LEMMA FilledBounds ==
    ASSUME NEW k \in 0..written, written \in Nat, buffered \in 0..written
    PROVE  Filled(k) \in k..written /\ buffered <= Filled(k)
<1>1. CASE k <= buffered
  BY <1>1 DEF Filled
<1>2. CASE ~(k <= buffered)
  <2>. DEFINE S == {f \in k..written : f = written \/ (f - buffered) % BufferSize = 0}
  <2>1. written \in S /\ S \in SUBSET Nat
    OBVIOUS
  <2>2. Min(S) \in S
    BY <2>1, MinIsLeast
  <2>3. Filled(k) = Min(S)
    BY <1>2 DEF Filled
  <2>. QED
    BY <1>2, <2>2, <2>3
<1>. QED
  BY <1>1, <1>2

\* fgets returns what is between what it returned before and what was written.
LEMMA LineEndBounds ==
    ASSUME written \in 0..Len(Text), taken \in 0..written
    PROVE  /\ LineEnd \in taken..written
           /\ HasLine => LineEnd > taken
<1>1. Len(Text) \in Nat /\ written \in Nat /\ taken \in Nat
  BY LenProperties
<1>2. CASE ~HasLine
  BY <1>1, <1>2 DEF LineEnd
<1>3. CASE HasLine
  <2>1. LineEnds(taken) \in SUBSET Nat /\ LineEnds(taken) # {}
    BY <1>1, <1>3 DEF LineEnds, HasLine
  <2>2. PICK i \in LineEnds(taken) : i <= written
    BY <1>3 DEF HasLine
  <2>3. /\ Min(LineEnds(taken)) \in LineEnds(taken)
        /\ Min(LineEnds(taken)) <= i
    BY <2>1, <2>2, MinIsLeast
  <2>. DEFINE e == Min(LineEnds(taken))
  <2>4. e \in (taken + 1)..Len(Text) /\ e <= i /\ i \in Nat
    BY <2>1, <2>2, <2>3 DEF LineEnds
  <2>5. LineEnd = e
    BY <1>3 DEF LineEnd
  <2>. HIDE DEF e
  <2>. QED
    BY <1>1, <2>2, <2>4, <2>5
<1>. QED
  BY <1>2, <1>3

-----------------------------------------------------------------------------
(* The inductive invariant.                                                *)

\* Where the loop stands among its three items.
Loop ==
    /\ monitors = <<"zk", "zsock", "stdin">>
    /\ phase \in {"dispatch", "handler"} => max = 3
    /\ phase = "handler" => at = 3

\* What the poll reported of stdin still holds when its handler runs.
Reported ==
    phase \in {"dispatch", "handler"} =>
        /\ revents["stdin"] \subseteq {"IN", "ERR"}
        /\ "IN" \in revents["stdin"] => buffered < written
        /\ "ERR" \in revents["stdin"] => closed
        /\ phase = "handler" => revents["stdin"] # {}

PipeInv == TypeOK /\ Loop /\ Reported /\ OneSideWaited

\* The first poll waits for the socket to become writable.
LEMMA InitPipeInv == Init => PipeInv
<1>. SUFFICES ASSUME Init PROVE PipeInv
  OBVIOUS
<1>1. Len(Text) \in Nat
  BY LenProperties
<1>2. /\ <<"zk", "zsock", "stdin">> \in Seq(Monitor)
      /\ Len(<<"zk", "zsock", "stdin">>) = 3
  OBVIOUS
<1>3. Quiet \in [Monitor -> SUBSET Event]
  BY DEF Quiet
<1>4. LoopTypeOK /\ Loop
  BY <1>2, <1>3 DEF Init, ReactorInit, LoopTypeOK, Loop
<1>5. room \in 0..HighWater /\ adoptions \in 0..MaxAdoptions
  BY Sizes DEF Init
<1>6. written \in 0..Len(Text) /\ buffered \in 0..written /\ taken \in 0..buffered
  BY <1>1 DEF Init
<1>7. TypeOK
  BY <1>4, <1>5, <1>6 DEF Init, TypeOK
<1>. QED
  BY <1>4, <1>7 DEF Init, ReactorInit, PipeInv, Reported, OneSideWaited

\* Whatever a handler did, the loop goes on to an item of this pass or polls.
LEMMA NextItemKeeps ==
    ASSUME LoopTypeOK, Loop, phase \in {"dispatch", "handler"}, NextItem,
           running' \in BOOLEAN
    PROVE  /\ LoopTypeOK' /\ Loop'
           /\ phase' \in {"poll", "dispatch"}
           /\ phase' = "dispatch" => phase = "dispatch"
<1>1. Len(monitors) = 3 /\ max = 3 /\ at \in 1..3
  BY DEF LoopTypeOK, Loop
<1>2. CASE at < 3
  BY <1>1, <1>2 DEF NextItem, NextPlace, LoopTypeOK, Loop
<1>3. CASE at = 3
  BY <1>1, <1>3 DEF NextItem, NextPlace, LoopTypeOK, Loop
<1>. QED
  BY <1>1, <1>2, <1>3

\* The writer, the peers and the operator leave the loop where it is.
LEMMA EnvironmentKeeps ==
    ASSUME PipeInv, Environment
    PROVE  PipeInv'
<1>. USE DEF PipeInv
<1>1. Len(Text) \in Nat
  BY LenProperties
<1>2. CASE Write
  <2>1. PICK p \in Pauses : p > written /\ written' = p
    BY <1>2 DEF Write
  <2>2. p \in 0..Len(Text) /\ written \in 0..Len(Text)
    BY DEF TypeOK
  <2>3. written' \in 0..Len(Text) /\ written' > written
    BY <2>1, <2>2
  <2>. QED
    BY <1>1, <1>2, <2>2, <2>3
    DEF Write, loopVars, peerVars, TypeOK, LoopTypeOK, Loop, Reported, OneSideWaited
<1>3. CASE Close
  <2>1. written \in 0..Len(Text)
    BY DEF TypeOK
  <2>2. written' \in 0..Len(Text) /\ written' >= written
    BY <1>1, <1>3, <2>1 DEF Close
  <2>. QED
    BY <1>1, <1>3, <2>1, <2>2
    DEF Close, loopVars, peerVars, TypeOK, LoopTypeOK, Loop, Reported, OneSideWaited
<1>4. CASE Consume
  BY <1>4 DEF Consume, loopVars, inputVars, TypeOK, LoopTypeOK, Loop, Reported, OneSideWaited
<1>5. CASE Terminate
  BY <1>5 DEF Terminate, loopVars, inputVars, TypeOK, LoopTypeOK, Loop, Reported, OneSideWaited
<1>6. CASE sighandler_stop
  BY <1>6 DEF sighandler_stop, inputVars, peerVars, TypeOK, LoopTypeOK, Loop, Reported,
              OneSideWaited
<1>. QED
  BY <1>2, <1>3, <1>4, <1>5, <1>6 DEF Environment

\* A poll reports of stdin only what is true of it.
LEMMA PollKeeps ==
    ASSUME PipeInv, PollAll
    PROVE  PipeInv'
<1>. USE DEF PipeInv
<1>1. PICK zk \in SUBSET {"IN"} : Poll([Fired EXCEPT !["zk"] = zk])
  BY DEF PollAll
<1>. DEFINE fired == [Fired EXCEPT !["zk"] = zk]
<1>2. Fired \in [Monitor -> SUBSET Event]
  BY DEF Fired, TypeOK, Event
<1>3. fired \in [Monitor -> SUBSET Event] /\ fired["stdin"] = Fired["stdin"]
  BY <1>2 DEF Event
<1>4. /\ fired["stdin"] \subseteq {"IN", "ERR"}
      /\ "IN" \in fired["stdin"] => buffered < written
      /\ "ERR" \in fired["stdin"] => closed
  BY <1>3 DEF Fired, TypeOK
<1>. HIDE DEF fired
<1>5. /\ phase' = "dispatch" /\ at' = 1 /\ max' = Len(monitors) /\ revents' = fired
      /\ UNCHANGED <<monitors, running, inputVars, peerVars>>
  BY <1>1 DEF Poll, PollAll, fired
<1>6. Len(monitors) = 3
  BY DEF Loop
<1>7. LoopTypeOK' /\ Loop' /\ Reported'
  BY <1>3, <1>4, <1>5, <1>6 DEF LoopTypeOK, TypeOK, Loop, Reported, inputVars
<1>. QED
  BY <1>5, <1>7 DEF TypeOK, OneSideWaited, inputVars, peerVars

\* The handlers of the handle and of the socket, and the items skipped.
LEMMA HandlersKeep ==
    ASSUME PipeInv, LeaveLoop \/ ProcessZk \/ LoseZk \/ SkipItem \/ zsock_handler
    PROVE  PipeInv'
<1>. USE DEF PipeInv
<1>1. CASE LeaveLoop \/ LoseZk
  BY <1>1 DEF LeaveLoop, Leave, LoseZk, Fail, Dispatching, inputVars, peerVars, TypeOK,
              LoopTypeOK, Loop, Reported, OneSideWaited
<1>2. CASE ProcessZk
  <2>1. phase = "dispatch" /\ NextItem /\ running' = running /\ UNCHANGED inputVars
    BY <1>2 DEF ProcessZk, Dispatching
  <2>2. LoopTypeOK' /\ Loop'
    BY <2>1, NextItemKeeps DEF TypeOK, LoopTypeOK
  <2>3. connected' \in BOOLEAN /\ room' \in 0..HighWater /\ fading' \in Nat
          /\ adoptions' \in 0..MaxAdoptions
    <3>1. CASE UNCHANGED peerVars
      BY <3>1 DEF peerVars, TypeOK
    <3>2. CASE ~UNCHANGED peerVars
      <4>1. /\ adoptions < MaxAdoptions /\ adoptions' = adoptions + 1
            /\ connected' = TRUE
            /\ fading' = fading + room
            /\ room' = HighWater
        BY <1>2, <3>2 DEF ProcessZk
      <4>2. adoptions \in 0..MaxAdoptions /\ fading \in Nat /\ room \in 0..HighWater
        BY DEF TypeOK
      <4>3. room' \in 0..HighWater /\ fading' \in Nat
        BY <4>1, <4>2, Sizes
      <4>4. adoptions' \in 0..MaxAdoptions
        BY <4>1, <4>2
      <4>. QED
        BY <4>1, <4>3, <4>4
    <3>. QED
      BY <3>1, <3>2
  <2>4. lossy' = lossy
    BY <1>2 DEF ProcessZk, peerVars
  <2>. QED
    BY <2>1, <2>2, <2>3, <2>4, NextItemKeeps
    DEF TypeOK, LoopTypeOK, NextItem, NextPlace, Reported, OneSideWaited, inputVars
<1>3. CASE SkipItem
  <2>1. phase = "dispatch" /\ NextItem /\ running' = running
          /\ UNCHANGED <<inputVars, peerVars>>
    BY <1>3 DEF SkipItem, Skip, Dispatching
  <2>2. LoopTypeOK' /\ Loop'
    BY <2>1, NextItemKeeps DEF TypeOK, LoopTypeOK
  <2>. QED
    BY <2>1, <2>2, NextItemKeeps
    DEF TypeOK, LoopTypeOK, NextItem, NextPlace, Reported, OneSideWaited, inputVars, peerVars
<1>4. CASE zsock_handler
  <2>1. phase = "dispatch" /\ NextItem /\ running' = running
    BY <1>4 DEF zsock_handler, Dispatching
  <2>2. LoopTypeOK' /\ Loop'
    BY <2>1, NextItemKeeps DEF TypeOK, LoopTypeOK
  <2>3. evt' = {} /\ in_evt' = {"IN"}
    BY <1>4 DEF zsock_handler, TypeOK
  <2>. QED
    BY <1>4, <2>1, <2>2, <2>3, NextItemKeeps
    DEF zsock_handler, TypeOK, LoopTypeOK, NextItem, NextPlace, Reported, OneSideWaited, peerVars
<1>. QED
  BY <1>1, <1>2, <1>3, <1>4

\* The handler of stdin: fgets stays between what was taken and what was written.
LEMMA InputKeeps ==
    ASSUME PipeInv, on_input
    PROVE  PipeInv'
<1>. USE DEF PipeInv
<1>1. Len(Text) \in Nat
  BY LenProperties
<1>2. /\ written \in 0..Len(Text) /\ taken \in 0..written /\ buffered \in 0..written
      /\ written \in Nat /\ taken <= buffered
  BY <1>1 DEF TypeOK
<1>3. LineEnd \in taken..written
  BY <1>2, LineEndBounds
<1>4. Filled(LineEnd) \in LineEnd..written
  <2>1. LineEnd \in 0..written
    BY <1>2, <1>3
  <2>. QED
    BY <1>2, <2>1, FilledBounds
<1>5. ASSUME fgets, written' = written
      PROVE  /\ buffered' \in 0..written' /\ taken' \in 0..buffered'
             /\ flags' \subseteq {"eof", "error"}
  <2>1. buffered' = Filled(LineEnd) /\ taken' = LineEnd
    BY <1>5 DEF fgets
  <2>. QED
    BY <1>2, <1>3, <1>4, <1>5, <2>1 DEF fgets
<1>6. CASE InputWaits
  <2>1. phase = "dispatch" /\ NextItem /\ running' = running
    BY <1>6 DEF InputWaits, Dispatching
  <2>2. LoopTypeOK' /\ Loop'
    BY <2>1, NextItemKeeps DEF TypeOK, LoopTypeOK
  <2>. QED
    BY <1>6, <2>1, <2>2, NextItemKeeps
    DEF InputWaits, TypeOK, LoopTypeOK, NextItem, NextPlace, Reported, OneSideWaited, peerVars
<1>7. CASE InputReady
  <2>1. at = 3
    <3>1. monitors[at] = "stdin" /\ monitors = <<"zk", "zsock", "stdin">>
            /\ at \in 0..max /\ max = 3 /\ at > 0
      BY <1>7 DEF InputReady, Dispatching, Loop, TypeOK, LoopTypeOK
    <3>. QED
      BY <3>1
  <2>. QED
    BY <1>7, <2>1 DEF InputReady, Dispatching, inputVars, peerVars, TypeOK, LoopTypeOK, Loop,
                      Reported, OneSideWaited
<1>8. CASE InputEnded \/ InputNull
  <2>1. phase = "handler" /\ NextItem /\ running' = FALSE
    BY <1>8 DEF InputEnded, InputNull, StopAtEof
  <2>2. LoopTypeOK' /\ Loop' /\ phase' = "poll"
    BY <2>1, NextItemKeeps DEF TypeOK, LoopTypeOK
  <2>3. /\ buffered' \in 0..written' /\ taken' \in 0..buffered'
        /\ flags' \subseteq {"eof", "error"}
        /\ UNCHANGED <<in_evt, evt, written, closed, peerVars>>
    <3>1. CASE InputEnded
      BY <3>1, <1>2 DEF InputEnded, inputVars, TypeOK
    <3>2. CASE InputNull
      BY <3>2, <1>5 DEF InputNull
    <3>. QED
      BY <1>8, <3>1, <3>2
  <2>. QED
    BY <2>2, <2>3 DEF TypeOK, Reported, OneSideWaited, peerVars
<1>9. CASE InputSent
  <2>1. phase = "handler" /\ NextItem /\ running' = running
    BY <1>9 DEF InputSent
  <2>2. LoopTypeOK' /\ Loop' /\ phase' = "poll"
    BY <2>1, NextItemKeeps DEF TypeOK, LoopTypeOK
  <2>3. /\ buffered' \in 0..written' /\ taken' \in 0..buffered'
        /\ flags' \subseteq {"eof", "error"}
        /\ UNCHANGED <<in_evt, evt, written, closed, lossy, connected, adoptions>>
    BY <1>9, <1>5 DEF InputSent
  <2>4. room' \in 0..HighWater /\ fading' \in Nat
    BY <1>9, Sizes DEF InputSent, TypeOK
  <2>. QED
    BY <2>2, <2>3, <2>4 DEF TypeOK, Reported, OneSideWaited
<1>10. CASE InputAborts
  <2>1. /\ buffered' \in 0..written' /\ taken' \in 0..buffered'
        /\ flags' \subseteq {"eof", "error"}
        /\ phase' = "aborted"
        /\ UNCHANGED <<monitors, running, at, max, revents>>
        /\ UNCHANGED <<in_evt, evt, written, closed, peerVars>>
    BY <1>10, <1>5 DEF InputAborts
  <2>. QED
    BY <2>1 DEF TypeOK, LoopTypeOK, Loop, Reported, OneSideWaited, peerVars
<1>. QED
  BY <1>6, <1>7, <1>8, <1>9, <1>10 DEF on_input

\* The inductive step.
LEMMA NextPipeInv == PipeInv /\ [Next]_vars => PipeInv'
<1>. SUFFICES ASSUME PipeInv, [Next]_vars PROVE PipeInv'
  OBVIOUS
<1>1. CASE UNCHANGED vars
  BY <1>1 DEF vars, loopVars, inputVars, peerVars, PipeInv, TypeOK, LoopTypeOK, Loop, Reported,
              OneSideWaited
<1>. QED
  BY <1>1, EnvironmentKeeps, PollKeeps, HandlersKeep, InputKeeps DEF Next, Process

\* The invariant holds in every reachable state.
LEMMA PipeInvHolds == Spec => []PipeInv
  BY InitPipeInv, NextPipeInv, PTL DEF Spec

\* on_input and fgets never return a character twice, nor one that was not
\* written, whatever the sizes of the buffers.
THEOREM TypeCorrect == Spec => []TypeOK
<1>1. PipeInv => TypeOK
  BY DEF PipeInv
<1>. QED
  BY <1>1, PipeInvHolds, PTL

\* The reactor never waits for both sides nor for neither: _manage_out and
\* _wait_for_output hand over to each other.
THEOREM OneSideIsWaited == Spec => []OneSideWaited
<1>1. PipeInv => OneSideWaited
  BY DEF PipeInv
<1>. QED
  BY <1>1, PipeInvHolds, PTL

-----------------------------------------------------------------------------
\* Until it closes, the writer stops at the end of a line only.
Whole == closed \/ written = 0 \/ Text[written] = "nl"

\* With whole lines, the handler of stdin has a line to return, or the writer
\* has closed: fgets never fails for now.
LEMMA NextEofIsReal ==
    ASSUME PausesAtLines, PipeInv, Whole, EofIsReal, [Next]_vars
    PROVE  Whole' /\ EofIsReal'
<1>1. Len(Text) \in Nat
  BY LenProperties
<1>2. Whole'
  <2>1. CASE Write
    <3>1. PICK p \in Pauses : p > written /\ written' = p
      BY <2>1 DEF Write
    <3>2. p # 0 /\ written \in Nat
      BY <1>1, <3>1 DEF PipeInv, TypeOK
    <3>. QED
      BY <3>1, <3>2 DEF PausesAtLines, Whole
  <2>2. CASE Close
    BY <2>2 DEF Close, Whole
  <2>3. CASE ~Write /\ ~Close
    <3>1. written' = written /\ closed' = closed
      BY <2>3 DEF Next, Environment, Process, Consume, Terminate, sighandler_stop,
         PollAll, LeaveLoop, ProcessZk, LoseZk, SkipItem, zsock_handler, on_input, InputWaits,
         InputReady, InputEnded, InputNull, InputSent, InputAborts, vars, inputVars
    <3>. QED
      BY <3>1 DEF Whole
  <2>. QED
    BY <2>1, <2>2, <2>3
<1>3. EofIsReal'
  <2>1. CASE InputNull \/ InputSent \/ InputAborts
    <3>1. phase = "handler" /\ fgets /\ closed' = closed
      BY <2>1 DEF InputNull, InputSent, InputAborts
    <3>2. CASE closed
      BY <3>1, <3>2 DEF EofIsReal
    <3>3. CASE ~closed
      <4>1. buffered < written
        BY <3>1, <3>3 DEF PipeInv, Reported
      <4>2. written \in taken + 1..Len(Text) /\ Text[written] = "nl"
        BY <1>1, <3>3, <4>1 DEF PipeInv, TypeOK, Whole
      <4>3. HasLine
        BY <1>1, <4>2 DEF HasLine, LineEnds
      <4>. QED
        BY <3>1, <4>3 DEF fgets, EofIsReal
    <3>. QED
      BY <3>2, <3>3
  <2>2. CASE ~(InputNull \/ InputSent \/ InputAborts)
    <3>1. flags' = flags /\ (closed => closed')
      BY <2>2 DEF Next, Environment, Process, Write, Close, Consume, Terminate,
         sighandler_stop, PollAll, LeaveLoop, ProcessZk, LoseZk, SkipItem, zsock_handler,
         on_input, InputWaits, InputReady, InputEnded, vars, inputVars
    <3>. QED
      BY <3>1 DEF EofIsReal
  <2>. QED
    BY <2>1, <2>2
<1>. QED
  BY <1>2, <1>3

\* A writer of whole lines is never cut short: stdin is held to be over only
\* when it is, whatever the sizes of the lines, the buffers and the writes.
THEOREM WholeLinesAreRead ==
    ASSUME PausesAtLines
    PROVE  Spec => []EofIsReal
<1>1. Init => Whole /\ EofIsReal
  BY DEF Init, Whole, EofIsReal
<1>2. PipeInv /\ (Whole /\ EofIsReal) /\ [Next]_vars => (Whole /\ EofIsReal)'
  BY NextEofIsReal
<1>. QED
  BY <1>1, <1>2, PipeInvHolds, PTL DEF Spec
=============================================================================
