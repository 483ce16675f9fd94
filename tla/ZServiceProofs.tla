--------------------------- MODULE ZServiceProofs ---------------------------
(* Theorems about ZService, and the lemmas they rest on. *)
EXTENDS ZService, ZReactorProofs

USE ZServiceAssumption

\* The messages that have reached the socket are whole.
WholeArrivals == arrived > 0 => ~Flow[arrived]

\* The handle is always monitored.
Monitored == monitors # <<>>

ServiceInv == TypeOK /\ Monitored /\ WholeArrivals /\ MessagesStayWhole

LEMMA InitServiceInv == Init => ServiceInv
<1>. SUFFICES ASSUME Init PROVE ServiceInv
  OBVIOUS
<1>1. Len(Flow) \in Nat
  BY LenProperties
<1>2. <<"zk">> \in Seq(Monitor) /\ Len(<<"zk">>) = 1 /\ <<"zk">> # <<>>
  OBVIOUS
<1>3. Quiet \in [Monitor -> SUBSET Event]
  BY DEF Quiet
<1>4. LoopTypeOK /\ Monitored
  BY <1>2, <1>3 DEF Init, ReactorInit, LoopTypeOK, Monitored
<1>5. TypeOK
  <2>1. expired \in BOOLEAN
    BY DEF Init
  <2>2. /\ config = "asked" /\ ztype = "none" /\ evt = [s \in Socket |-> {}]
        /\ arrived = 0 /\ taken = 0 /\ held = 0 /\ sent = <<>> /\ room = 0
    BY DEF Init
  <2>. QED
    BY <1>1, <1>4, <2>1, <2>2 DEF TypeOK, Socket
<1>6. sent = <<>> /\ Len(<<>>) = 0 /\ taken = 0 /\ held = 0 /\ arrived = 0
  BY DEF Init
<1>7. MessagesStayWhole
  BY <1>6 DEF MessagesStayWhole, MidMessage
<1>. QED
  BY <1>5, <1>4, <1>6, <1>7 DEF ServiceInv, WholeArrivals

\* What MessagesStayWhole says survives a step that moves no frame and does not
\* leave the handler.
LEMMA NoFrameMoves ==
    ASSUME MessagesStayWhole, WholeArrivals, UNCHANGED <<arrived, taken, held, sent>>,
           phase' = phase \/ phase # "handler" \/ phase' = "aborted",
           phase \in {"poll", "dispatch", "handler"}
    PROVE  MessagesStayWhole' /\ WholeArrivals'
  BY DEF MessagesStayWhole, WholeArrivals, MidMessage

\* Peers, messages and signals come in the middle of whatever the loop does.
LEMMA EnvironmentKeepsService ==
    ASSUME ServiceInv, Environment
    PROVE  ServiceInv'
<1>. USE DEF ServiceInv
<1>1. CASE Arrive
  <2>. DEFINE Ends == {k \in (arrived + 1)..Len(Flow) : ~Flow[k]}
  <2>1. Len(Flow) \in Nat /\ arrived \in 0..Len(Flow) /\ arrived < Len(Flow)
    BY <1>1, LenProperties DEF Arrive, TypeOK
  <2>2. Len(Flow) \in Ends /\ Ends \in SUBSET Nat
    BY <2>1
  <2>3. Min(Ends) \in Ends
    BY <2>2, MinIsLeast
  <2>4. arrived' \in Ends
    BY <1>1, <2>3 DEF Arrive
  <2>5. arrived' \in 0..Len(Flow) /\ arrived' > arrived /\ WholeArrivals'
    BY <2>1, <2>4 DEF WholeArrivals
  <2>. HIDE DEF Ends
  <2>6. TypeOK' /\ Monitored'
    BY <1>1, <2>1, <2>5 DEF Arrive, loopVars, TypeOK, LoopTypeOK, Monitored
  <2>. QED
    BY <1>1, <2>5, <2>6 DEF Arrive, loopVars, MessagesStayWhole, MidMessage
<1>2. CASE PeersMove
  <2>1. TypeOK' /\ Monitored'
    BY <1>2 DEF PeersMove, loopVars, TypeOK, LoopTypeOK, Monitored
  <2>. QED
    BY <1>2, <2>1 DEF PeersMove, loopVars, MessagesStayWhole, MidMessage, WholeArrivals
<1>3. CASE sighandler_stop
  <2>1. TypeOK' /\ Monitored'
    BY <1>3 DEF sighandler_stop, flowVars, TypeOK, LoopTypeOK, Monitored
  <2>. QED
    BY <1>3, <2>1 DEF sighandler_stop, flowVars, MessagesStayWhole, MidMessage, WholeArrivals
<1>4. CASE Expire
  <2>1. TypeOK' /\ Monitored'
    BY <1>4 DEF Expire, loopVars, flowVars, TypeOK, LoopTypeOK, Monitored
  <2>. QED
    BY <1>4, <2>1 DEF Expire, loopVars, flowVars, MessagesStayWhole, MidMessage, WholeArrivals
<1>. QED
  BY <1>1, <1>2, <1>3, <1>4 DEF Environment

\* The loop itself, and the answers of ZooKeeper.
LEMMA LoopKeepsService ==
    ASSUME ServiceInv,
           \/ PollAll \/ LeaveLoop \/ ProcessZk \/ SkipItem \/ OutIsReady \/ InIsReady
           \/ Configure \/ Misconfigure \/ LoseConfig \/ LoseZk
    PROVE  ServiceInv'
<1>. USE DEF ServiceInv
<1>1. LoopTypeOK
  BY DEF TypeOK
<1>2. CASE PollAll
  <2>1. PICK zk \in SUBSET {"IN"} : Poll([Fired EXCEPT !["zk"] = zk])
    BY <1>2 DEF PollAll
  <2>2. Fired \in [Monitor -> SUBSET Event]
    BY DEF Fired, TypeOK, Event
  <2>. DEFINE fired == [Fired EXCEPT !["zk"] = zk]
  <2>3. fired \in [Monitor -> SUBSET Event]
    BY <2>2 DEF Event
  <2>. HIDE DEF fired
  <2>4. Poll(fired) /\ phase = "poll"
    BY <2>1 DEF fired, Poll
  <2>5. LoopTypeOK' /\ phase' = "dispatch" /\ monitors' = monitors
    BY <1>1, <2>3, <2>4, PollKeepsLoop DEF Monitored, Poll
  <2>6. UNCHANGED <<config, expired, ztype, evt, flowVars>>
    BY <1>2 DEF PollAll
  <2>7. TypeOK' /\ Monitored'
    BY <2>5, <2>6 DEF TypeOK, flowVars, Monitored
  <2>. QED
    BY <2>4, <2>5, <2>6, <2>7, NoFrameMoves DEF flowVars
<1>3. CASE LeaveLoop \/ LoseZk \/ Misconfigure \/ InIsReady
  <2>1. TypeOK' /\ Monitored' /\ phase \in {"poll", "dispatch"}
    BY <1>3 DEF LeaveLoop, Leave, LoseZk, Fail, Misconfigure, InIsReady, Dispatching,
                flowVars, TypeOK, LoopTypeOK, Monitored
  <2>2. UNCHANGED flowVars
    BY <1>3 DEF LeaveLoop, LoseZk, Misconfigure, InIsReady
  <2>. QED
    BY <2>1, <2>2, NoFrameMoves DEF flowVars
<1>4. CASE ProcessZk \/ SkipItem \/ OutIsReady \/ LoseConfig
  <2>1. phase = "dispatch" /\ NextItem /\ UNCHANGED <<running, expired, ztype, flowVars>>
    BY <1>4 DEF ProcessZk, SkipItem, Skip, OutIsReady, LoseConfig, Dispatching
  <2>2. config' \in {"asked", "done", "lost"} /\ evt' \in [Socket -> SUBSET {"IN", "OUT"}]
    BY <1>4 DEF ProcessZk, SkipItem, OutIsReady, LoseConfig, TypeOK
  <2>3. monitors' = monitors /\ NextPlace /\ running' \in BOOLEAN
    BY <1>1, <2>1 DEF NextItem, LoopTypeOK
  <2>4. Len(monitors') >= Len(monitors) /\ monitors' \in Seq(Monitor)
    BY <1>1, <2>3, LenProperties DEF LoopTypeOK
  <2>5. LoopTypeOK'
    BY <1>1, <2>1, <2>3, <2>4, NextPlaceKeeps
  <2>6. TypeOK' /\ Monitored'
    BY <2>1, <2>2, <2>3, <2>5 DEF TypeOK, flowVars, Monitored
  <2>. QED
    BY <2>1, <2>6, NoFrameMoves DEF flowVars
<1>5. CASE Configure
  <2>. DEFINE items == <<"_tick", "in", "out">>
  <2>1. phase = "dispatch" /\ NextPlace /\ UNCHANGED <<running, flowVars>>
          /\ monitors' = monitors \o items
    BY <1>5 DEF Configure, Dispatching, NextItemAfterAdding
  <2>2. monitors \in Seq(Monitor) /\ items \in Seq(Monitor)
    BY <1>1 DEF LoopTypeOK
  <2>. HIDE DEF items
  <2>3. /\ monitors' \in Seq(Monitor)
        /\ Len(monitors') = Len(monitors) + Len(items)
        /\ Len(monitors) \in Nat /\ Len(items) \in Nat
    BY <2>1, <2>2, ConcatProperties, LenProperties
  <2>4. Len(monitors') >= Len(monitors)
    BY <2>3
  <2>5. running' \in BOOLEAN
    BY <1>1, <2>1 DEF LoopTypeOK
  <2>6. LoopTypeOK'
    BY <1>1, <2>1, <2>3, <2>4, <2>5, NextPlaceKeeps
  <2>7. Monitored'
    <3>1. Len(monitors) > 0
      BY <2>2, <2>3, EmptySeq DEF Monitored
    <3>2. Len(monitors') > 0
      BY <2>3, <3>1
    <3>. QED
      BY <2>3, <3>2, EmptySeq DEF Monitored
  <2>8. TypeOK'
    BY <1>5, <2>1, <2>6 DEF Configure, TypeOK, flowVars, Socket
  <2>. QED
    BY <2>1, <2>7, <2>8, NoFrameMoves DEF flowVars
<1>. QED
  BY <1>2, <1>3, <1>4, <1>5

\* The loop of _on_event_in: one frame at a time, its flag with it.
LEMMA HandlerKeepsService ==
    ASSUME ServiceInv, _on_event_in
    PROVE  ServiceInv'
<1>. USE DEF ServiceInv
<1>1. /\ Len(Flow) \in Nat /\ arrived \in 0..Len(Flow) /\ taken \in 0..arrived
      /\ held \in {0, taken}
      /\ sent \in Seq([frame : 1..Len(Flow), more : BOOLEAN]) /\ Len(sent) \in Nat
  BY LenProperties DEF TypeOK
<1>2. LoopTypeOK
  BY DEF TypeOK
<1>3. CASE Receive
  <2>1. taken' = taken + 1 /\ held' = taken + 1 /\ held = 0 /\ taken < arrived
          /\ UNCHANGED <<loopVars, config, expired, ztype, evt, arrived, sent, room>>
          /\ phase = "handler"
    BY <1>3 DEF Receive
  <2>2. TypeOK' /\ Monitored' /\ WholeArrivals'
    BY <1>1, <2>1 DEF loopVars, TypeOK, LoopTypeOK, Monitored, WholeArrivals
  <2>. QED
    BY <1>1, <2>1, <2>2 DEF loopVars, MessagesStayWhole, MidMessage
<1>4. CASE NothingMore
  <2>1. /\ phase = "handler" /\ held = 0 /\ taken = arrived
        /\ NextPlace /\ monitors' = monitors
        /\ UNCHANGED <<running, config, expired, ztype, evt, flowVars>>
    BY <1>4 DEF NothingMore, NextItem
  <2>2. Len(monitors') >= Len(monitors) /\ monitors' \in Seq(Monitor) /\ running' \in BOOLEAN
    BY <1>2, <2>1, LenProperties DEF LoopTypeOK
  <2>3. LoopTypeOK'
    BY <1>2, <2>1, <2>2, NextPlaceKeeps
  <2>4. ~MidMessage
    <3>1. CASE sent = <<>>
      BY <3>1 DEF MidMessage
    <3>2. CASE sent # <<>>
      <4>1. Len(sent) = arrived /\ Len(sent) \in DOMAIN sent
        BY <1>1, <2>1, <3>2, EmptySeq, LenProperties DEF MessagesStayWhole
      <4>2. sent[Len(sent)] = [frame |-> arrived, more |-> Flow[arrived]]
        BY <4>1 DEF MessagesStayWhole
      <4>3. arrived > 0
        BY <1>1, <3>2, <4>1, EmptySeq
      <4>. QED
        BY <4>2, <4>3 DEF MidMessage, WholeArrivals
    <3>. QED
      BY <3>1, <3>2
  <2>5. TypeOK' /\ Monitored'
    BY <2>1, <2>3 DEF TypeOK, flowVars, Monitored
  <2>. QED
    BY <2>1, <2>4, <2>5 DEF flowVars, MessagesStayWhole, MidMessage, WholeArrivals
<1>5. CASE SendFrame
  <2>. DEFINE f == [frame |-> held, more |-> Flow[held]]
  <2>1. /\ phase = "handler" /\ held > 0 /\ held' = 0 /\ sent' = Append(sent, f)
        /\ UNCHANGED <<loopVars, config, expired, ztype, evt, arrived, taken>>
    BY <1>5 DEF SendFrame, SendFlags
  <2>2. held = taken /\ taken \in 1..Len(Flow) /\ Len(sent) = taken - 1
    BY <1>1, <2>1 DEF MessagesStayWhole
  <2>3. f \in [frame : 1..Len(Flow), more : BOOLEAN]
    BY <2>2
  <2>4. /\ sent' \in Seq([frame : 1..Len(Flow), more : BOOLEAN])
        /\ Len(sent') = taken
        /\ \A k \in 1..(taken - 1) : sent'[k] = sent[k]
        /\ sent'[taken] = f
    BY <1>1, <2>1, <2>2, <2>3, AppendProperties
  <2>5. room' \in 0..HighWater
    BY <1>5 DEF SendFrame, TypeOK
  <2>6. TypeOK' /\ Monitored' /\ WholeArrivals'
    BY <2>1, <2>4, <2>5 DEF loopVars, TypeOK, LoopTypeOK, Monitored, WholeArrivals
  <2>7. \A k \in DOMAIN sent' : sent'[k] = [frame |-> k, more |-> Flow[k]]
    <3>1. DOMAIN sent' = 1..taken /\ DOMAIN sent = 1..(taken - 1)
      BY <1>1, <2>2, <2>4, LenProperties
    <3>. QED
      BY <2>2, <2>4, <3>1 DEF MessagesStayWhole
  <2>8. phase' = "handler" /\ held' = 0 /\ taken' = taken /\ Len(sent') = taken'
    BY <2>1, <2>4 DEF loopVars
  <2>. QED
    BY <2>6, <2>7, <2>8 DEF MessagesStayWhole
<1>6. CASE SendRefused
  <2>1. phase = "handler" /\ phase' = "aborted" /\ UNCHANGED flowVars
    BY <1>6 DEF SendRefused
  <2>2. TypeOK' /\ Monitored'
    BY <1>6 DEF SendRefused, flowVars, TypeOK, LoopTypeOK, Monitored
  <2>. QED
    BY <2>1, <2>2, NoFrameMoves DEF flowVars
<1>. QED
  BY <1>3, <1>4, <1>5, <1>6 DEF _on_event_in

\* Every reachable state of the service satisfies the invariant.
LEMMA ServiceInvHolds == Spec => []ServiceInv
<1>1. ServiceInv /\ [Next]_vars => ServiceInv'
  <2>. SUFFICES ASSUME ServiceInv, [Next]_vars PROVE ServiceInv'
    OBVIOUS
  <2>1. CASE Next
    BY <2>1, EnvironmentKeepsService, LoopKeepsService, HandlerKeepsService
    DEF Next, Process
  <2>2. CASE UNCHANGED vars
    BY <2>2 DEF vars, loopVars, flowVars, ServiceInv, TypeOK, LoopTypeOK, Monitored,
                WholeArrivals, MessagesStayWhole, MidMessage
  <2>. QED
    BY <2>1, <2>2
<1>. QED
  BY <1>1, InitServiceInv, PTL DEF Spec

\* The loop, the counters of frames and the room of the connections stay within
\* their bounds (zreactor.c:188-203, main_service.c:45-67).
THEOREM TypeCorrect == Spec => []TypeOK
<1>1. ServiceInv => TypeOK
  BY DEF ServiceInv
<1>. QED
  BY <1>1, ServiceInvHolds, PTL

\* The service sends the frames it received, in their order and with their
\* flags, and returns to the reactor on whole messages only, for any flow and
\* any capacity (main_service.c:45-67).
THEOREM MessagesAreReplicatedWhole == Spec => []MessagesStayWhole
<1>1. ServiceInv => MessagesStayWhole
  BY DEF ServiceInv
<1>. QED
  BY <1>1, ServiceInvHolds, PTL

\* The assertion on the results of a relay may fail only with a PUSH output. It
\* is a matter of the invariant too: a process that is aborted elsewhere than in
\* the handler has no frame in hand.
LEMMA PubIsNotRefused ==
    ASSUME ServiceInv, ztype = "PUB" => SendSucceeds, [Next]_vars
    PROVE  (ztype = "PUB" => SendSucceeds)'
<1>. SUFFICES ASSUME ztype' = "PUB", phase' = "aborted", held' > 0
              PROVE  FALSE
  BY DEF SendSucceeds
<1>. USE DEF ServiceInv
<1>1. phase \in {"poll", "dispatch", "exited"} => held = 0
  BY DEF MessagesStayWhole
<1>2. CASE SendRefused
  BY <1>2 DEF SendRefused, Accepted, Writable
<1>3. CASE Environment \/ UNCHANGED vars
  <2>1. UNCHANGED <<phase, ztype, held>>
    BY <1>3 DEF Environment, Arrive, PeersMove, sighandler_stop, Expire, vars, loopVars, flowVars
  <2>. QED
    BY <2>1 DEF SendSucceeds
<1>4. CASE PollAll \/ LeaveLoop \/ InIsReady \/ Receive \/ SendFrame
  <2>1. phase' # "aborted"
    BY <1>4 DEF PollAll, Poll, LeaveLoop, Leave, InIsReady, Receive, SendFrame, loopVars
  <2>. QED
    BY <2>1
<1>5. CASE ProcessZk \/ SkipItem \/ OutIsReady \/ Configure \/ LoseConfig \/ NothingMore
  <2>1. NextPlace
    BY <1>5 DEF ProcessZk, SkipItem, Skip, OutIsReady, Configure, LoseConfig, NothingMore,
                NextItem, NextItemAfterAdding
  <2>. QED
    BY <2>1 DEF NextPlace
<1>6. CASE Misconfigure \/ LoseZk
  <2>1. phase = "dispatch" /\ held' = held
    BY <1>6 DEF Misconfigure, LoseZk, Fail, Dispatching, flowVars
  <2>. QED
    BY <1>1, <2>1
<1>. QED
  BY <1>2, <1>3, <1>4, <1>5, <1>6 DEF Next, Process, _on_event_in

\* A service whose "out" is a PUB socket never fails the assertion on the
\* results of a relay (main_service.c:66), whatever its peers do: the run in
\* which SendSucceeds is violated needs a PUSH output.
THEOREM OnlyPushIsRefused == Spec => [](ztype = "PUB" => SendSucceeds)
<1>1. Init => (ztype = "PUB" => SendSucceeds)
  BY DEF Init, SendSucceeds
<1>. QED
  BY <1>1, PubIsNotRefused, ServiceInvHolds, PTL DEF Spec
=============================================================================
