------------------------------ MODULE ZService ------------------------------
(***************************************************************************)
(* The zservice tool (examples/main_service.c, src/zservice.c): a service  *)
(* that waits for its configuration, opens its sockets, then copies every  *)
(* frame that reaches "in" to "out".  The peers come and go while it does. *)
(*                                                                         *)
(* A message is one frame or several, and ZeroMQ hands over whole messages *)
(* only. Flow[k] says whether frame k is followed by another of its        *)
(* message. How the sockets find their peers is the matter of ZConnect.    *)
(***************************************************************************)
EXTENDS ZReactor, FiniteSetsExt

CONSTANTS
    Flow,     \* the frames that reach "in": is there more of the message?
    OutTypes, \* the types the configuration may give to "out"
    HighWater \* messages the connections of "out" can hold

ASSUME ZServiceAssumption ==
    /\ Monitor = {"zk", "_tick", "in", "out"}
    /\ Flow \in Seq(BOOLEAN)
    /\ Flow # <<>> => ~Flow[Len(Flow)]
    /\ OutTypes \subseteq {"PUB", "PUSH"}
    /\ HighWater \in Nat \ {0}

VARIABLES
    config,  \* "asked", "done", or "lost": the only answer was an error
    expired, \* the server's word that the session is over has reached the handle
    ztype,   \* the type of "out", once configured
    evt,     \* what the reactor waits for on each socket
    arrived, \* frames in the queue of "in", or taken from it
    taken,   \* frames received by the handler
    held,    \* the frame received and not yet sent, or 0
    sent,    \* the frames sent, with the flag they were sent with
    room     \* messages the connections of "out" still accept

flowVars == <<arrived, taken, held, sent, room>>
vars == <<loopVars, config, expired, ztype, evt, flowVars>>

Socket == {"_tick", "in", "out"}

-----------------------------------------------------------------------------
Init ==
    /\ ReactorInit(<<"zk">>)
    /\ config = "asked"
    /\ expired = FALSE
    /\ ztype = "none"
    /\ evt = [s \in Socket |-> {}]
    /\ arrived = 0
    /\ taken = 0
    /\ held = 0
    /\ sent = <<>>
    /\ room = 0

(* The peers and the operator. *)

\* A message reaches the socket, once it is bound or connected.
Arrive ==
    /\ config = "done"
    /\ arrived < Len(Flow)
    /\ arrived' = Min({k \in (arrived + 1)..Len(Flow) : ~Flow[k]})
    /\ UNCHANGED <<loopVars, config, expired, ztype, evt, taken, held, sent, room>>

\* Peers of "out" connect, take messages or leave.
PeersMove ==
    /\ config = "done"
    /\ \E r \in 0..HighWater : r # room /\ room' = r
    /\ UNCHANGED <<loopVars, config, expired, ztype, evt, arrived, taken, held, sent>>

sighandler_stop ==
    /\ running
    /\ phase \notin {"exited", "aborted"}
    /\ running' = FALSE
    /\ UNCHANGED <<monitors, phase, at, max, revents, config, expired, ztype, evt, flowVars>>

\* The client has reconnected and the server tells it that its session is over.
\* The connection was made between two passes: what a pass under way found to
\* read came on the one before.
Expire ==
    /\ ~expired
    /\ \/ phase = "poll"
       \/ phase \in {"dispatch", "handler"} /\ "IN" \notin revents["zk"]
    /\ expired' = TRUE
    /\ UNCHANGED <<loopVars, config, ztype, evt, flowVars>>

-----------------------------------------------------------------------------
(* The reactor. *)

Writable == ztype = "PUB" \/ room > 0

Fired ==
    [m \in Monitor |->
        CASE m = "in" -> IF arrived > taken THEN evt["in"] \cap {"IN"} ELSE {}
          [] m = "out" -> IF Writable THEN evt["out"] \cap {"OUT"} ELSE {}
          [] OTHER -> {}]

PollAll ==
    /\ \E zk \in SUBSET {"IN"} :
          /\ expired => zk = {"IN"}
          /\ Poll([Fired EXCEPT !["zk"] = zk])
    /\ UNCHANGED <<config, expired, ztype, evt, flowVars>>

LeaveLoop == Leave /\ UNCHANGED <<config, expired, ztype, evt, flowVars>>

\* What zookeeper_process is about to read.
Word == expired /\ "IN" \in revents["zk"]

\* zookeeper_process has nothing for the service.
ProcessZk ==
    /\ Dispatching("zk")
    /\ ~Word
    /\ NextItem
    /\ UNCHANGED <<running, config, expired, ztype, evt, flowVars>>

\* on_config_completion on ZOK, which a session that is over cannot bring: the sockets are registered in the order of
\* their names, then _on_zservice_configured sets what is waited for.
Configure ==
    /\ Dispatching("zk")
    /\ config = "asked"
    /\ ~expired
    /\ config' = "done"
    /\ ztype' \in OutTypes
    /\ evt' = [evt EXCEPT !["in"] = {"IN"}, !["out"] = {"OUT"}]
    /\ NextItemAfterAdding(<<"_tick", "in", "out">>)
    /\ UNCHANGED <<running, expired, flowVars>>

\* The configuration is not valid, or has no "in" or no "out": the hook asks
\* for a socket that does not exist, which is fatal.
Misconfigure ==
    /\ Dispatching("zk")
    /\ config = "asked"
    /\ ~expired
    /\ phase' = "aborted"
    /\ UNCHANGED <<monitors, running, at, max, revents, config, expired, ztype, evt, flowVars>>

\* on_config_completion on an error: nothing is asked again.
LoseConfig ==
    /\ Dispatching("zk")
    /\ config = "asked"
    /\ ~Word
    /\ config' = "lost"
    /\ NextItem
    /\ UNCHANGED <<running, expired, ztype, evt, flowVars>>

\* Mutant of LoseZk: the result of zookeeper_process is ignored.
LoseZk_Ignored ==
    /\ Dispatching("zk")
    /\ NextItem
    /\ UNCHANGED <<running, config, expired, ztype, evt, flowVars>>

\* zookeeper_process returns an error: a connection that broke as it was read,
\* or a session that is over.
LoseZk == Fail("zk") /\ UNCHANGED <<config, expired, ztype, evt, flowVars>>

SkipItem ==
    /\ \E s \in Socket : Skip(s)
    /\ UNCHANGED <<config, expired, ztype, evt, flowVars>>

\* zsock_handler on "out": _on_event_out only logs.
OutIsReady ==
    /\ Dispatching("out")
    /\ "OUT" \in revents["out"]
    /\ evt' = [evt EXCEPT !["out"] = @ \ {"OUT"}]
    /\ NextItem
    /\ UNCHANGED <<running, config, expired, ztype, flowVars>>

\* Mutant of InIsReady: the input is waited for once only, as the output is.
InIsReady_Once ==
    /\ Dispatching("in")
    /\ "IN" \in revents["in"]
    /\ phase' = "handler"
    /\ evt' = [evt EXCEPT !["in"] = @ \ {"IN"}]
    /\ UNCHANGED <<monitors, running, at, max, revents, config, expired, ztype, flowVars>>

\* zsock_handler on "in": _on_event_in runs.
InIsReady ==
    /\ Dispatching("in")
    /\ "IN" \in revents["in"]
    /\ phase' = "handler"
    /\ UNCHANGED <<monitors, running, at, max, revents, config, expired, ztype, evt, flowVars>>

-----------------------------------------------------------------------------
(* _on_event_in: the loop of the handler. *)

Receive ==
    /\ phase = "handler"
    /\ held = 0
    /\ taken < arrived
    /\ taken' = taken + 1
    /\ held' = taken'
    /\ UNCHANGED <<loopVars, config, expired, ztype, evt, arrived, sent, room>>

\* zmq_msg_recv has nothing more: the handler returns.
NothingMore ==
    /\ phase = "handler"
    /\ held = 0
    /\ taken = arrived
    /\ NextItem
    /\ UNCHANGED <<running, config, expired, ztype, evt, flowVars>>

\* The last frame sent is not the last of its message.
MidMessage == sent # <<>> /\ sent[Len(sent)].more

\* The rest of a message is never refused; a PUB socket refuses nothing.
Accepted == MidMessage \/ Writable

\* Mutant of SendFlags: the frames are sent as so many messages.
SendFlags_Dropped(k) == FALSE

\* ZMQ_SNDMORE is what ZMQ_RCVMORE says of the frame received.
SendFlags(k) == Flow[k]

SendFrame ==
    /\ phase = "handler"
    /\ held > 0
    /\ Accepted
    /\ sent' = Append(sent, [frame |-> held, more |-> SendFlags(held)])
    /\ held' = 0
    /\ room' = IF ztype = "PUSH" /\ ~SendFlags(held) /\ room > 0 THEN room - 1 ELSE room
    /\ UNCHANGED <<loopVars, config, expired, ztype, evt, arrived, taken>>

\* zmq_msg_send fails: the assertion on its result ends the process.
SendRefused ==
    /\ phase = "handler"
    /\ held > 0
    /\ ~Accepted
    /\ phase' = "aborted"
    /\ UNCHANGED <<monitors, running, at, max, revents, config, expired, ztype, evt, flowVars>>

_on_event_in == Receive \/ NothingMore \/ SendFrame \/ SendRefused

Environment == Arrive \/ PeersMove \/ sighandler_stop \/ Expire

\* What the thread does of itself; what else zookeeper_process comes to is up
\* to ZooKeeper.
Process ==
    \/ PollAll \/ LeaveLoop \/ ProcessZk \/ (Word /\ LoseZk)
    \/ SkipItem \/ OutIsReady \/ InIsReady \/ _on_event_in

Next == Environment \/ Process \/ Configure \/ Misconfigure \/ LoseConfig \/ LoseZk

Spec == Init /\ [][Next]_vars

\* The one thread of the process is scheduled.
FairSpec == Spec /\ WF_vars(Process)

-----------------------------------------------------------------------------
TypeOK ==
    /\ LoopTypeOK
    /\ config \in {"asked", "done", "lost"}
    /\ expired \in BOOLEAN
    /\ ztype \in OutTypes \cup {"none"}
    /\ evt \in [Socket -> SUBSET {"IN", "OUT"}]
    /\ arrived \in 0..Len(Flow)
    /\ taken \in 0..arrived
    /\ held \in {0, taken}
    /\ sent \in Seq([frame : 1..Len(Flow), more : BOOLEAN])
    /\ room \in 0..HighWater

\* What came in goes out: no frame is lost, repeated or reordered, no message is
\* split, joined to the next or left unfinished when the handler returns or the
\* reactor stops, whatever the peers, the signals and ZooKeeper do.
MessagesStayWhole ==
    /\ \A k \in DOMAIN sent : sent[k] = [frame |-> k, more |-> Flow[k]]
    /\ Len(sent) = IF held > 0 THEN taken - 1 ELSE taken
    /\ phase \in {"poll", "dispatch", "exited"} => held = 0 /\ ~MidMessage

\* A message that has come in is replicated, unless the process ends.
Replicated ==
    \A k \in 1..Len(Flow) :
        arrived >= k ~> Len(sent) >= k \/ phase \in {"exited", "aborted"}

\* A service told to stop leaves its loop, on whole messages, once the flow
\* pauses: the drain loop of _on_event_in lasts as long as frames come in.
StopIsServed == ~running ~> phase \in {"exited", "aborted"}

\* A service that can be told that its session is over, and with it its
\* announcements, does not run on: the word ends its loop, whatever it was doing
\* when it came. It comes when the client has reconnected, and is read when the
\* flow pauses: neither is promised, and without them the service runs on unseen.
ExpiredStops == expired ~> phase \in {"exited", "aborted"}

\* main_service.c:66, "g_assert(rci == rco)": a frame received can be sent.
SendSucceeds == ~(phase = "aborted" /\ held > 0)
=============================================================================
