-------------------------- MODULE ZDiscoveryProofs --------------------------
(***************************************************************************)
(* That ZConnect keeps the promise of Discovery (the refinement mapping of *)
(* ZConnectRefines), that a type at rest has adopted what is live, that    *)
(* rounds never mix, what the ZeroMQ connections then are, and what the    *)
(* end of a tool may find left behind (ZClose). All rest on what is in     *)
(* flight, and on what a round collects.                                   *)
(***************************************************************************)
EXTENDS ZClose, ZConnectProofs

-----------------------------------------------------------------------------
(* What is in the queues, after each operation on them.                    *)

\* Appending adds one message.
LEMMA RangeAppend ==
    ASSUME NEW q \in Seq(Message), NEW m \in Message
    PROVE  Range(Append(q, m)) = Range(q) \cup {m}
<1>. DEFINE a == Append(q, m)
<1>1. /\ Len(a) = Len(q) + 1 /\ a \in Seq(Message)
      /\ \A i \in 1..Len(q) : a[i] = q[i]
      /\ a[Len(q) + 1] = m
  BY AppendProperties
<1>2. DOMAIN q = 1..Len(q) /\ Len(q) \in Nat /\ DOMAIN a = 1..(Len(q) + 1)
  BY <1>1, LenProperties
<1>. HIDE DEF a
<1>3. DOMAIN a = DOMAIN q \cup {Len(q) + 1}
  BY <1>2
<1>4. Range(a) = Range(q) \cup {m}
  BY <1>1, <1>2, <1>3 DEF Range
<1>. QED
  BY <1>4 DEF a

\* A queue is its head and its tail.
LEMMA RangeTail ==
    ASSUME NEW q \in Seq(Message), q # <<>>
    PROVE  Range(q) = {Head(q)} \cup Range(Tail(q)) /\ Head(q) \in Range(q)
<1>. DEFINE r == Tail(q)
<1>1. /\ r \in Seq(Message) /\ Len(r) = Len(q) - 1
      /\ \A i \in 1..Len(r) : r[i] = q[i + 1]
      /\ Head(q) = q[1]
  BY HeadTailProperties
<1>2. DOMAIN q = 1..Len(q) /\ Len(q) \in Nat /\ Len(q) > 0 /\ DOMAIN r = 1..(Len(q) - 1)
  BY <1>1, LenProperties, EmptySeq
<1>. HIDE DEF r
<1>3. \A i \in 1..Len(q) : i = 1 \/ (i - 1 \in DOMAIN r /\ r[i - 1] = q[i])
  BY <1>1, <1>2
<1>4. \A i \in DOMAIN r : i + 1 \in DOMAIN q /\ r[i] = q[i + 1]
  BY <1>1, <1>2
<1>5. Range(q) = {Head(q)} \cup Range(r)
  <2>1. ASSUME NEW m \in Range(q) PROVE m = Head(q) \/ m \in Range(r)
    <3>1. PICK i \in 1..Len(q) : m = q[i]
      BY <1>2 DEF Range
    <3>2. i = 1 \/ (i - 1 \in DOMAIN r /\ r[i - 1] = m)
      BY <1>3, <3>1
    <3>. QED
      BY <1>1, <3>1, <3>2 DEF Range
  <2>2. ASSUME NEW m \in Range(r) PROVE m \in Range(q)
    BY <1>4 DEF Range
  <2>3. Head(q) \in Range(q)
    BY <1>1, <1>2 DEF Range
  <2>. QED
    BY <2>1, <2>2, <2>3
<1>. QED
  BY <1>5 DEF r

\* Lists, watch events and gets name what they are sent for, and nothing else.
LEMMA RangeLists ==
    ASSUME NEW T, NEW order \in Orders(T)
    PROVE  /\ Range(Lists(order)) = {Msg("list", t, {}) : t \in T}
           /\ Range(Events(order)) = {Msg("watch", t, {}) : t \in T}
<1>. DEFINE I == 1..Cardinality(T)
<1>1. /\ order \in [I -> T]
      /\ \A t \in T : \E i \in I : order[i] = t
  BY DEF Orders, Bijection, Injection, Surjection
<1>. HIDE DEF I
<1>. QED
  BY <1>1 DEF Range, Lists, Events

\* The gets of a list, in any order.
LEMMA RangeGets ==
    ASSUME NEW S, NEW t, NEW order \in Orders(S)
    PROVE  Range(Gets(t, order)) = {Msg("get", t, {n}) : n \in S}
<1>. DEFINE I == 1..Cardinality(S)
<1>1. /\ order \in [I -> S]
      /\ \A n \in S : \E i \in I : order[i] = n
  BY DEF Orders, Bijection, Injection, Surjection
<1>. HIDE DEF I
<1>. QED
  BY <1>1 DEF Range, Gets

\* A loss loses every message.
LEMMA RangeLost ==
    ASSUME NEW q
    PROVE  Range(AllLost(q)) = {Lost(m) : m \in Range(q)}
  BY DEF Range, AllLost

\* A kind of which none is counted is not in the queue.
LEMMA NoneCounted ==
    ASSUME NEW q \in Seq(Message), NEW op, NEW t, Count(q, op, t) = 0, NEW m \in Range(q)
    PROVE  ~(m.op = op /\ m.type = t)
<1>1. IsFiniteSet(Places(q, op, t)) /\ Cardinality(Places(q, op, t)) = 0
  BY CountType DEF Count
<1>2. Places(q, op, t) = {}
  BY <1>1, FS_EmptySet
<1>. QED
  BY <1>2 DEF Range, Places

\* A message in the queue is counted.
LEMMA OneCounted ==
    ASSUME NEW q \in Seq(Message), NEW m \in Range(q)
    PROVE  Count(q, m.op, m.type) \in Nat /\ Count(q, m.op, m.type) > 0
<1>1. /\ IsFiniteSet(Places(q, m.op, m.type))
      /\ Cardinality(Places(q, m.op, m.type)) \in Nat
  BY CountType
<1>2. Places(q, m.op, m.type) # {}
  BY DEF Range, Places
<1>3. Cardinality(Places(q, m.op, m.type)) # 0
  BY <1>1, <1>2, FS_EmptySet
<1>. QED
  BY <1>1, <1>3 DEF Count

-----------------------------------------------------------------------------
(* What a round collects.                                                  *)

\* What a round has collected stays only while gets of it are outstanding.
NothingKept == \A t \in Type : urlv_new[t] # NoUrls => get_pending[t] > 0

\* Nothing is collected before the socket is registered.
LEMMA InitNothingKept == Init => NothingKept
  BY DEF Init, NothingKept

\* A watcher call throws collections away, and completes no get.
LEMMA ChangeKeepsNothing ==
    ASSUME NothingKept, NEW T, NEW accepted, on_list_change(T, accepted)
    PROVE  NothingKept'
<1>1. get_pending' = get_pending /\ restart_list(Changed(T), list_pending, urlv_new, accepted)
  BY DEF on_list_change
<1>2. \A t \in Type : urlv_new'[t] \in {NoUrls, urlv_new[t]}
  BY <1>1 DEF restart_list
<1>. QED
  BY <1>1, <1>2 DEF NothingKept

\* Every step of the discovery keeps NothingKept.
LEMMA NextNothingKept ==
    TypeAndPending /\ Rounds /\ NothingKept /\ [Next]_vars => NothingKept'
<1>. SUFFICES ASSUME TypeAndPending, Rounds, NothingKept, [Next]_vars
              PROVE  NothingKept'
  OBVIOUS
<1>1. ZsTypeOK /\ ZkTypeOK
  BY DEF TypeAndPending, TypeOK
<1>2. \A t \in Type :
        /\ list_wanted[t] \in Nat /\ list_pending[t] \in Nat /\ get_pending[t] \in Nat
        /\ list_pending[t] <= 1 /\ (list_pending[t] = 1 => get_pending[t] = 0)
  BY <1>1 DEF ZsTypeOK, Rounds, OneRoundAtATime
<1>3. CASE Environment \/ SkipLost \/ UNCHANGED vars
  BY <1>3 DEF Environment, SkipLost, vars, zsVars, NothingKept
<1>4. CASE Register
  <2>1. \A t \in Type : urlv_new'[t] = NoUrls
    BY <1>4 DEF Register, restart_list
  <2>. QED
    BY <2>1 DEF NothingKept
<1>5. CASE DeliverList
  <2>. DEFINE m == Head(replies)
              k == m.type
              children == IF m.rc = "ZOK" THEN m.names ELSE {}
              lists == [list_pending EXCEPT ![k] = @ - 1]
              gets == [get_pending EXCEPT ![k] = @ + Cardinality(children)]
              again == Relisted({k}, list_wanted, lists, gets)
  <2>1. /\ Receive("list")
        /\ get_pending' = gets
        /\ restart_list(again, lists, urlv_new, TRUE)
    BY <1>5 DEF DeliverList
  <2>2. k \in Type /\ list_pending[k] > 0
    BY <2>1, HeadIsPending
  <2>3. get_pending[k] = 0
    BY <1>2, <2>2
  <2>. HIDE DEF m, k, children
  <2>4. \A t \in Type \ {k} : get_pending'[t] = get_pending[t]
    BY <1>1, <2>1 DEF ZsTypeOK
  <2>. HIDE DEF lists, gets, again
  <2>5. \A t \in Type : urlv_new'[t] \in {NoUrls, urlv_new[t]}
    BY <2>1 DEF restart_list
  <2>6. urlv_new[k] = NoUrls
    BY <2>2, <2>3 DEF NothingKept
  <2>. QED
    BY <2>4, <2>5, <2>6 DEF NothingKept
<1>6. CASE DeliverGet
  <2>. DEFINE m == Head(replies)
              k == m.type
              gets == [get_pending EXCEPT ![k] = @ - 1]
              kept == {n \in m.names : m.rc = "ZOK" /\ Compatible(n)}
              new == [urlv_new EXCEPT ![k] = [u \in Url |->
                        IF \E n \in kept : NodeUrl[n] = u THEN @[u] + 1 ELSE @[u]]]
              over == RoundOver(k, list_wanted, list_pending, gets)
              again == Relisted({k}, list_wanted, list_pending, gets)
              left == IF over THEN [new EXCEPT ![k] = NoUrls] ELSE new
  <2>1. /\ Receive("get")
        /\ get_pending' = gets
        /\ restart_list(again, list_pending, left, TRUE)
    BY <1>6 DEF DeliverGet
  <2>2. k \in Type /\ get_pending[k] > 0
    BY <2>1, HeadIsPending
  <2>. HIDE DEF m, k
  <2>3. list_pending[k] = 0
    <3>1. list_pending[k] \in Nat /\ list_pending[k] <= 1 /\ list_pending[k] # 1
      BY <1>2, <2>2
    <3>. QED
      BY <3>1
  <2>4. /\ urlv_new \in [Type -> [Url -> Nat]]
        /\ get_pending \in [Type -> Nat]
    BY <1>1 DEF ZsTypeOK
  <2>5. /\ gets[k] \in Nat
        /\ \A t \in Type \ {k} : gets[t] = get_pending[t]
    BY <2>2, <2>4
  <2>6. \A t \in Type \ {k} : new[t] = urlv_new[t]
    BY <2>4
  <2>7. DOMAIN new = Type
    BY <2>4
  <2>. HIDE DEF gets, kept, new
  <2>8. gets[k] = 0 => over \/ k \in again
    BY <1>2, <2>2, <2>3 DEF RoundOver, Relisted
  <2>9. /\ over => left[k] = NoUrls
        /\ \A t \in Type \ {k} : left[t] = urlv_new[t]
    BY <2>2, <2>6, <2>7
  <2>. HIDE DEF over, again, left
  <2>10. \A t \in Type : urlv_new'[t] = IF t \in again THEN NoUrls ELSE left[t]
    BY <2>1 DEF restart_list
  <2>. SUFFICES ASSUME NEW t \in Type, urlv_new'[t] # NoUrls
       PROVE  get_pending'[t] > 0
    BY DEF NothingKept
  <2>11. CASE t # k
    BY <2>1, <2>5, <2>9, <2>10, <2>11 DEF NothingKept
  <2>12. CASE t = k
    BY <2>1, <2>5, <2>8, <2>9, <2>10, <2>12
  <2>. QED
    BY <2>11, <2>12
<1>7. CASE DeliverWatch \/ Disconnect \/ Reconnect \/ SessionExpired
  <2>1. \E T, accepted : on_list_change(T, accepted)
    BY <1>7 DEF DeliverWatch, Disconnect, Reconnect, SessionExpired
  <2>. QED
    BY <2>1, ChangeKeepsNothing
<1>. QED
  BY <1>3, <1>4, <1>5, <1>6, <1>7 DEF Next, Deliver

\* No round leaves anything in urlv_new once it is over, adopted or abandoned:
\* the next round of zconnect_s begins with nothing.
THEOREM RoundsLeaveNothing == Spec => []NothingKept
  BY InitTypeAndPending, NextTypeAndPending, InitUnregistered, NextUnregistered,
     InitRounds, NextRounds, InitNothingKept, NextNothingKept, PTL DEF Spec

-----------------------------------------------------------------------------
(* What is in flight.                                                      *)

\* What a queue becomes when the requests of a handler join it.
LEMMA SendFlow ==
    ASSUME NEW q \in Seq(Message), NEW T \in SUBSET Type, NEW order \in Orders(T)
    PROVE  /\ q \o Lists(order) \in Seq(Message)
           /\ Range(q \o Lists(order)) = Range(q) \cup {Msg("list", t, {}) : t \in T}
<1>1. Lists(order) \in Seq(Message)
  BY ListsCount, ZooKeeperAssumption
<1>2. q \o Lists(order) \in Seq(Message)
  BY <1>1, ConcatProperties
<1>3. Range(q \o Lists(order)) = Range(q) \cup Range(Lists(order))
  BY <1>1, RangeConcatenation
<1>. QED
  BY <1>2, <1>3, RangeLists

\* What the client library takes off its queue was in it.
LEMMA ReceiveFlow ==
    ASSUME ZkTypeOK, NEW op, Receive(op)
    PROVE  /\ Head(replies) \in Message /\ Head(replies).op = op
           /\ Head(replies) \in Range(replies)
           /\ Range(replies) = {Head(replies)} \cup Range(replies')
           /\ session # "expired"
           /\ UNCHANGED <<znode, exists, session, watching, drops>>
  BY ReceiveStep, RangeTail DEF Receive, ZkTypeOK

\* The server answers the oldest request.
LEMMA ServerFlow ==
    ASSUME ZkTypeOK, ServerAnswer
    PROVE  /\ Head(requests) \in Message /\ Answer(Head(requests)) \in Message
           /\ Head(requests) \in Range(requests)
           /\ Range(requests) = {Head(requests)} \cup Range(requests')
           /\ Range(replies') = Range(replies) \cup {Answer(Head(requests))}
           /\ session = "connected"
           /\ UNCHANGED <<znode, exists, session, armed>>
<1>. DEFINE m == Head(requests)
<1>1. requests \in Seq(Message) /\ requests # <<>> /\ replies \in Seq(Message)
  BY DEF ServerAnswer, ZkTypeOK
<1>2. m \in Message
  BY <1>1, CountTail
<1>3. LiveNodes(m.type) \in SUBSET Node
  BY DEF LiveNodes
<1>4. Answer(m) \in Message
  BY <1>2, <1>3 DEF Answer, Message
<1>5. replies' = Append(replies, Answer(m)) /\ requests' = Tail(requests)
  BY DEF ServerAnswer
<1>6. Range(replies') = Range(replies) \cup {Answer(m)}
  BY <1>1, <1>4, <1>5, RangeAppend
<1>. QED
  BY <1>1, <1>2, <1>4, <1>5, <1>6, RangeTail DEF ServerAnswer

\* A change of the children tells the client at most that.
LEMMA FireFlow ==
    ASSUME ZkTypeOK, NEW t \in Type, FireWatch(t)
    PROVE  \/ Range(replies') = Range(replies)
           \/ /\ session = "connected"
              /\ Range(replies') = Range(replies) \cup {Msg("watch", t, {})}
<1>1. Msg("watch", t, {}) \in Message /\ replies \in Seq(Message)
  BY DEF Msg, Message, ZkTypeOK
<1>. QED
  BY <1>1, RangeAppend DEF FireWatch

\* A node that was announced under a type.
Known(n, t) == n \in Node /\ NodeType[n] = t /\ znode[n] # "unborn"

\* A get names one node that was announced, a list such nodes. An event is never
\* an error.
Sensible(m) ==
    /\ m.op = "get" => \E n \in m.names : m.names = {n} /\ Known(n, m.type)
    /\ m.op = "list" => \A n \in m.names : Known(n, m.type)
    /\ m.op \in {"watch", "blank"} => m.names = {}
    /\ m.op = "watch" => m.rc = "ZOK"

\* A request is a get, or a list that names nothing yet.
Asked ==
    \A m \in Range(requests) :
        /\ Sensible(m) /\ m.rc = "ZOK"
        /\ m.op \in {"list", "get"} /\ (m.op = "list" => m.names = {})

Answered == \A m \in Range(replies) : Sensible(m)

\* Without its connection the handle has nothing but lists to send, and what it
\* is told has failed.
CutOff ==
    session # "connected" =>
        /\ \A m \in Range(requests) : m.op = "list"
        /\ \A m \in Range(replies) : m.rc # "ZOK"

\* While the gets of a round are outstanding a loss wakes the watcher of the
\* type, unless a relist is wanted already.
Watched ==
    session = "connected" =>
        \A t \in Type : get_pending[t] > 0 /\ list_wanted[t] = 0 => t \in armed

\* Strengthens the invariants of ZConnect with what its messages carry.
Flight == Asked /\ Answered /\ CutOff /\ Watched

\* Nothing is in flight at the start.
LEMMA InitFlight == Init => Flight
<1>1. Range(<<>>) = {}
  BY DEF Range
<1>. QED
  BY <1>1 DEF Init, ZkInit, Flight, Asked, Answered, CutOff, Watched

\* Announcements are made once: a node that was known remains so.
LEMMA SensibleStays ==
    ASSUME ZkTypeOK, [Next]_vars, NEW m, Sensible(m)
    PROVE  Sensible(m)'
<1>1. \A n \in Node : znode[n] # "unborn" => znode'[n] # "unborn"
  <2>1. CASE Environment
    <3>1. \/ UNCHANGED znode
          \/ \E n \in Node : znode' = [znode EXCEPT ![n] = "live"]
          \/ \E n \in Node : znode' = [znode EXCEPT ![n] = "gone"]
      BY <2>1 DEF Environment, CreateType, Publish, Expire, ServerAnswer
    <3>. QED
      BY <3>1 DEF ZkTypeOK
  <2>2. CASE ~Environment
    <3>1. UNCHANGED znode
      BY <2>2 DEF Next, Register, Deliver, DeliverList, DeliverGet, DeliverWatch, SkipLost,
                  Receive, Disconnect, LoseConnection, Reconnect, ResumeSession,
                  SessionExpired, EndSession, vars, zkVars
    <3>. QED
      BY <3>1
  <2>. QED
    BY <2>1, <2>2
<1>2. \A n, t : Known(n, t) => Known(n, t)'
  BY <1>1 DEF Known
<1>. QED
  BY <1>2 DEF Sensible

\* Lists that join the queue are requests like others, and no message is lost.
LEMMA ListsAreAsked ==
    ASSUME ZkTypeOK, [Next]_vars, Flight, NEW T \in SUBSET Type,
           NEW q \in Seq(Message), Range(q) \subseteq Range(requests),
           NEW order \in Orders(T), requests' = q \o Lists(order)
    PROVE  /\ Asked'
           /\ Range(requests') = Range(q) \cup {Msg("list", t, {}) : t \in T}
<1>1. Range(requests') = Range(q) \cup {Msg("list", t, {}) : t \in T}
  BY SendFlow
<1>2. \A m \in Range(q) : /\ Sensible(m)' /\ m.rc = "ZOK"
                            /\ m.op \in {"list", "get"} /\ (m.op = "list" => m.names = {})
  BY SensibleStays DEF Flight, Asked
<1>3. \A t \in T : /\ Sensible(Msg("list", t, {}))'
                   /\ Msg("list", t, {}).op = "list" /\ Msg("list", t, {}).names = {}
                   /\ Msg("list", t, {}).rc = "ZOK"
  BY DEF Sensible, Msg
<1>. QED
  BY <1>1, <1>2, <1>3 DEF Asked

\* What the steps below start from.
DiscoveryInv == TypeAndPending /\ Unregistered /\ Rounds /\ NothingKept /\ Flight

\* The counters of a state of the invariant.
LEMMA Counters ==
    ASSUME DiscoveryInv, NEW t \in Type
    PROVE  /\ list_wanted[t] \in Nat /\ list_pending[t] \in Nat /\ get_pending[t] \in Nat
           /\ list_pending[t] <= 1 /\ (list_pending[t] = 1 => get_pending[t] = 0)
           /\ list_wanted[t] > 0 => list_pending[t] + get_pending[t] > 0
           /\ urlv_new[t] # NoUrls => get_pending[t] > 0
           /\ requests \in Seq(Message) /\ replies \in Seq(Message)
           /\ list_pending[t] = Count(requests, "list", t) + Count(replies, "list", t)
           /\ get_pending[t] = Count(requests, "get", t) + Count(replies, "get", t)
  BY DEF DiscoveryInv, TypeAndPending, TypeOK, ZsTypeOK, ZkTypeOK, PendingMatchesInFlight,
         Rounds, OneRoundAtATime, NoLostWakeup, NothingKept

\* The peers and the server: answers name what was announced.
LEMMA FlightEnvironment ==
    ASSUME DiscoveryInv, [Next]_vars, Environment
    PROVE  Flight'
<1>1. ZkTypeOK /\ Flight /\ UNCHANGED zsVars
  BY DEF DiscoveryInv, TypeAndPending, TypeOK, Environment
<1>2. \A m : Sensible(m) => Sensible(m)'
  BY <1>1, SensibleStays
<1>3. CASE ServerAnswer
  <2>. DEFINE m == Head(requests)
  <2>1. /\ m \in Message /\ m \in Range(requests)
        /\ Range(requests) = {m} \cup Range(requests')
        /\ Range(replies') = Range(replies) \cup {Answer(m)}
        /\ session' = "connected" /\ session = "connected" /\ armed' = armed /\ znode' = znode
    BY <1>1, <1>3, ServerFlow
  <2>2. Asked'
    BY <1>1, <1>2, <2>1 DEF Flight, Asked
  <2>3. Sensible(m) /\ m.op \in {"list", "get"}
    BY <1>1, <2>1 DEF Flight, Asked
  <2>4. Sensible(Answer(m))
    <3>1. CASE m.op = "list"
      <4>1. Answer(m).op = "list" /\ Answer(m).type = m.type /\ Answer(m).names = LiveNodes(m.type)
        BY <2>1, <3>1 DEF Answer, Message
      <4>2. \A n \in LiveNodes(m.type) : Known(n, m.type)
        BY DEF LiveNodes, Known
      <4>. QED
        BY <4>1, <4>2 DEF Sensible
    <3>2. CASE m.op = "get"
      <4>1. Answer(m).op = "get" /\ Answer(m).type = m.type /\ Answer(m).names = m.names
        BY <2>1, <3>2 DEF Answer, Message
      <4>. QED
        BY <2>3, <3>2, <4>1 DEF Sensible
    <3>. QED
      BY <2>3, <3>1, <3>2
  <2>5. Answered'
    BY <1>1, <1>2, <2>1, <2>4 DEF Flight, Answered
  <2>. QED
    BY <1>1, <2>1, <2>2, <2>5 DEF Flight, CutOff, Watched, zsVars
<1>4. CASE \E t \in Type : CreateType(t)
  <2>1. UNCHANGED <<requests, replies, session, armed>>
    BY <1>4 DEF CreateType
  <2>2. Asked' /\ Answered'
    BY <1>1, <1>2, <2>1 DEF Flight, Asked, Answered
  <2>. QED
    BY <1>1, <2>1, <2>2 DEF Flight, CutOff, Watched, zsVars
<1>5. CASE \E n \in Node : Publish(n) \/ Expire(n)
  <2>1. PICK n \in Node : /\ FireWatch(NodeType[n])
                          /\ UNCHANGED <<session, armed, requests>>
    BY <1>5 DEF Publish, Expire
  <2>. DEFINE t == NodeType[n]
              w == Msg("watch", t, {})
  <2>2. t \in Type
    BY ZooKeeperAssumption
  <2>3. \/ Range(replies') = Range(replies)
        \/ session = "connected" /\ Range(replies') = Range(replies) \cup {w}
    BY <1>1, <2>1, <2>2, FireFlow
  <2>4. Sensible(w)'
    BY DEF Sensible, Msg
  <2>. HIDE DEF w
  <2>5. Asked' /\ Answered'
    BY <1>1, <1>2, <2>1, <2>3, <2>4 DEF Flight, Asked, Answered
  <2>6. CutOff'
    BY <1>1, <2>1, <2>3 DEF Flight, CutOff
  <2>. QED
    BY <1>1, <2>1, <2>5, <2>6 DEF Flight, Watched, zsVars
<1>. QED
  BY <1>3, <1>4, <1>5 DEF Environment

\* The registration asks for lists, when nothing else is under way.
LEMMA FlightRegister ==
    ASSUME DiscoveryInv, [Next]_vars, Register
    PROVE  Flight'
<1>1. ZkTypeOK /\ Flight /\ requests \in Seq(Message)
  BY DEF DiscoveryInv, TypeAndPending, TypeOK, ZkTypeOK
<1>2. PICK order \in Orders(Type) : requests' = requests \o Lists(order)
  BY DEF Register, Send
<1>3. Asked' /\ Range(requests') = Range(requests) \cup {Msg("list", t, {}) : t \in Type}
  BY <1>1, <1>2, ListsAreAsked
<1>4. UNCHANGED <<session, replies, armed, get_pending, list_wanted>>
  BY DEF Register
<1>5. Answered' /\ CutOff'
  <2>1. Answered'
    BY <1>1, <1>4, SensibleStays DEF Flight, Answered
  <2>2. \A t \in Type : Msg("list", t, {}).op = "list"
    BY DEF Msg
  <2>. QED
    BY <1>1, <1>3, <1>4, <2>1, <2>2 DEF Flight, CutOff
<1>6. Watched'
  BY <1>1, <1>4 DEF Flight, Watched
<1>. QED
  BY <1>3, <1>5, <1>6 DEF Flight

\* on_list_completion: a get for each child.
LEMMA FlightDeliverList ==
    ASSUME DiscoveryInv, [Next]_vars, DeliverList
    PROVE  Flight'
<1>. DEFINE m == Head(replies)
            k == m.type
            children == IF m.rc = "ZOK" THEN m.names ELSE {}
            lists == [list_pending EXCEPT ![k] = @ - 1]
            gets == [get_pending EXCEPT ![k] = @ + Cardinality(children)]
            again == Relisted({k}, list_wanted, lists, gets)
<1>1. /\ ZkTypeOK /\ ZsTypeOK /\ Flight /\ requests \in Seq(Message) /\ TypeAndPending
  BY DEF DiscoveryInv, TypeAndPending, TypeOK, ZkTypeOK
<1>2. /\ Receive("list")
      /\ armed' = (IF m.rc = "ZOK" THEN armed \cup {k} ELSE armed)
      /\ get_pending' = gets
      /\ list_wanted' = Consumed(again, list_wanted)
  BY DEF DeliverList
<1>3. PICK corder \in Orders(children), order \in Orders(again) :
        requests' = requests \o (Gets(k, corder) \o Lists(order))
  BY DEF DeliverList, Send
<1>4. /\ m \in Message /\ m.op = "list" /\ m \in Range(replies)
      /\ Range(replies) = {m} \cup Range(replies')
      /\ session' = session
  BY <1>1, <1>2, ReceiveFlow
<1>5. k \in Type /\ list_pending[k] > 0
  BY <1>1, <1>2, HeadIsPending
<1>. HIDE DEF m, k
<1>6. get_pending[k] = 0 /\ list_wanted[k] \in Nat
  <2>1. list_pending[k] \in Nat /\ list_pending[k] <= 1 /\ (list_pending[k] = 1 => get_pending[k] = 0)
    BY <1>5, Counters
  <2>. QED
    BY <1>5, <2>1, Counters
<1>7. children \in SUBSET Node
  BY <1>4 DEF Message
<1>8. again \in SUBSET Type
  BY <1>5 DEF Relisted
<1>. HIDE DEF children
<1>9. /\ gets[k] = 0 + Cardinality(children)
      /\ \A t \in Type \ {k} : gets[t] = get_pending[t]
  BY <1>1, <1>5, <1>6 DEF ZsTypeOK
<1>. HIDE DEF gets, lists, again
<1>10. Gets(k, corder) \in Seq(Message)
  BY <1>5, <1>7, GetsCount, ZooKeeperAssumption
<1>11. Range(Gets(k, corder)) = {Msg("get", k, {n}) : n \in children}
  BY RangeGets
<1>12. /\ Range(requests') =
            (Range(requests) \cup {Msg("get", k, {n}) : n \in children})
               \cup {Msg("list", t, {}) : t \in again}
  <2>1. Lists(order) \in Seq(Message)
    BY <1>8, ListsCount, ZooKeeperAssumption
  <2>2. Gets(k, corder) \o Lists(order) \in Seq(Message)
    BY <1>10, <2>1, ConcatProperties
  <2>3. Range(requests') = Range(requests) \cup Range(Gets(k, corder) \o Lists(order))
    <3>. DEFINE sent == Gets(k, corder) \o Lists(order)
    <3>. HIDE DEF sent
    <3>1. sent \in Seq(Message) /\ requests \in Seq(Message)
      BY <1>1, <2>2 DEF sent, ZkTypeOK
    <3>2. Range(requests \o sent) = Range(requests) \cup Range(sent)
      BY <3>1, RangeConcatenation
    <3>. QED
      BY <1>3, <3>2 DEF sent
  <2>4. Range(Gets(k, corder) \o Lists(order)) = Range(Gets(k, corder)) \cup Range(Lists(order))
    BY <1>10, <2>1, RangeConcatenation
  <2>5. Range(Lists(order)) = {Msg("list", t, {}) : t \in again}
    BY RangeLists
  <2>. QED
    BY <1>11, <2>3, <2>4, <2>5
<1>13. Asked'
  <2>1. \A n \in children : Known(n, k)
    BY <1>1, <1>4 DEF Flight, Answered, Sensible, children, k
  <2>2. \A n \in children : /\ Sensible(Msg("get", k, {n}))
                            /\ Msg("get", k, {n}).op = "get" /\ Msg("get", k, {n}).rc = "ZOK"
    BY <2>1 DEF Sensible, Msg
  <2>3. \A t \in again : /\ Sensible(Msg("list", t, {}))
                         /\ Msg("list", t, {}).op = "list" /\ Msg("list", t, {}).names = {}
                         /\ Msg("list", t, {}).rc = "ZOK"
                   /\ Msg("list", t, {}).rc = "ZOK"
    BY DEF Sensible, Msg
  <2>4. \A x \in Range(requests') :
          /\ Sensible(x) /\ x.rc = "ZOK"
          /\ x.op \in {"list", "get"} /\ (x.op = "list" => x.names = {})
    BY <1>1, <1>12, <2>2, <2>3 DEF Flight, Asked
  <2>. QED
    BY <1>1, <2>4, SensibleStays DEF Asked
<1>14. Answered'
  BY <1>1, <1>4, SensibleStays DEF Flight, Answered
<1>15. CutOff'
  <2>. SUFFICES ASSUME session # "connected"
       PROVE  /\ \A x \in Range(requests') : x.op = "list"
              /\ \A x \in Range(replies') : x.rc # "ZOK"
    BY <1>4 DEF CutOff
  <2>1. children = {}
    BY <1>1, <1>4 DEF Flight, CutOff, children
  <2>. QED
    BY <1>1, <1>4, <1>12, <2>1 DEF Flight, CutOff, Msg
<1>16. Watched'
  <2>. SUFFICES ASSUME session = "connected", NEW t \in Type, get_pending'[t] > 0, list_wanted'[t] = 0
       PROVE  t \in armed'
    BY <1>4 DEF Watched
  <2>1. CASE t = k
    <3>1. children # {}
      BY <1>2, <1>9, <2>1, FS_EmptySet
    <3>. QED
      BY <1>2, <2>1, <3>1 DEF children
  <2>2. CASE t # k
    <3>1. list_wanted'[t] = list_wanted[t]
      BY <1>2, <2>2 DEF Consumed, Relisted, again
    <3>. QED
      BY <1>1, <1>2, <1>9, <2>2, <3>1 DEF Flight, Watched
  <2>. QED
    BY <2>1, <2>2
<1>. QED
  BY <1>13, <1>14, <1>15, <1>16 DEF Flight

\* A kind that is counted is in the queue.
LEMMA SomeCounted ==
    ASSUME NEW q \in Seq(Message), NEW op, NEW t, Count(q, op, t) # 0
    PROVE  \E m \in Range(q) : m.op = op /\ m.type = t
<1>1. Places(q, op, t) # {}
  BY FS_EmptySet DEF Count
<1>. QED
  BY <1>1 DEF Range, Places

\* on_get: a list when the round was abandoned, and one get less.
LEMMA FlightDeliverGet ==
    ASSUME DiscoveryInv, [Next]_vars, DeliverGet
    PROVE  Flight'
<1>. DEFINE k == Head(replies).type
            gets == [get_pending EXCEPT ![k] = @ - 1]
            again == Relisted({k}, list_wanted, list_pending, gets)
<1>1. ZkTypeOK /\ ZsTypeOK /\ Flight /\ requests \in Seq(Message) /\ TypeAndPending
  BY DEF DiscoveryInv, TypeAndPending, TypeOK, ZkTypeOK
<1>2. /\ Receive("get") /\ armed' = armed
      /\ get_pending' = gets
      /\ list_wanted' = Consumed(again, list_wanted)
  BY DEF DeliverGet
<1>3. PICK order \in Orders(again) : requests' = requests \o Lists(order)
  BY DEF DeliverGet, Send
<1>4. Range(replies') \subseteq Range(replies) /\ session' = session
  BY <1>1, <1>2, ReceiveFlow
<1>5. k \in Type /\ get_pending[k] > 0
  BY <1>1, <1>2, HeadIsPending
<1>. HIDE DEF k
<1>6. again \in SUBSET Type
  BY <1>5 DEF Relisted
<1>7. /\ gets[k] = get_pending[k] - 1 /\ get_pending[k] \in Nat
      /\ \A t \in Type \ {k} : gets[t] = get_pending[t]
  BY <1>1, <1>5 DEF ZsTypeOK
<1>. HIDE DEF gets
<1>8. \A t \in again : t = k /\ gets[k] = 0
  BY DEF Relisted
<1>. HIDE DEF again
<1>9. /\ Asked'
      /\ Range(requests') = Range(requests) \cup {Msg("list", t, {}) : t \in again}
  BY <1>1, <1>3, <1>6, ListsAreAsked
<1>10. Answered'
  BY <1>1, <1>4, SensibleStays DEF Flight, Answered
<1>11. CutOff'
  BY <1>1, <1>4, <1>9 DEF Flight, CutOff, Msg
<1>12. Watched'
  <2>. SUFFICES ASSUME session = "connected", NEW t \in Type, get_pending'[t] > 0, list_wanted'[t] = 0
       PROVE  t \in armed
    BY <1>2, <1>4 DEF Watched
  <2>1. t \notin again
    BY <1>2, <1>8
  <2>2. list_wanted[t] = 0
    BY <1>2, <2>1 DEF Consumed
  <2>3. get_pending[t] > 0
    BY <1>2, <1>5, <1>7
  <2>. QED
    BY <1>1, <2>2, <2>3 DEF Flight, Watched
<1>. QED
  BY <1>9, <1>10, <1>11, <1>12 DEF Flight

\* A watcher call: the types that can be listed again are, with nothing
\* collected; of the others the wish is noted.
LEMMA ChangeEffect ==
    ASSUME DiscoveryInv, NEW T \in SUBSET Type, NEW accepted \in BOOLEAN,
           on_list_change(T, accepted)
    PROVE  /\ Changed(T) \in SUBSET Type /\ Changed(T) \subseteq T
           /\ get_pending' = get_pending /\ urlv_current' = urlv_current
           /\ \A t \in Changed(T) :
                /\ list_pending[t] = 0 /\ get_pending[t] = 0
                /\ list_wanted[t] = 0 /\ list_wanted'[t] = 0
                /\ urlv_new[t] = NoUrls /\ urlv_new'[t] = NoUrls
           /\ \A t \in T \ Changed(T) : list_wanted'[t] > 0
           /\ \A t \in Type \ Changed(T) : urlv_new'[t] = urlv_new[t]
           /\ \A t \in Type \ T : /\ list_wanted'[t] = list_wanted[t]
                                 /\ list_pending'[t] = list_pending[t]
<1>. DEFINE W == Wanting(T)
            C == Changed(T)
<1>1. C = Relisted(T, W, list_pending, get_pending)
  BY DEF Changed
<1>2. /\ list_wanted' = Consumed(C, W)
      /\ restart_list(C, list_pending, urlv_new, accepted)
      /\ get_pending' = get_pending /\ urlv_current' = urlv_current
  BY DEF on_list_change, peerVars
<1>3. \A t \in Type : W[t] = IF t \in T THEN list_wanted[t] + 1 ELSE list_wanted[t]
  BY DEF Wanting
<1>. HIDE DEF W, C
<1>4. /\ C \subseteq T
      /\ \A t \in C : list_pending[t] = 0 /\ get_pending[t] = 0
  BY <1>1 DEF Relisted
<1>5. \A t \in Type :
        /\ list_wanted'[t] = IF t \in C THEN W[t] - 1 ELSE W[t]
        /\ urlv_new'[t] = IF t \in C THEN NoUrls ELSE urlv_new[t]
        /\ t \notin C => list_pending'[t] = list_pending[t]
  BY <1>2 DEF Consumed, restart_list
<1>6. \A t \in C : list_wanted[t] = 0 /\ urlv_new[t] = NoUrls
  <2>. SUFFICES ASSUME NEW t \in C
       PROVE  list_wanted[t] = 0 /\ urlv_new[t] = NoUrls
    OBVIOUS
  <2>1. /\ t \in Type /\ list_pending[t] = 0 /\ get_pending[t] = 0
    BY <1>4
  <2>2. /\ list_wanted[t] \in Nat
        /\ list_wanted[t] > 0 => list_pending[t] + get_pending[t] > 0
        /\ urlv_new[t] # NoUrls => get_pending[t] > 0
    BY <2>1, Counters
  <2>. QED
    BY <2>1, <2>2
<1>7. \A t \in Type : list_wanted[t] \in Nat
  BY Counters
<1>. QED
  BY <1>2, <1>3, <1>4, <1>5, <1>6, <1>7 DEF C

\* A watch is used up: the type is listed again, or wanted.
LEMMA FlightDeliverWatch ==
    ASSUME DiscoveryInv, [Next]_vars, DeliverWatch
    PROVE  Flight'
<1>. DEFINE k == Head(replies).type
            T == {k}
<1>1. ZkTypeOK /\ Flight /\ requests \in Seq(Message) /\ TypeAndPending
  BY DEF DiscoveryInv, TypeAndPending, TypeOK, ZkTypeOK
<1>2. Receive("watch") /\ armed' = armed \ T /\ on_list_change(T, TRUE)
  BY DEF DeliverWatch
<1>3. PICK order \in Orders(Changed(T)) : requests' = requests \o Lists(order)
  BY DEF DeliverWatch, Send
<1>4. Range(replies') \subseteq Range(replies) /\ session' = session
  BY <1>1, <1>2, ReceiveFlow
<1>5. T \in SUBSET Type /\ TRUE \in BOOLEAN
  BY <1>1, <1>2, HeadIsPending
<1>. HIDE DEF T
<1>6. /\ Changed(T) \in SUBSET Type
      /\ get_pending' = get_pending
      /\ \A t \in Changed(T) : get_pending[t] = 0
      /\ \A t \in T \ Changed(T) : list_wanted'[t] > 0
      /\ \A t \in Type \ T : list_wanted'[t] = list_wanted[t]
  BY <1>2, <1>5, ChangeEffect
<1>7. /\ Asked'
      /\ Range(requests') = Range(requests) \cup {Msg("list", t, {}) : t \in Changed(T)}
  BY <1>1, <1>3, <1>6, ListsAreAsked
<1>8. Answered'
  BY <1>1, <1>4, SensibleStays DEF Flight, Answered
<1>9. CutOff'
  BY <1>1, <1>4, <1>7 DEF Flight, CutOff, Msg
<1>10. Watched'
  <2>. SUFFICES ASSUME session = "connected", NEW t \in Type, get_pending'[t] > 0, list_wanted'[t] = 0
       PROVE  t \in armed'
    BY <1>4 DEF Watched
  <2>1. t \notin T
    BY <1>6
  <2>. QED
    BY <1>1, <1>2, <1>6, <2>1 DEF Flight, Watched
<1>. QED
  BY <1>7, <1>8, <1>9, <1>10 DEF Flight

\* A loss: nothing remains to be sent, and all that was in flight has failed.
LEMMA DisconnectFlow ==
    ASSUME DiscoveryInv, Disconnect
    PROVE  LET T == IF session = "connected" THEN armed ELSE {}
               listed == {Msg("list", t, {}) : t \in Changed(T)}
           IN  /\ T \in SUBSET Type /\ on_list_change(T, TRUE)
               /\ session' = "connecting"
               /\ requests' = <<>>
               /\ Range(replies') =
                     {Lost(m) : m \in Range(replies) \cup Range(requests) \cup listed}
<1>. DEFINE T == IF session = "connected" THEN armed ELSE {}
            listed == {Msg("list", t, {}) : t \in Changed(T)}
<1>1. T \in SUBSET Type /\ TRUE \in BOOLEAN /\ requests \in Seq(Message) /\ replies \in Seq(Message)
  BY DEF DiscoveryInv, TypeAndPending, TypeOK, ZkTypeOK
<1>2. /\ on_list_change(T, TRUE)
      /\ \E order \in Orders(Changed(T)) : LoseConnection(Lists(order))
  BY DEF Disconnect
<1>. HIDE DEF T
<1>3. PICK order \in Orders(Changed(T)) : LoseConnection(Lists(order))
  BY <1>2
<1>4. Changed(T) \in SUBSET Type
  BY <1>1, <1>2, ChangeEffect
<1>. DEFINE asked == requests \o Lists(order)
<1>5. asked \in Seq(Message) /\ Range(asked) = Range(requests) \cup listed
  BY <1>1, <1>4, SendFlow
<1>6. replies' = AllLost(replies \o asked)
  BY <1>3 DEF LoseConnection
<1>. HIDE DEF asked
<1>7. Range(replies \o asked) = Range(replies) \cup Range(asked)
  BY <1>1, <1>5, RangeConcatenation
<1>8. Range(replies') = {Lost(m) : m \in Range(replies \o asked)}
  BY <1>6, RangeLost
<1>9. Range(replies') = {Lost(m) : m \in Range(replies) \cup Range(requests) \cup listed}
  BY <1>5, <1>7, <1>8
<1>10. /\ session' = "connecting"
       /\ requests' = <<>>
  BY <1>3 DEF LoseConnection
<1>. QED
  BY <1>1, <1>2, <1>9, <1>10 DEF T

\* What was sensible is so once it has failed.
LEMMA FlightDisconnect ==
    ASSUME DiscoveryInv, [Next]_vars, Disconnect
    PROVE  Flight'
<1>. DEFINE T == IF session = "connected" THEN armed ELSE {}
            listed == {Msg("list", t, {}) : t \in Changed(T)}
            sent == Range(replies) \cup Range(requests) \cup listed
<1>1. /\ session' = "connecting"
      /\ requests' = <<>>
      /\ Range(replies') = {Lost(m) : m \in sent}
  BY DisconnectFlow
<1>2. ZkTypeOK /\ Flight
  BY DEF DiscoveryInv, TypeAndPending, TypeOK
<1>3. \A m \in sent : Sensible(m)
  BY <1>2 DEF Flight, Asked, Answered, Sensible, Msg
<1>4. \A m \in sent : m \in Message
  <2>1. \A m \in Range(replies) \cup Range(requests) : m \in Message
    BY <1>2, ElementOfSeq, LenProperties DEF ZkTypeOK, Range
  <2>2. \A t \in Changed(T) : t \in Type
    BY <1>2 DEF ZkTypeOK, Changed, Relisted
  <2>3. \A m \in listed : m \in Message
    BY <2>2 DEF Msg, Message
  <2>. QED
    BY <2>1, <2>3
<1>. HIDE DEF sent
<1>5. \A m \in sent : Sensible(Lost(m)) /\ Lost(m).rc # "ZOK"
  <2>. SUFFICES ASSUME NEW m \in sent
       PROVE  Sensible(Lost(m)) /\ Lost(m).rc # "ZOK"
    OBVIOUS
  <2>1. m \in Message /\ Sensible(m)
    BY <1>3, <1>4
  <2>2. /\ Lost(m).op = IF m.op = "watch" THEN "blank" ELSE m.op
        /\ Lost(m).type = m.type
        /\ Lost(m).names = IF m.op = "list" THEN {} ELSE m.names
        /\ Lost(m).rc = "ZCONNECTIONLOSS"
    BY <2>1 DEF Lost, Message
  <2>. QED
    BY <2>1, <2>2 DEF Sensible
<1>6. Answered'
  BY <1>1, <1>2, <1>5, SensibleStays DEF Answered
<1>7. Range(requests') = {}
  BY <1>1 DEF Range
<1>8. Asked' /\ CutOff'
  BY <1>1, <1>5, <1>7 DEF Asked, CutOff
<1>9. Watched'
  BY <1>1 DEF Watched
<1>. QED
  BY <1>6, <1>8, <1>9 DEF Flight

\* While the connection is down no get is outstanding once all has been told.
LEMMA NoGetsToResume ==
    ASSUME DiscoveryInv, session = "connecting", replies = <<>>, NEW t \in Type
    PROVE  get_pending[t] = 0
<1>1. /\ requests \in Seq(Message)
      /\ get_pending[t] = Count(requests, "get", t) + Count(replies, "get", t)
  BY Counters
<1>2. Count(replies, "get", t) = 0
  BY CountEmpty
<1>3. \A m \in Range(requests) : m.op = "list"
  BY DEF DiscoveryInv, Flight, CutOff
<1>4. Count(requests, "get", t) = 0
  BY <1>1, <1>3, SomeCounted
<1>. QED
  BY <1>1, <1>2, <1>4

\* The resumed session: watch events, and the lists of the watchers.
LEMMA FlightReconnect ==
    ASSUME DiscoveryInv, [Next]_vars, Reconnect
    PROVE  Flight'
<1>1. ZkTypeOK /\ Flight /\ requests \in Seq(Message) /\ armed \in SUBSET Type /\ TRUE \in BOOLEAN
  BY DEF DiscoveryInv, TypeAndPending, TypeOK, ZkTypeOK
<1>2. on_list_change(armed, TRUE)
  BY DEF Reconnect
<1>3. PICK order \in Orders(Changed(armed)) : ResumeSession(Lists(order))
  BY DEF Reconnect
<1>4. /\ session = "connecting" /\ replies = <<>> /\ session' = "connected"
      /\ requests' = requests \o Lists(order)
  BY <1>3 DEF ResumeSession, Send
<1>5. PICK owed \in Orders(armed \ watching) : replies' = Events(owed)
  BY <1>3 DEF ResumeSession
<1>6. Changed(armed) \in SUBSET Type /\ get_pending' = get_pending
  BY <1>1, <1>2, ChangeEffect
<1>7. Asked'
  BY <1>1, <1>4, <1>6, ListsAreAsked
<1>8. Range(replies') = {Msg("watch", t, {}) : t \in armed \ watching}
  BY <1>5, RangeLists
<1>9. Answered'
  BY <1>8 DEF Answered, Sensible, Msg
<1>10. CutOff'
  BY <1>4 DEF CutOff
<1>11. Watched'
  BY <1>4, <1>6, NoGetsToResume DEF Watched
<1>. QED
  BY <1>7, <1>9, <1>10, <1>11 DEF Flight

\* The last watcher calls send nothing; a lost event says nothing.
LEMMA FlightRest ==
    ASSUME DiscoveryInv, [Next]_vars, SessionExpired \/ SkipLost \/ UNCHANGED vars
    PROVE  Flight'
<1>1. ZkTypeOK /\ Flight
  BY DEF DiscoveryInv, TypeAndPending, TypeOK
<1>2. /\ requests' = requests
      /\ Range(replies') \subseteq Range(replies)
      /\ session' = session \/ (session' # "connected" /\ session # "connected")
  <2>1. CASE SessionExpired
    BY <2>1 DEF SessionExpired, EndSession
  <2>2. CASE SkipLost
    <3>1. Receive("blank") /\ requests' = requests
      BY <2>2 DEF SkipLost
    <3>. QED
      BY <1>1, <3>1, ReceiveFlow
  <2>3. CASE UNCHANGED vars
    BY <2>3 DEF vars, zkVars
  <2>. QED
    BY <2>1, <2>2, <2>3
<1>3. session' = "connected" => UNCHANGED <<get_pending, list_wanted, armed>>
  BY DEF SessionExpired, EndSession, SkipLost, vars, zkVars, zsVars
<1>. QED
  BY <1>1, <1>2, <1>3, SensibleStays DEF Flight, Asked, Answered, CutOff, Watched

\* Every step of the discovery keeps Flight.
LEMMA NextDiscoveryInv == DiscoveryInv /\ [Next]_vars => DiscoveryInv'
<1>. SUFFICES ASSUME DiscoveryInv, [Next]_vars PROVE DiscoveryInv'
  OBVIOUS
<1>1. Flight'
  BY FlightEnvironment, FlightRegister, FlightDeliverList, FlightDeliverGet, FlightDeliverWatch,
     FlightDisconnect, FlightReconnect, FlightRest DEF Next, Deliver
<1>. QED
  BY <1>1, NextTypeAndPending, NextUnregistered, NextRounds, NextNothingKept DEF DiscoveryInv

-----------------------------------------------------------------------------
(* The mapping: what each step does to what a type has seen.               *)

InFlight == Range(requests) \cup Range(replies)

\* The URLs of type t a message names.
NamesOf(m, t) ==
    IF m.type = t /\ m.rc = "ZOK" THEN {NodeUrl[n] : n \in m.names \cap Usables} ELSE {}

\* What is named is named by a message in flight.
LEMMA NamedInFlight == \A t : Named(t) = UNION {NamesOf(m, t) : m \in InFlight}
<1>. SUFFICES ASSUME NEW t
     PROVE  Named(t) = UNION {NamesOf(m, t) : m \in InFlight}
  OBVIOUS
<1>1. \A n \in Usables : NodeUrl[n] \in Url
  BY ZConnectAssumption DEF Usables
<1>2. \A m, u : u \in NamesOf(m, t)
         <=> m.type = t /\ m.rc = "ZOK" /\ \E n \in m.names \cap Usables : NodeUrl[n] = u
  BY DEF NamesOf
<1>3. \A u : u \in Named(t) <=> \E m \in InFlight : u \in NamesOf(m, t)
  BY <1>1, <1>2 DEF Named, InFlight
<1>. QED
  BY <1>3

\* The same in the next state.
LEMMA NamedNext == \A t : Named(t)' = UNION {NamesOf(m, t) : m \in InFlight'}
<1>1. (\A t : Named(t) = UNION {NamesOf(m, t) : m \in InFlight})'
  BY NamedInFlight, PTL
<1>. QED
  BY <1>1 DEF NamesOf, Usables, Compatible

\* Messages that name nothing come and go unnoticed.
LEMMA NamedSame ==
    ASSUME NEW t, NEW R, NEW A, NEW B, InFlight = R \cup A, InFlight' = R \cup B,
           \A m \in A \cup B : NamesOf(m, t) = {}
    PROVE  Named(t)' = Named(t)
<1>1. \A u : (\E m \in InFlight : u \in NamesOf(m, t))
                <=> (\E m \in InFlight' : u \in NamesOf(m, t))
  OBVIOUS
<1>2. UNION {NamesOf(m, t) : m \in InFlight} = UNION {NamesOf(m, t) : m \in InFlight'}
  BY <1>1
<1>. QED
  BY <1>2, NamedInFlight, NamedNext

IdleSees ==
    \A t \in Type : list_pending[t] = 0 /\ get_pending[t] = 0
        => Named(t) = {} /\ Seen(t) = {} /\ urlv_new[t] = NoUrls

\* A type with nothing outstanding has nothing in sight.
LEMMA IdleSeesNothing == DiscoveryInv => IdleSees
<1>. SUFFICES ASSUME DiscoveryInv, NEW t \in Type, list_pending[t] = 0, get_pending[t] = 0
     PROVE  Named(t) = {} /\ Seen(t) = {} /\ urlv_new[t] = NoUrls
  BY DEF IdleSees
<1>1. /\ requests \in Seq(Message) /\ replies \in Seq(Message)
      /\ urlv_new[t] = NoUrls
      /\ Count(requests, "list", t) + Count(replies, "list", t) = 0
      /\ Count(requests, "get", t) + Count(replies, "get", t) = 0
  BY Counters
<1>2. \A op : Count(requests, op, t) \in Nat /\ Count(replies, op, t) \in Nat
  BY <1>1, CountType
<1>3. ASSUME NEW m \in InFlight, m.type = t PROVE m.names = {}
  <2>1. m.op \notin {"list", "get"}
    BY <1>1, <1>2, <1>3, OneCounted DEF InFlight
  <2>2. Sensible(m) /\ m \in Message
    <3>1. m \in Message
      BY <1>1, ElementOfSeq, LenProperties DEF InFlight, Range
    <3>. QED
      BY <3>1 DEF DiscoveryInv, Flight, Asked, Answered, InFlight
  <2>. QED
    BY <2>1, <2>2 DEF Sensible, Message
<1>4. Named(t) = {}
  BY <1>3, NamedInFlight DEF NamesOf
<1>. QED
  BY <1>1, <1>4 DEF Seen, NoUrls

RelistedSees ==
    \A t \in Type : \A m \in Range(requests) : m.op = "list" /\ m.type = t
        => Named(t) = {} /\ Seen(t) = {} /\ urlv_new[t] = NoUrls

\* Nor has a type whose list is still to be served.
LEMMA RelistedSeesNothing == DiscoveryInv => RelistedSees
<1>. SUFFICES ASSUME DiscoveryInv, NEW t \in Type, NEW l \in Range(requests),
                     l.op = "list", l.type = t
     PROVE  Named(t) = {} /\ Seen(t) = {} /\ urlv_new[t] = NoUrls
  BY DEF RelistedSees
<1>1. /\ requests \in Seq(Message) /\ replies \in Seq(Message)
      /\ list_pending[t] <= 1 /\ (list_pending[t] = 1 => get_pending[t] = 0)
      /\ list_pending[t] = Count(requests, "list", t) + Count(replies, "list", t)
      /\ get_pending[t] = Count(requests, "get", t) + Count(replies, "get", t)
      /\ urlv_new[t] # NoUrls => get_pending[t] > 0
  BY Counters
<1>2. \A op : Count(requests, op, t) \in Nat /\ Count(replies, op, t) \in Nat
  BY <1>1, CountType
<1>3. Count(requests, "list", t) > 0
  BY <1>1, OneCounted
<1>4. Count(replies, "list", t) = 0 /\ get_pending[t] = 0
  BY <1>1, <1>2, <1>3
<1>5. Count(requests, "get", t) = 0 /\ Count(replies, "get", t) = 0 /\ urlv_new[t] = NoUrls
  BY <1>1, <1>2, <1>4
<1>6. ASSUME NEW m \in Range(requests), m.type = t PROVE m.names = {}
  <2>1. m.op # "get"
    BY <1>1, <1>5, <1>6, OneCounted
  <2>. QED
    BY <2>1 DEF DiscoveryInv, Flight, Asked
<1>7. ASSUME NEW m \in Range(replies), m.type = t PROVE m.names = {}
  <2>1. m.op \notin {"list", "get"}
    BY <1>1, <1>4, <1>5, <1>7, OneCounted
  <2>2. m \in Message
    BY <1>1, ElementOfSeq, LenProperties DEF Range
  <2>. QED
    BY <2>1, <2>2 DEF DiscoveryInv, Flight, Answered, Sensible, Message
<1>8. Named(t) = {}
  BY <1>6, <1>7, NamedInFlight DEF NamesOf, InFlight
<1>. QED
  BY <1>5, <1>8 DEF Seen, NoUrls

\* What may happen to what a type has seen, and to what it has adopted.
SeenStep(t) ==
    \/ /\ \/ Seen(t)' \in {Seen(t), {}}
          \/ Seen(t)' = {NodeUrl[n] : n \in LiveNodes(t) \cap Usables}
          \/ \E n \in Usables : /\ NodeType[n] = t /\ znode[n] = "gone"
                                /\ Seen(t)' = Seen(t) \ {NodeUrl[n]}
       /\ urlv_current'[t] = urlv_current[t]
    \/ Seen(t) # {} /\ urlv_current'[t] = Seen(t) /\ Seen(t)' = {}

\* A watcher call: what was seen is kept, or all of it is given up.
LEMMA SeenChange ==
    ASSUME DiscoveryInv, NEW T \in SUBSET Type, NEW accepted \in BOOLEAN,
           on_list_change(T, accepted), NEW t \in Type,
           \/ Named(t)' = Named(t)
           \/ Named(t)' = {} /\ (t \in T \/ list_wanted[t] > 0 \/ get_pending[t] = 0)
    PROVE  SeenStep(t) /\ (t \notin T /\ Named(t)' = Named(t) => Seen(t)' = Seen(t))
<1>1. /\ urlv_current' = urlv_current
      /\ t \in Changed(T) => /\ list_pending[t] = 0 /\ get_pending[t] = 0
                             /\ urlv_new'[t] = NoUrls
      /\ t \in T \ Changed(T) => list_wanted'[t] > 0
      /\ t \notin Changed(T) => urlv_new'[t] = urlv_new[t]
      /\ t \notin T => list_wanted'[t] = list_wanted[t]
      /\ Changed(T) \subseteq T
  <2>1. /\ Changed(T) \subseteq T /\ urlv_current' = urlv_current
        /\ \A y \in Changed(T) : /\ list_pending[y] = 0 /\ get_pending[y] = 0
                                 /\ urlv_new'[y] = NoUrls
        /\ \A y \in T \ Changed(T) : list_wanted'[y] > 0
        /\ \A y \in Type \ Changed(T) : urlv_new'[y] = urlv_new[y]
        /\ \A y \in Type \ T : list_wanted'[y] = list_wanted[y]
    BY ChangeEffect
  <2>. QED
    BY <2>1
<1>2. CASE t \in Changed(T)
  <2>1. Named(t)' = {}
    BY <1>1, <1>2, IdleSeesNothing DEF IdleSees
  <2>2. Seen(t)' = {}
    BY <1>1, <1>2, <2>1 DEF Seen, NoUrls
  <2>. QED
    BY <1>1, <1>2, <2>2 DEF SeenStep
<1>3. CASE t \in T \ Changed(T)
  <2>1. Seen(t)' = {}
    BY <1>1, <1>3 DEF Seen
  <2>. QED
    BY <1>1, <1>3, <2>1 DEF SeenStep
<1>4. CASE t \notin T
  <2>1. list_wanted'[t] = list_wanted[t] /\ urlv_new'[t] = urlv_new[t]
    BY <1>1, <1>4
  <2>2. get_pending[t] = 0 => urlv_new[t] = NoUrls
    BY Counters
  <2>3. Seen(t)' \in {Seen(t), {}}
    BY <1>4, <2>1, <2>2 DEF Seen, NoUrls
  <2>4. Named(t)' = Named(t) => Seen(t)' = Seen(t)
    BY <2>1 DEF Seen
  <2>. QED
    BY <1>1, <2>3, <2>4 DEF SeenStep
<1>. QED
  BY <1>2, <1>3, <1>4

\* A watch fires: the other types keep what they have seen.
LEMMA SeenWatch ==
    ASSUME DiscoveryInv, DeliverWatch, NEW t \in Type
    PROVE  SeenStep(t) /\ (Head(replies).type # t => Seen(t)' = Seen(t))
<1>1. /\ ZkTypeOK /\ Flight /\ requests \in Seq(Message) /\ TypeAndPending
      /\ TRUE \in BOOLEAN
  BY DEF DiscoveryInv, TypeAndPending, TypeOK, ZkTypeOK
<1>. DEFINE m == Head(replies)
            T == {m.type}
<1>2. Receive("watch") /\ on_list_change(T, TRUE)
  BY DEF DeliverWatch
<1>3. PICK order \in Orders(Changed(T)) : requests' = requests \o Lists(order)
  BY DEF DeliverWatch, Send
<1>4. /\ m.op = "watch" /\ m \in Range(replies)
      /\ Range(replies) = {m} \cup Range(replies')
  BY <1>1, <1>2, ReceiveFlow
<1>5. m.names = {}
  BY <1>1, <1>4 DEF Flight, Answered, Sensible
<1>6. T \in SUBSET Type
  BY <1>1, <1>2, HeadIsPending
<1>. HIDE DEF m, T
<1>7. Changed(T) \in SUBSET Type
  BY <1>1, <1>2, <1>6, ChangeEffect
<1>8. Range(requests') = Range(requests) \cup {Msg("list", y, {}) : y \in Changed(T)}
  BY <1>1, <1>3, <1>7, SendFlow
<1>9. /\ InFlight' = (Range(requests) \cup Range(replies'))
                        \cup {Msg("list", y, {}) : y \in Changed(T)}
      /\ InFlight = (Range(requests) \cup Range(replies')) \cup {m}
  BY <1>4, <1>8 DEF InFlight
<1>10. Named(t)' = Named(t)
  <2>. DEFINE R == Range(requests) \cup Range(replies')
              B == {Msg("list", y, {}) : y \in Changed(T)}
  <2>1. \A x \in {m} \cup B : NamesOf(x, t) = {}
    BY <1>5 DEF NamesOf, Msg
  <2>2. InFlight = R \cup {m} /\ InFlight' = R \cup B
    BY <1>9
  <2>. HIDE DEF R, B
  <2>. QED
    BY <2>1, <2>2, NamedSame
<1>11. SeenStep(t) /\ (t \notin T => Seen(t)' = Seen(t))
  BY <1>1, <1>2, <1>6, <1>10, SeenChange
<1>. QED
  BY <1>11 DEF T, m

\* The session events: every watcher is called.
LEMMA SeenWatcher ==
    ASSUME DiscoveryInv, Disconnect \/ Reconnect \/ SessionExpired,
           NEW t \in Type
    PROVE  SeenStep(t)
<1>1. ZkTypeOK /\ Flight /\ requests \in Seq(Message) /\ TypeAndPending /\ armed \in SUBSET Type
  BY DEF DiscoveryInv, TypeAndPending, TypeOK, ZkTypeOK
<1>2. TRUE \in BOOLEAN /\ FALSE \in BOOLEAN
  OBVIOUS
<1>3. CASE Disconnect
  <2>. DEFINE T == IF session = "connected" THEN armed ELSE {}
              sent == Range(replies) \cup Range(requests)
                        \cup {Msg("list", y, {}) : y \in Changed(T)}
  <2>1. /\ T \in SUBSET Type /\ on_list_change(T, TRUE)
        /\ requests' = <<>>
        /\ Range(replies') = {Lost(m) : m \in sent}
        /\ session # "connected" => T = {}
        /\ session = "connected" => T = armed
    BY <1>3, DisconnectFlow
  <2>. HIDE DEF T, sent
  <2>2. \A m \in InFlight' : m.rc = "ZCONNECTIONLOSS"
    <3>1. Range(requests') = {}
      BY <2>1 DEF Range
    <3>2. \A m \in sent : m \in Message
      <4>1. \A m \in Range(replies) \cup Range(requests) : m \in Message
        BY <1>1, ElementOfSeq, LenProperties DEF ZkTypeOK, Range
      <4>2. \A y \in Changed(T) : Msg("list", y, {}) \in Message
        <5>1. Changed(T) \in SUBSET Type
          BY <1>2, <2>1, ChangeEffect
        <5>. QED
          BY <5>1 DEF Msg, Message
      <4>. QED
        BY <4>1, <4>2 DEF sent
    <3>3. \A m \in sent : Lost(m).rc = "ZCONNECTIONLOSS"
      BY <3>2 DEF Lost, Message
    <3>. QED
      BY <2>1, <3>1, <3>3 DEF InFlight
  <2>3. Named(t)' = {}
    BY <2>2, NamedNext DEF NamesOf
  <2>4. CASE session = "connected"
    <3>1. t \in T \/ list_wanted[t] > 0 \/ get_pending[t] = 0
      <4>1. list_wanted[t] \in Nat /\ get_pending[t] \in Nat
        BY Counters
      <4>. QED
        BY <1>1, <2>1, <2>4, <4>1 DEF Flight, Watched
    <3>. QED
      BY <1>2, <2>1, <2>3, <3>1, SeenChange
  <2>5. CASE session # "connected"
    <3>1. \A m \in InFlight : NamesOf(m, t) = {}
      BY <1>1, <2>5 DEF Flight, Asked, CutOff, InFlight, NamesOf
    <3>2. Named(t)' = Named(t)
      BY <2>3, <3>1, NamedInFlight
    <3>. QED
      BY <1>2, <2>1, <3>2, SeenChange
  <2>. QED
    BY <2>4, <2>5
<1>4. CASE Reconnect
  <2>1. on_list_change(armed, TRUE)
    BY <1>4 DEF Reconnect
  <2>2. PICK order \in Orders(Changed(armed)) : ResumeSession(Lists(order))
    BY <1>4 DEF Reconnect
  <2>3. replies = <<>> /\ requests' = requests \o Lists(order)
    BY <2>2 DEF ResumeSession, Send
  <2>4. PICK owed \in Orders(armed \ watching) : replies' = Events(owed)
    BY <2>2 DEF ResumeSession
  <2>5. Changed(armed) \in SUBSET Type
    BY <1>1, <1>2, <2>1, ChangeEffect
  <2>6. Range(requests') = Range(requests) \cup {Msg("list", y, {}) : y \in Changed(armed)}
    BY <1>1, <2>3, <2>5, SendFlow
  <2>7. Range(replies') = {Msg("watch", y, {}) : y \in armed \ watching} /\ Range(replies) = {}
    <3>1. Range(replies') = {Msg("watch", y, {}) : y \in armed \ watching}
      BY <2>4, RangeLists
    <3>2. Range(replies) = {}
      BY <2>3 DEF Range
    <3>. QED
      BY <3>1, <3>2
  <2>8. Named(t)' = Named(t)
    <3>. DEFINE B == {Msg("list", y, {}) : y \in Changed(armed)}
                       \cup {Msg("watch", y, {}) : y \in armed \ watching}
    <3>1. \A m \in B : NamesOf(m, t) = {}
      BY DEF NamesOf, Msg
    <3>2. InFlight = Range(requests) \cup {} /\ InFlight' = Range(requests) \cup B
      BY <2>6, <2>7 DEF InFlight
    <3>. QED
      BY <3>1, <3>2, NamedSame
  <2>. QED
    BY <1>1, <1>2, <2>1, <2>8, SeenChange
<1>5. CASE SessionExpired
  <2>1. on_list_change(armed, FALSE) /\ requests' = requests /\ replies' = replies
    BY <1>5 DEF SessionExpired, EndSession
  <2>2. Named(t)' = Named(t)
    BY <2>1, NamedInFlight, NamedNext DEF InFlight
  <2>. QED
    BY <1>1, <1>2, <2>1, <2>2, SeenChange
<1>. QED
  BY <1>3, <1>4, <1>5

\* The server answers: a list shows what is live, a get what has gone.
LEMMA SeenServer ==
    ASSUME DiscoveryInv, ServerAnswer, UNCHANGED zsVars, NEW t \in Type
    PROVE  LET m == Head(requests)
           IN  /\ SeenStep(t)
               /\ m.type # t \/ (m.op = "get" /\ m.names \cap Usables \subseteq LiveNodes(t))
                     => Seen(t)' = Seen(t)
               /\ m.type = t /\ m.op = "list" /\ Served(m) /\ list_wanted[t] = 0
                     => Seen(t)' = Usable(t)
<1>. DEFINE m == Head(requests)
            a == Answer(m)
            rest == Range(requests') \cup Range(replies)
            new == {u \in Url : urlv_new[t][u] > 0}
<1>1. ZkTypeOK /\ Flight
  BY DEF DiscoveryInv, TypeAndPending, TypeOK
<1>2. /\ m \in Message /\ m \in Range(requests)
      /\ Range(requests) = {m} \cup Range(requests')
      /\ Range(replies') = Range(replies) \cup {a}
  BY <1>1, ServerFlow
<1>3. /\ UNCHANGED <<list_wanted, urlv_new, urlv_current>>
  BY DEF zsVars
<1>4. InFlight = rest \cup {m} /\ InFlight' = rest \cup {a}
  BY <1>2 DEF InFlight
<1>5. /\ Sensible(m) /\ m.rc = "ZOK"
      /\ m.op \in {"list", "get"} /\ (m.op = "list" => m.names = {})
  BY <1>1, <1>2 DEF Flight, Asked
<1>6. /\ a.op = m.op /\ a.type = m.type
      /\ a.names = IF m.op = "list" THEN LiveNodes(m.type) ELSE m.names
      /\ a.rc = IF Served(m) THEN "ZOK" ELSE "ZNONODE"
  BY <1>2 DEF Answer, Message
<1>. DEFINE others == UNION {NamesOf(x, t) : x \in rest}
<1>. HIDE DEF m, a, rest
<1>7. Named(t) = others \cup NamesOf(m, t) /\ Named(t)' = others \cup NamesOf(a, t)
  <2>1. UNION {NamesOf(x, t) : x \in rest \cup {m}} = others \cup NamesOf(m, t)
    OBVIOUS
  <2>2. UNION {NamesOf(x, t) : x \in rest \cup {a}} = others \cup NamesOf(a, t)
    OBVIOUS
  <2>. QED
    BY <1>4, <2>1, <2>2, NamedInFlight, NamedNext
<1>8. /\ Seen(t) = IF list_wanted[t] > 0 THEN {} ELSE new \cup Named(t)
      /\ Seen(t)' = IF list_wanted[t] > 0 THEN {} ELSE new \cup Named(t)'
  BY <1>3 DEF Seen
<1>. HIDE DEF others, new
<1>9. ASSUME NamesOf(a, t) = NamesOf(m, t)
      PROVE  SeenStep(t) /\ Seen(t)' = Seen(t)
  <2>1. Seen(t)' = Seen(t)
    BY <1>7, <1>8, <1>9
  <2>. QED
    BY <1>3, <2>1 DEF SeenStep
<1>10. ASSUME m.type = t, m.op = "list", Served(m)
      PROVE  SeenStep(t) /\ (list_wanted[t] = 0 => Seen(t)' = Usable(t))
  <2>1. Named(t) = {} /\ Seen(t) = {} /\ urlv_new[t] = NoUrls
    BY <1>2, <1>10, RelistedSeesNothing DEF RelistedSees
  <2>2. new = {}
    BY <2>1 DEF new, NoUrls
  <2>3. NamesOf(a, t) = {NodeUrl[n] : n \in LiveNodes(t) \cap Usables}
    BY <1>6, <1>10 DEF NamesOf
  <2>4. Seen(t)' = IF list_wanted[t] > 0 THEN {} ELSE NamesOf(a, t)
    BY <1>7, <1>8, <2>1, <2>2, <2>3
  <2>5. SeenStep(t)
    BY <1>3, <2>3, <2>4 DEF SeenStep
  <2>6. NamesOf(a, t) = Usable(t)
    BY <2>3 DEF Usable, LiveNodes, Usables
  <2>. QED
    BY <2>4, <2>5, <2>6
<1>11. ASSUME m.type = t, m.op = "list", ~Served(m)
      PROVE  SeenStep(t)
  <2>1. NamesOf(a, t) = {} /\ NamesOf(m, t) = {}
    BY <1>5, <1>6, <1>11 DEF NamesOf
  <2>. QED
    BY <1>9, <2>1
<1>12. ASSUME m.type = t, m.op = "get", ~Served(m)
      PROVE  /\ SeenStep(t)
             /\ m.names \cap Usables \subseteq LiveNodes(t) => Seen(t)' = Seen(t)
  <2>1. PICK n : m.names = {n} /\ Known(n, t)
    BY <1>5, <1>12 DEF Sensible
  <2>2. n \in Node /\ NodeType[n] = t /\ znode[n] = "gone"
    BY <1>1, <1>12, <2>1 DEF Known, Served, ZkTypeOK
  <2>3. NamesOf(a, t) = {}
    BY <1>6, <1>12 DEF NamesOf
  <2>4. CASE n \notin Usables
    <3>1. NamesOf(m, t) = {}
      BY <2>1, <2>4 DEF NamesOf
    <3>. QED
      BY <1>9, <2>3, <3>1
  <2>5. CASE n \in Usables
    <3>1. NamesOf(m, t) = {NodeUrl[n]}
      BY <1>5, <1>12, <2>1, <2>5 DEF NamesOf
    <3>2. Seen(t)' = Seen(t) \/ Seen(t)' = Seen(t) \ {NodeUrl[n]}
      BY <1>7, <1>8, <2>3, <3>1
    <3>3. ~(m.names \cap Usables \subseteq LiveNodes(t))
      BY <2>1, <2>2, <2>5 DEF LiveNodes
    <3>. QED
      BY <1>3, <2>2, <2>5, <3>2, <3>3 DEF SeenStep
  <2>. QED
    BY <2>4, <2>5
<1>13. ASSUME m.type = t, m.op = "get", Served(m)
      PROVE  SeenStep(t) /\ Seen(t)' = Seen(t)
  <2>1. NamesOf(a, t) = NamesOf(m, t)
    BY <1>5, <1>6, <1>13 DEF NamesOf
  <2>. QED
    BY <1>9, <2>1
<1>14. ASSUME m.type # t
      PROVE  SeenStep(t) /\ Seen(t)' = Seen(t)
  <2>1. NamesOf(a, t) = {} /\ NamesOf(m, t) = {}
    BY <1>6, <1>14 DEF NamesOf
  <2>. QED
    BY <1>9, <2>1
<1>. QED
  BY <1>5, <1>10, <1>11, <1>12, <1>13, <1>14 DEF m

\* Peers and operators come and go unseen until they are asked for.
LEMMA SeenPeers ==
    ASSUME DiscoveryInv, NEW t \in Type,
           \/ \E k \in Type : CreateType(k)
           \/ \E n \in Node : Publish(n) \/ Expire(n),
           UNCHANGED zsVars
    PROVE  Seen(t)' = Seen(t) /\ urlv_current' = urlv_current
<1>1. ZkTypeOK
  BY DEF DiscoveryInv, TypeAndPending, TypeOK
<1>2. /\ requests' = requests
      /\ \/ Range(replies') = Range(replies)
         \/ \E k \in Type : Range(replies') = Range(replies) \cup {Msg("watch", k, {})}
  <2>1. CASE \E k \in Type : CreateType(k)
    BY <2>1 DEF CreateType
  <2>2. CASE \E n \in Node : Publish(n) \/ Expire(n)
    <3>1. PICK n \in Node : FireWatch(NodeType[n]) /\ requests' = requests
      BY <2>2 DEF Publish, Expire
    <3>2. NodeType[n] \in Type
      BY ZooKeeperAssumption
    <3>. QED
      BY <1>1, <3>1, <3>2, FireFlow
  <2>. QED
    BY <2>1, <2>2
<1>3. Named(t)' = Named(t)
  <2>1. CASE Range(replies') = Range(replies)
    BY <1>2, <2>1, NamedInFlight, NamedNext DEF InFlight
  <2>2. ASSUME NEW k \in Type, Range(replies') = Range(replies) \cup {Msg("watch", k, {})}
        PROVE  Named(t)' = Named(t)
    <3>. DEFINE B == {Msg("watch", k, {})}
    <3>1. InFlight = InFlight \cup {} /\ InFlight' = InFlight \cup B
      BY <1>2, <2>2 DEF InFlight
    <3>2. \A m \in B : NamesOf(m, t) = {}
      BY DEF NamesOf, Msg
    <3>. HIDE DEF B
    <3>. QED
      BY <3>1, <3>2, NamedSame
  <2>. QED
    BY <1>2, <2>1, <2>2
<1>. QED
  BY <1>3 DEF Seen, zsVars

\* The registration asks; nothing is seen yet.
LEMMA SeenRegister ==
    ASSUME DiscoveryInv, Register, NEW t \in Type
    PROVE  SeenStep(t)
<1>1. requests \in Seq(Message)
  BY DEF DiscoveryInv, TypeAndPending, TypeOK, ZkTypeOK
<1>2. PICK order \in Orders(Type) : requests' = requests \o Lists(order)
  BY DEF Register, Send
<1>. DEFINE B == {Msg("list", y, {}) : y \in Type}
<1>3. Range(requests') = Range(requests) \cup B
  BY <1>1, <1>2, SendFlow
<1>4. UNCHANGED <<replies, list_wanted, urlv_current>> /\ urlv_new'[t] = NoUrls
  BY DEF Register, restart_list, peerVars
<1>5. InFlight = InFlight \cup {} /\ InFlight' = InFlight \cup B
  BY <1>3, <1>4 DEF InFlight
<1>6. \A m \in B : NamesOf(m, t) = {}
  BY DEF NamesOf, Msg
<1>. HIDE DEF B
<1>7. Named(t)' = Named(t)
  BY <1>5, <1>6, NamedSame
<1>8. Named(t) = {}
  <2>1. list_pending[t] = 0 /\ get_pending[t] = 0
    BY DEF Register, DiscoveryInv, Unregistered
  <2>. QED
    BY <2>1, IdleSeesNothing DEF IdleSees
<1>9. Seen(t)' = {}
  BY <1>4, <1>7, <1>8 DEF Seen, NoUrls
<1>. QED
  BY <1>4, <1>9 DEF SeenStep

\* A new look at type t is to come: a list is to be served, or to be sent.
Asking(t) == list_wanted[t] > 0 \/ \E m \in Range(requests) : m.op = "list" /\ m.type = t

Waiting(t) == list_pending[t] + get_pending[t] > 0

\* What is named of type t is live.
LiveNamed(t) ==
    \A m \in InFlight : m.type = t /\ m.rc = "ZOK" => m.names \cap Usables \subseteq LiveNodes(t)

\* What an answer may do to a type that has been looked at: the round goes on,
\* or ends with what was seen, unless another look is to come.
RoundStep(t) ==
    \/ Asking(t)'
    \/ /\ ~Asking(t)
       /\ LiveNamed(t) => LiveNamed(t)'
       /\ \/ /\ Seen(t)' = Seen(t) /\ urlv_current'[t] = urlv_current[t]
             /\ Waiting(t)' <=> Waiting(t)
          \/ /\ Waiting(t) /\ ~Waiting(t)'
             /\ urlv_current'[t] = Seen(t) \/ Seen(t) = {}

\* on_list_completion: what the list showed is asked for, and nothing else.
LEMMA SeenList ==
    ASSUME DiscoveryInv, DiscoveryInv', DeliverList, NEW t \in Type
    PROVE  SeenStep(t) /\ RoundStep(t)
<1>. DEFINE m == Head(replies)
            k == m.type
            children == IF m.rc = "ZOK" THEN m.names ELSE {}
            lists == [list_pending EXCEPT ![k] = @ - 1]
            gets == [get_pending EXCEPT ![k] = @ + Cardinality(children)]
            again == Relisted({k}, list_wanted, lists, gets)
            G == {Msg("get", k, {n}) : n \in children}
            L == {Msg("list", y, {}) : y \in again}
            R == Range(requests) \cup Range(replies')
<1>1. ZkTypeOK /\ TypeAndPending /\ requests \in Seq(Message)
  BY DEF DiscoveryInv, TypeAndPending, TypeOK, ZkTypeOK
<1>2. /\ Receive("list")
      /\ list_wanted' = Consumed(again, list_wanted)
      /\ restart_list(again, lists, urlv_new, TRUE)
      /\ get_pending' = gets
      /\ urlv_current' = urlv_current
  BY DEF DeliverList, peerVars
<1>3. PICK corder \in Orders(children), order \in Orders(again) :
        requests' = requests \o (Gets(k, corder) \o Lists(order))
  BY DEF DeliverList, Send
<1>4. /\ m \in Message /\ m \in Range(replies) /\ znode' = znode
      /\ Range(replies) = {m} \cup Range(replies')
  BY <1>1, <1>2, ReceiveFlow
<1>5. k \in Type
  BY <1>1, <1>2, HeadIsPending
<1>. HIDE DEF m
<1>6. children \in SUBSET Node
  BY <1>4 DEF Message
<1>7. again \in SUBSET Type
  BY <1>5 DEF Relisted
<1>. HIDE DEF children, k, again
<1>8. Range(requests') = Range(requests) \cup G \cup L
  <2>1. Lists(order) \in Seq(Message)
    BY <1>7, ListsCount, ZooKeeperAssumption
  <2>2. Gets(k, corder) \in Seq(Message)
    BY <1>5, <1>6, GetsCount, ZooKeeperAssumption
  <2>3. Gets(k, corder) \o Lists(order) \in Seq(Message)
    BY <2>1, <2>2, ConcatProperties
  <2>4. Range(requests') = Range(requests) \cup Range(Gets(k, corder) \o Lists(order))
    BY <1>1, <1>3, <2>3, RangeConcatenation
  <2>5. Range(Gets(k, corder) \o Lists(order)) = Range(Gets(k, corder)) \cup Range(Lists(order))
    BY <2>1, <2>2, RangeConcatenation
  <2>6. Range(Lists(order)) = L
    BY RangeLists
  <2>7. Range(Gets(k, corder)) = G
    BY RangeGets
  <2>. QED
    BY <2>4, <2>5, <2>6, <2>7
<1>9. InFlight = R \cup {m} /\ InFlight' = R \cup (G \cup L)
  BY <1>4, <1>8 DEF InFlight
<1>10. \A u : (\E x \in {m} : u \in NamesOf(x, t)) <=> (\E x \in G \cup L : u \in NamesOf(x, t))
  <2>1. \A x \in L : NamesOf(x, t) = {}
    BY DEF NamesOf, Msg
  <2>2. \A u : u \in NamesOf(m, t)
           <=> k = t /\ \E n \in children \cap Usables : NodeUrl[n] = u
    BY DEF NamesOf, children, k
  <2>3. \A u, n : u \in NamesOf(Msg("get", k, {n}), t)
           <=> k = t /\ n \in Usables /\ NodeUrl[n] = u
    BY DEF NamesOf, Msg
  <2>4. \A x : x \in G <=> \E n \in children : x = Msg("get", k, {n})
    OBVIOUS
  <2>. HIDE DEF G, L
  <2>5. ASSUME NEW u, NEW x \in G, u \in NamesOf(x, t)
        PROVE  k = t /\ \E n \in children \cap Usables : NodeUrl[n] = u
    BY <2>3, <2>4, <2>5
  <2>6. ASSUME NEW u, k = t, NEW n \in children \cap Usables, NodeUrl[n] = u
        PROVE  \E x \in G : u \in NamesOf(x, t)
    BY <2>3, <2>4, <2>6
  <2>. QED
    BY <2>1, <2>2, <2>5, <2>6
<1>11. Named(t)' = Named(t)
  <2>. HIDE DEF G, L, R
  <2>1. UNION {NamesOf(x, t) : x \in InFlight} = UNION {NamesOf(x, t) : x \in InFlight'}
    BY <1>9, <1>10
  <2>. QED
    BY <2>1, NamedInFlight, NamedNext
<1>12. CASE t \in again
  <2>1. Msg("list", t, {}) \in Range(requests')
    BY <1>8, <1>12
  <2>2. RelistedSees'
    BY RelistedSeesNothing, PTL
  <2>3. Seen(t)' = {}
    BY <2>1, <2>2 DEF RelistedSees, Msg
  <2>4. Asking(t)'
    BY <2>1 DEF Asking, Msg
  <2>. QED
    BY <1>2, <2>3, <2>4 DEF SeenStep, RoundStep
<1>13. CASE t \notin again
  <2>1. list_wanted'[t] = list_wanted[t] /\ urlv_new'[t] = urlv_new[t] /\ list_pending'[t] = lists[t]
    BY <1>2, <1>13 DEF Consumed, restart_list
  <2>2. Seen(t)' = Seen(t)
    BY <1>11, <2>1 DEF Seen
  <2>3. Asking(t) => Asking(t)'
    BY <1>8, <2>1 DEF Asking
  <2>4. LiveNamed(t) => LiveNamed(t)'
    <3>. HIDE DEF R
    <3>. SUFFICES ASSUME LiveNamed(t), NEW x \in InFlight', x.type = t, x.rc = "ZOK"
                  PROVE  x.names \cap Usables \subseteq LiveNodes(t)
      BY <1>4 DEF LiveNamed, LiveNodes, Usables, Compatible
    <3>1. CASE x \in R
      BY <1>9, <3>1 DEF LiveNamed
    <3>2. CASE x \in L
      BY <3>2 DEF Msg
    <3>3. CASE x \in G
      <4>1. PICK n \in children : x = Msg("get", k, {n})
        BY <3>3
      <4>2. x.names = {n} /\ k = t
        BY <4>1 DEF Msg
      <4>3. m \in InFlight /\ m.type = t /\ m.rc = "ZOK" /\ n \in m.names
        BY <1>9, <4>1, <4>2 DEF children, k
      <4>. QED
        BY <4>2, <4>3 DEF LiveNamed
    <3>. QED
      BY <1>9, <3>1, <3>2, <3>3
  <2>5. \/ Waiting(t)' <=> Waiting(t)
        \/ Waiting(t) /\ ~Waiting(t)' /\ Seen(t) = {}
    <3>1. list_pending \in [Type -> Nat] /\ get_pending \in [Type -> Nat]
      BY <1>1 DEF TypeAndPending, TypeOK, ZsTypeOK
    <3>2. CASE t # k
      <4>1. list_pending'[t] = list_pending[t] /\ get_pending'[t] = get_pending[t]
        BY <1>2, <2>1, <3>1, <3>2
      <4>. QED
        BY <4>1 DEF Waiting
    <3>3. CASE t = k
      <4>1. list_pending[t] > 0
        BY <1>1, <1>2, <3>3, HeadIsPending DEF k, m
      <4>2. Waiting(t)
        BY <3>1, <4>1 DEF Waiting
      <4>3. list_pending'[t] \in Nat /\ get_pending'[t] \in Nat
        <5>1. TypeAndPending'
          BY DEF DiscoveryInv
        <5>. QED
          BY <5>1 DEF TypeAndPending, TypeOK, ZsTypeOK
      <4>4. CASE ~Waiting(t)'
        <5>1. list_pending'[t] = 0 /\ get_pending'[t] = 0
          BY <4>3, <4>4 DEF Waiting
        <5>2. IdleSees'
          BY IdleSeesNothing, PTL
        <5>3. Seen(t)' = {}
          BY <5>1, <5>2 DEF IdleSees
        <5>. QED
          BY <2>2, <4>2, <4>4, <5>3
      <4>. QED
        BY <4>2, <4>4
    <3>. QED
      BY <3>2, <3>3
  <2>6. RoundStep(t)
    BY <1>2, <2>2, <2>3, <2>4, <2>5 DEF RoundStep
  <2>. QED
    BY <1>2, <2>2, <2>6 DEF SeenStep
<1>. QED
  BY <1>12, <1>13

\* zco_reconnect: the URLs collected become the current ones.
LEMMA AdoptsCollected ==
    ASSUME ZsTypeOK, NEW t \in Type, NEW new \in [Url -> Nat], new # NoUrls,
           zco_reconnect(t, new)
    PROVE  /\ urlv_current'[t] = {u \in Url : new[u] > 0}
           /\ \A y \in Type \ {t} : urlv_current'[y] = urlv_current[y]
<1>. DEFINE add == Added(urlv_current[t], new)
            rem == Removed(urlv_current[t], new)
<1>1. urlv_current' = [urlv_current EXCEPT ![t] = (@ \cup {u \in Url : add[u] > 0}) \ rem]
  BY DEF zco_reconnect, Adopted
<1>2. urlv_current \in [Type -> SUBSET Url]
  BY DEF ZsTypeOK
<1>3. \A u \in Url : add[u] = IF u \in urlv_current[t] /\ new[u] > 0 THEN new[u] - 1 ELSE new[u]
  BY DEF Added
<1>4. rem = {u \in urlv_current[t] : new[u] = 0}
  BY DEF Removed
<1>. HIDE DEF add, rem
<1>5. (urlv_current[t] \cup {u \in Url : add[u] > 0}) \ rem = {u \in Url : new[u] > 0}
  <2>1. \A u \in Url : new[u] \in Nat
    OBVIOUS
  <2>2. urlv_current[t] \subseteq Url
    BY <1>2
  <2>. QED
    BY <1>3, <1>4, <2>1, <2>2
<1>. QED
  BY <1>1, <1>2, <1>5

\* on_get: the node joins what was collected, and the last one ends the round.
LEMMA SeenGet ==
    ASSUME DiscoveryInv, DiscoveryInv', DeliverGet, NEW t \in Type
    PROVE  SeenStep(t) /\ RoundStep(t)
<1>. DEFINE m == Head(replies)
            k == m.type
            gets == [get_pending EXCEPT ![k] = @ - 1]
            kept == {n \in m.names : m.rc = "ZOK" /\ Compatible(n)}
            new == [urlv_new EXCEPT ![k] = [u \in Url |->
                      IF \E n \in kept : NodeUrl[n] = u THEN @[u] + 1 ELSE @[u]]]
            collected == new[k]
            over == RoundOver(k, list_wanted, list_pending, gets)
            again == Relisted({k}, list_wanted, list_pending, gets)
            left == IF over THEN [new EXCEPT ![k] = NoUrls] ELSE new
            L == {Msg("list", y, {}) : y \in again}
            R == Range(requests) \cup Range(replies')
<1>1. /\ ZkTypeOK /\ ZsTypeOK /\ TypeAndPending /\ requests \in Seq(Message)
      /\ urlv_new \in [Type -> [Url -> Nat]] /\ get_pending \in [Type -> Nat]
      /\ list_wanted[t] \in Nat
  BY DEF DiscoveryInv, TypeAndPending, TypeOK, ZkTypeOK, ZsTypeOK
<1>2. /\ Receive("get")
      /\ get_pending' = gets
      /\ IF over THEN zco_reconnect(k, collected) ELSE UNCHANGED peerVars
      /\ list_wanted' = Consumed(again, list_wanted)
      /\ restart_list(again, list_pending, left, TRUE)
  BY DEF DeliverGet
<1>3. PICK order \in Orders(again) : requests' = requests \o Lists(order)
  BY DEF DeliverGet, Send
<1>4. /\ m \in Message /\ m.op = "get" /\ m \in Range(replies) /\ znode' = znode
      /\ Range(replies) = {m} \cup Range(replies')
  BY <1>1, <1>2, ReceiveFlow
<1>5. k \in Type /\ get_pending[k] > 0
  BY <1>1, <1>2, HeadIsPending
<1>6. again \in SUBSET Type
  BY <1>5 DEF Relisted
<1>7. list_pending[k] = 0
  <2>1. /\ list_pending[k] \in Nat /\ list_pending[k] <= 1
        /\ list_pending[k] = 1 => get_pending[k] = 0
    BY <1>5, Counters
  <2>. QED
    BY <1>5, <2>1
<1>8. NamesOf(m, k) = {NodeUrl[n] : n \in kept}
  <2>1. m.names \subseteq Node
    BY <1>4 DEF Message
  <2>. QED
    BY <2>1 DEF NamesOf, Usables
<1>. HIDE DEF m, k, kept
<1>9. Range(requests') = Range(requests) \cup L
  BY <1>1, <1>3, <1>6, SendFlow
<1>10. InFlight = R \cup {m} /\ InFlight' = R \cup L
  BY <1>4, <1>9 DEF InFlight
<1>11. \A x \in L : NamesOf(x, t) = {}
  BY DEF NamesOf, Msg
<1>12. LiveNamed(t) => LiveNamed(t)'
  <2>. SUFFICES ASSUME LiveNamed(t), NEW x \in InFlight', x.type = t, x.rc = "ZOK"
                PROVE  x.names \cap Usables \subseteq LiveNodes(t)
    BY <1>4 DEF LiveNamed, LiveNodes, Usables, Compatible
  <2>1. CASE x \in R
    BY <1>10, <2>1 DEF LiveNamed
  <2>2. CASE x \in L
    BY <2>2 DEF Msg
  <2>. QED
    BY <1>10, <2>1, <2>2
<1>. HIDE DEF R, L
<1>13. Named(t) = Named(t)' \cup NamesOf(m, t)
  <2>1. UNION {NamesOf(x, t) : x \in R \cup {m}}
          = (UNION {NamesOf(x, t) : x \in R}) \cup NamesOf(m, t)
    OBVIOUS
  <2>2. UNION {NamesOf(x, t) : x \in R \cup L} = UNION {NamesOf(x, t) : x \in R}
    BY <1>11
  <2>. QED
    BY <1>10, <2>1, <2>2, NamedInFlight, NamedNext
<1>14. /\ collected \in [Url -> Nat]
       /\ \A u \in Url : collected[u] > 0
             <=> urlv_new[k][u] > 0 \/ u \in NamesOf(m, k)
       /\ DOMAIN new = Type
       /\ \A y \in Type \ {k} : new[y] = urlv_new[y]
  <2>1. DOMAIN new = Type /\ \A y \in Type \ {k} : new[y] = urlv_new[y]
    BY <1>1
  <2>2. collected = [u \in Url |-> IF \E n \in kept : NodeUrl[n] = u
                                   THEN urlv_new[k][u] + 1 ELSE urlv_new[k][u]]
    BY <1>1, <1>5
  <2>3. urlv_new[k] \in [Url -> Nat]
    BY <1>1, <1>5
  <2>. HIDE DEF collected, new
  <2>4. \A u : u \in NamesOf(m, k) <=> \E n \in kept : NodeUrl[n] = u
    BY <1>8
  <2>. QED
    BY <2>1, <2>2, <2>3, <2>4
<1>15. /\ gets[k] = get_pending[k] - 1
       /\ \A y \in Type \ {k} : gets[y] = get_pending[y]
  BY <1>1, <1>5
<1>16. \A y \in Type : /\ list_wanted'[y] = IF y \in again THEN list_wanted[y] - 1
                                                             ELSE list_wanted[y]
                       /\ urlv_new'[y] = IF y \in again THEN NoUrls ELSE left[y]
                       /\ list_pending'[y] = IF y \in again THEN list_pending[y] + 1
                                                             ELSE list_pending[y]
  BY <1>2 DEF Consumed, restart_list
<1>17. /\ again \subseteq {k}
       /\ k \in again <=> gets[k] = 0 /\ list_wanted[k] > 0
       /\ over <=> gets[k] = 0 /\ list_wanted[k] = 0
  BY <1>7 DEF Relisted, RoundOver
<1>18. /\ over => left[k] = NoUrls
       /\ ~over => left[k] = collected
       /\ \A y \in Type \ {k} : left[y] = urlv_new[y]
  BY <1>5, <1>14
<1>. HIDE DEF new, collected, over, again, left, gets
<1>19. t \notin again => (Asking(t) => Asking(t)')
  BY <1>9, <1>16 DEF Asking
<1>20. CASE t # k
  <2>1. t \notin again
    BY <1>17, <1>20
  <2>2. list_wanted'[t] = list_wanted[t] /\ urlv_new'[t] = urlv_new[t]
    BY <1>16, <1>18, <1>20, <2>1
  <2>3. NamesOf(m, t) = {}
    BY <1>20 DEF NamesOf, k
  <2>4. Seen(t)' = Seen(t)
    BY <1>13, <2>2, <2>3 DEF Seen
  <2>5. urlv_current'[t] = urlv_current[t]
    <3>1. CASE UNCHANGED peerVars \/ collected = NoUrls
      BY <1>2, <3>1 DEF peerVars, zco_reconnect
    <3>2. CASE collected # NoUrls /\ zco_reconnect(k, collected)
      BY <1>1, <1>5, <1>14, <1>20, <3>2, AdoptsCollected
    <3>. QED
      BY <1>2, <3>1, <3>2
  <2>6. Waiting(t)' <=> Waiting(t)
    <3>1. list_pending'[t] = list_pending[t] /\ get_pending'[t] = get_pending[t]
      BY <1>2, <1>15, <1>16, <1>20, <2>1
    <3>. QED
      BY <3>1 DEF Waiting
  <2>. QED
    BY <1>12, <1>19, <2>1, <2>4, <2>5, <2>6 DEF SeenStep, RoundStep
<1>21. CASE t = k /\ list_wanted[t] > 0
  <2>1. urlv_current' = urlv_current
    BY <1>2, <1>17, <1>21 DEF peerVars
  <2>2. Seen(t)' = {} /\ Asking(t)'
    <3>1. CASE t \in again
      <4>1. Msg("list", t, {}) \in Range(requests')
        BY <1>9, <3>1 DEF L
      <4>2. RelistedSees'
        BY RelistedSeesNothing, PTL
      <4>. QED
        BY <4>1, <4>2 DEF RelistedSees, Asking, Msg
    <3>2. CASE t \notin again
      BY <1>16, <1>21, <3>2 DEF Seen, Asking
    <3>. QED
      BY <3>1, <3>2
  <2>. QED
    BY <2>1, <2>2 DEF SeenStep, RoundStep
<1>22. CASE t = k /\ list_wanted[t] = 0
  <2>1. t \notin again
    BY <1>17, <1>22
  <2>2. list_wanted'[t] = 0 /\ urlv_new'[t] = left[t]
    BY <1>16, <1>22, <2>1
  <2>3. Seen(t) = {u \in Url : collected[u] > 0} \cup Named(t)'
    <3>1. Named(t) \subseteq Url /\ Named(t) = Named(t)' \cup NamesOf(m, t)
      BY <1>13 DEF Named
    <3>2. Seen(t) = {u \in Url : urlv_new[t][u] > 0} \cup Named(t)
      BY <1>22 DEF Seen
    <3>. QED
      BY <1>14, <1>22, <3>1, <3>2
  <2>4. list_pending'[t] = 0 /\ get_pending'[t] = gets[t] /\ Waiting(t)
    <3>1. list_pending'[t] = 0 /\ get_pending'[t] = gets[t]
      BY <1>2, <1>7, <1>16, <1>22, <2>1
    <3>. QED
      BY <1>1, <1>5, <1>7, <1>22, <3>1 DEF Waiting
  <2>5. CASE ~over
    <3>1. Seen(t)' = {u \in Url : collected[u] > 0} \cup Named(t)'
      BY <1>18, <1>22, <2>2, <2>5 DEF Seen
    <3>2. urlv_current' = urlv_current
      BY <1>2, <2>5 DEF peerVars
    <3>3. Waiting(t)'
      <4>1. get_pending[k] \in Nat
        BY <1>1, <1>5
      <4>2. gets[t] > 0
        BY <1>5, <1>15, <1>17, <1>22, <2>5, <4>1
      <4>. QED
        BY <2>4, <4>1, <4>2, <1>15, <1>22 DEF Waiting
    <3>. QED
      BY <1>12, <1>19, <2>1, <2>3, <2>4, <3>1, <3>2, <3>3 DEF SeenStep, RoundStep
  <2>6. CASE over
    <3>1. list_pending'[t] = 0 /\ get_pending'[t] = 0 /\ ~Waiting(t)'
      BY <1>17, <1>22, <2>6, <2>4 DEF Waiting
    <3>2. IdleSees'
      BY IdleSeesNothing, PTL
    <3>3. Named(t)' = {} /\ Seen(t)' = {}
      BY <3>1, <3>2 DEF IdleSees
    <3>4. Seen(t) = {u \in Url : collected[u] > 0}
      BY <2>3, <3>3
    <3>5. CASE collected = NoUrls
      <4>1. urlv_current' = urlv_current
        BY <1>2, <2>6, <3>5 DEF zco_reconnect, peerVars
      <4>2. Seen(t) = {}
        BY <3>4, <3>5 DEF NoUrls
      <4>. QED
        BY <1>12, <1>19, <2>1, <2>4, <3>1, <3>3, <4>1, <4>2 DEF SeenStep, RoundStep
    <3>6. CASE collected # NoUrls
      <4>1. urlv_current'[t] = Seen(t)
        BY <1>1, <1>2, <1>14, <1>22, <2>6, <3>4, <3>6, AdoptsCollected
      <4>2. Seen(t) # {}
        BY <1>14, <3>4, <3>6 DEF NoUrls
      <4>. QED
        BY <1>12, <1>19, <2>1, <2>4, <3>1, <3>3, <4>1, <4>2 DEF SeenStep, RoundStep
    <3>. QED
      BY <3>5, <3>6
  <2>. QED
    BY <2>5, <2>6
<1>. QED
  BY <1>1, <1>20, <1>21, <1>22

\* What SeenStep says is what Discover allows.
LEMMA SeenIsDiscovered ==
    ASSUME znode' = znode, \A t \in Type : SeenStep(t)
    PROVE  Abstract!Discover
<1>1. \A t \in Type :
         \/ Abstract!Keep(t) \/ Abstract!Look(t) \/ Abstract!Forget(t)
         \/ Abstract!Abandon(t) \/ Abstract!Adopt(t)
  <2>. SUFFICES ASSUME NEW t \in Type
       PROVE  \/ Abstract!Keep(t) \/ Abstract!Look(t) \/ Abstract!Forget(t)
              \/ Abstract!Abandon(t) \/ Abstract!Adopt(t)
    OBVIOUS
  <2>1. SeenStep(t)
    OBVIOUS
  <2>2. CASE Seen(t)' = Seen(t) /\ urlv_current'[t] = urlv_current[t]
    BY <2>2 DEF Abstract!Keep
  <2>3. CASE Seen(t)' = {} /\ urlv_current'[t] = urlv_current[t]
    BY <2>3 DEF Abstract!Abandon
  <2>4. CASE /\ Seen(t)' = {NodeUrl[n] : n \in LiveNodes(t) \cap Usables}
             /\ urlv_current'[t] = urlv_current[t]
    <3>1. Abstract!UrlsOf(t, "live") = {NodeUrl[n] : n \in LiveNodes(t) \cap Usables}
      BY DEF Abstract!UrlsOf, LiveNodes, Usables
    <3>. QED
      BY <2>4, <3>1 DEF Abstract!Look
  <2>5. CASE /\ \E n \in Usables : /\ NodeType[n] = t /\ znode[n] = "gone"
                                   /\ Seen(t)' = Seen(t) \ {NodeUrl[n]}
             /\ urlv_current'[t] = urlv_current[t]
    <3>1. PICK n \in Usables : /\ NodeType[n] = t /\ znode[n] = "gone"
                               /\ Seen(t)' = Seen(t) \ {NodeUrl[n]}
      BY <2>5
    <3>2. NodeUrl[n] \in Abstract!UrlsOf(t, "gone")
      BY <3>1 DEF Abstract!UrlsOf
    <3>. QED
      BY <2>5, <3>1, <3>2 DEF Abstract!Forget
  <2>6. CASE Seen(t) # {} /\ urlv_current'[t] = Seen(t) /\ Seen(t)' = {}
    BY <2>6 DEF Abstract!Adopt
  <2>. QED
    BY <2>1, <2>2, <2>3, <2>4, <2>5, <2>6 DEF SeenStep
<1>2. [n \in Usables |-> znode[n]]' = [n \in Usables |-> znode[n]]
  BY DEF Usables, Compatible
<1>. QED
  BY <1>1, <1>2 DEF Abstract!Discover

\* The peers come and go as Discovery says.
LEMMA PeersChange ==
    ASSUME DiscoveryInv, Environment, ~ServerAnswer
    PROVE  Abstract!Change \/ UNCHANGED Abstract!vars
<1>1. /\ \/ \E k \in Type : CreateType(k)
         \/ \E n \in Node : Publish(n) \/ Expire(n)
      /\ UNCHANGED zsVars
  BY DEF Environment
<1>2. \A t \in Type : Seen(t)' = Seen(t) /\ urlv_current' = urlv_current
  BY <1>1, SeenPeers
<1>3. /\ [t \in Type |-> Seen(t)]' = [t \in Type |-> Seen(t)]
      /\ urlv_current' = urlv_current
  BY <1>1, <1>2 DEF zsVars
<1>4. znode \in [Node -> {"unborn", "live", "gone"}] /\ Usables \subseteq Node
  BY DEF DiscoveryInv, TypeAndPending, TypeOK, ZkTypeOK, Usables
<1>. DEFINE peers == [n \in Usables |-> znode[n]]
<1>5. \/ peers' = peers
      \/ \E n \in Usables : \/ peers[n] = "unborn" /\ peers' = [peers EXCEPT ![n] = "live"]
                            \/ peers[n] = "live" /\ peers' = [peers EXCEPT ![n] = "gone"]
  <2>1. peers' = [n \in Usables |-> znode'[n]]
    BY DEF Usables, Compatible
  <2>2. CASE \E k \in Type : CreateType(k)
    BY <2>1, <2>2 DEF CreateType
  <2>3. ASSUME NEW n \in Node, Publish(n) \/ Expire(n)
        PROVE  \/ peers' = peers
               \/ /\ n \in Usables
                  /\ \/ peers[n] = "unborn" /\ peers' = [peers EXCEPT ![n] = "live"]
                     \/ peers[n] = "live" /\ peers' = [peers EXCEPT ![n] = "gone"]
    <3>1. \/ znode[n] = "unborn" /\ znode' = [znode EXCEPT ![n] = "live"]
          \/ znode[n] = "live" /\ znode' = [znode EXCEPT ![n] = "gone"]
      BY <2>3 DEF Publish, Expire
    <3>2. CASE n \in Usables
      BY <1>4, <2>1, <3>1, <3>2
    <3>3. CASE n \notin Usables
      BY <1>4, <2>1, <3>1, <3>3
    <3>. QED
      BY <3>2, <3>3
  <2>. QED
    BY <1>1, <2>2, <2>3
<1>. QED
  BY <1>3, <1>5 DEF Abstract!Change, Abstract!vars

\* A lost event, or nothing: nothing is seen.
LEMMA SeenIdle ==
    ASSUME DiscoveryInv, SkipLost \/ UNCHANGED vars, NEW t \in Type
    PROVE  Seen(t)' = Seen(t) /\ UNCHANGED zsVars
<1>1. UNCHANGED zsVars
  BY DEF SkipLost, vars
<1>2. Named(t)' = Named(t)
  <2>1. CASE UNCHANGED vars
    BY <2>1, NamedInFlight, NamedNext DEF vars, zkVars, InFlight
  <2>2. CASE SkipLost
    <3>. DEFINE A == {Head(replies)}
    <3>1. ZkTypeOK /\ Flight /\ Receive("blank") /\ requests' = requests
      BY <2>2 DEF DiscoveryInv, TypeAndPending, TypeOK, SkipLost
    <3>2. /\ Head(replies).op = "blank" /\ Head(replies) \in Range(replies)
          /\ Range(replies) = A \cup Range(replies')
      BY <3>1, ReceiveFlow
    <3>3. \A m \in A : NamesOf(m, t) = {}
      BY <3>1, <3>2 DEF Flight, Answered, Sensible, NamesOf
    <3>. HIDE DEF A
    <3>4. InFlight = InFlight' \cup A /\ InFlight' = InFlight' \cup {}
      BY <3>1, <3>2 DEF InFlight
    <3>. QED
      BY <3>3, <3>4, NamedSame
  <2>. QED
    BY <2>1, <2>2
<1>. QED
  BY <1>1, <1>2 DEF Seen, zsVars

\* Every step of zsock.c's discovery is one of Discovery's, or none.
LEMMA NextRefines ==
    DiscoveryInv /\ [Next]_vars => [Abstract!Next]_(Abstract!vars)
<1>. SUFFICES ASSUME DiscoveryInv, [Next]_vars
              PROVE  Abstract!Next \/ UNCHANGED Abstract!vars
  OBVIOUS
<1>1. DiscoveryInv'
  BY NextDiscoveryInv
<1>2. CASE Environment /\ ~ServerAnswer
  BY <1>2, PeersChange DEF Abstract!Next
<1>3. CASE ~(Environment /\ ~ServerAnswer) /\ \A t \in Type : SeenStep(t)
  <2>1. znode' = znode
    BY <1>3 DEF Next, Environment, ServerAnswer, Register, Deliver, DeliverList, DeliverGet,
                DeliverWatch, SkipLost, Receive, Disconnect, LoseConnection, Reconnect,
                ResumeSession, SessionExpired, EndSession, vars, zkVars
  <2>. QED
    BY <1>3, <2>1, SeenIsDiscovered DEF Abstract!Next
<1>4. ServerAnswer /\ UNCHANGED zsVars => \A t \in Type : SeenStep(t)
  BY SeenServer
<1>5. Register => \A t \in Type : SeenStep(t)
  BY SeenRegister
<1>6. DeliverList \/ DeliverGet => \A t \in Type : SeenStep(t)
  BY <1>1, SeenList, SeenGet
<1>7. DeliverWatch \/ Disconnect \/ Reconnect \/ SessionExpired => \A t \in Type : SeenStep(t)
  BY SeenWatch, SeenWatcher
<1>8. SkipLost \/ UNCHANGED vars => \A t \in Type : SeenStep(t)
  BY SeenIdle DEF SeenStep, zsVars
<1>. QED
  BY <1>2, <1>3, <1>4, <1>5, <1>6, <1>7, <1>8 DEF Next, Deliver, Environment

\* At the start nothing has been seen, or adopted.
LEMMA InitRefines == Init => Abstract!Init
<1>. SUFFICES ASSUME Init PROVE Abstract!Init
  OBVIOUS
<1>1. InFlight = {}
  BY DEF Init, ZkInit, InFlight, Range
<1>2. \A t \in Type : Seen(t) = {}
  BY <1>1, NamedInFlight DEF Init, Seen, NoUrls
<1>3. \A n \in Usables : znode[n] = "unborn"
  BY DEF Init, ZkInit, Usables
<1>. QED
  BY <1>2, <1>3 DEF Abstract!Init, Init

\* The discovery of zsock.c keeps the promise of Discovery, whatever comes
\* between the list, the gets, the watches and the losses: zco_reconnect adopts
\* a whole set of peers that was live at one moment, less those gone since.
THEOREM DiscoveryIsImplemented == Spec => RefinesDiscovery
<1>1. Init => DiscoveryInv
  BY InitTypeAndPending, InitUnregistered, InitRounds, InitNothingKept, InitFlight
  DEF DiscoveryInv
<1>. QED
  BY <1>1, NextDiscoveryInv, InitRefines, NextRefines, PTL
  DEF Spec, RefinesDiscovery, Abstract!Spec

-----------------------------------------------------------------------------
(* What is settled: the watch of a type stands for what was seen of it.    *)

\* A round under way has in sight what is live, or a finished one adopted it.
Fresh(t) ==
    \/ Waiting(t) /\ Seen(t) = Usable(t)
    \/ ~Waiting(t) /\ (urlv_current[t] = Usable(t) \/ Usable(t) = {})

Monitored(t) == Asking(t) \/ (LiveNamed(t) /\ Fresh(t))

\* A watch the server holds is registered when the connection is down, and
\* while it is up nothing has changed since the list that left it.
Monitor ==
    /\ watching \subseteq exists
    /\ session # "connected" => watching \subseteq armed
    /\ session = "connected" => \A t \in watching : Monitored(t)

\* The queues and the counters as the steps below need them.
LEMMA WaitingTypes ==
    ASSUME DiscoveryInv
    PROVE  /\ ZkTypeOK /\ ZsTypeOK /\ TypeAndPending /\ Flight
           /\ requests \in Seq(Message) /\ replies \in Seq(Message)
           /\ watching \subseteq Type /\ armed \subseteq Type
  BY DEF DiscoveryInv, TypeAndPending, TypeOK, ZkTypeOK

\* An answer: a list served leaves a watch on what it shows.
LEMMA MonitorServer ==
    ASSUME DiscoveryInv, Monitor, ServerAnswer, UNCHANGED zsVars
    PROVE  Monitor'
<1>. DEFINE m == Head(requests)
            a == Answer(m)
<1>1. /\ m \in Message /\ m \in Range(requests)
      /\ Range(requests) = {m} \cup Range(requests')
      /\ Range(replies') = Range(replies) \cup {a}
      /\ session = "connected"
      /\ UNCHANGED <<znode, exists, session, armed>>
  BY WaitingTypes, ServerFlow
<1>2. watching' = IF m.op = "list" /\ Served(m) THEN watching \cup {m.type} ELSE watching
  BY DEF ServerAnswer
<1>3. /\ Sensible(m) /\ m.rc = "ZOK"
      /\ m.op \in {"list", "get"} /\ (m.op = "list" => m.names = {})
  BY <1>1, WaitingTypes DEF Flight, Asked
<1>4. /\ a.op = m.op /\ a.type = m.type
      /\ a.names = IF m.op = "list" THEN LiveNodes(m.type) ELSE m.names
      /\ a.rc = IF Served(m) THEN "ZOK" ELSE "ZNONODE"
  BY <1>1 DEF Answer, Message
<1>5. \A t \in Type :
        /\ m.type # t \/ (m.op = "get" /\ m.names \cap Usables \subseteq LiveNodes(t))
              => Seen(t)' = Seen(t)
        /\ m.type = t /\ m.op = "list" /\ Served(m) /\ list_wanted[t] = 0
              => Seen(t)' = Usable(t)
  BY SeenServer
<1>6. /\ UNCHANGED <<list_wanted, list_pending, get_pending, urlv_current>>
      /\ \A t \in Type : Usable(t)' = Usable(t) /\ LiveNodes(t)' = LiveNodes(t)
      /\ \A t \in Type : Waiting(t)' <=> Waiting(t)
  BY <1>1 DEF zsVars, Usable, LiveNodes, Compatible, Waiting
<1>7. InFlight' \subseteq InFlight \cup {a} /\ m \in InFlight
  BY <1>1 DEF InFlight
<1>8. watching' \subseteq exists' /\ watching' \subseteq Type
  BY <1>1, <1>2, WaitingTypes DEF Monitor, Served, Message
<1>. HIDE DEF m, a
<1>9. ASSUME NEW t \in watching', t \in Type, m.type = t, m.op = "list" PROVE Monitored(t)'
  <2>1. Served(m)
    BY <1>2, <1>9 DEF Monitor, Served
  <2>2. CASE list_wanted[t] > 0
    BY <1>6, <2>2 DEF Monitored, Asking
  <2>3. CASE list_wanted[t] = 0
    <3>1. Seen(t)' = Usable(t)'
      BY <1>5, <1>6, <1>9, <2>1, <2>3
    <3>2. Waiting(t)
      <4>1. Count(requests, "list", t) \in Nat /\ Count(requests, "list", t) > 0
        BY <1>1, <1>9, WaitingTypes, OneCounted
      <4>2. Count(replies, "list", t) \in Nat
        BY WaitingTypes, CountType
      <4>3. /\ list_pending[t] = Count(requests, "list", t) + Count(replies, "list", t)
            /\ get_pending[t] \in Nat
        BY <1>9, Counters
      <4>. QED
        BY <4>1, <4>2, <4>3 DEF Waiting
    <3>3. Named(t) = {}
      BY <1>1, <1>9, RelistedSeesNothing DEF RelistedSees
    <3>4. LiveNamed(t)'
      <4>. SUFFICES ASSUME NEW x \in InFlight', x.type = t, x.rc = "ZOK"
                    PROVE  x.names \cap Usables \subseteq LiveNodes(t)
        BY <1>6, <1>9 DEF LiveNamed, Usables, Compatible
      <4>1. CASE x = a
        BY <1>4, <1>9, <4>1
      <4>2. CASE x \in InFlight
        BY <3>3, <4>2, NamedInFlight DEF NamesOf
      <4>. QED
        BY <1>7, <4>1, <4>2
    <3>. QED
      BY <1>6, <1>9, <3>1, <3>2, <3>4 DEF Monitored, Fresh
  <2>4. list_wanted[t] \in Nat
    BY <1>9, Counters
  <2>. QED
    BY <2>2, <2>3, <2>4
<1>10. ASSUME NEW t \in watching', t \in Type, m.type # t \/ m.op = "get" PROVE Monitored(t)'
  <2>1. t \in watching /\ Monitored(t)
    BY <1>1, <1>2, <1>10 DEF Monitor
  <2>2. CASE Asking(t)
    <3>1. Asking(t)'
      BY <1>1, <1>6, <1>10, <2>2 DEF Asking
    <3>. QED
      BY <3>1 DEF Monitored
  <2>3. CASE LiveNamed(t) /\ Fresh(t)
    <3>1. LiveNamed(t)'
      <4>. SUFFICES ASSUME NEW x \in InFlight', x.type = t, x.rc = "ZOK"
                    PROVE  x.names \cap Usables \subseteq LiveNodes(t)
        BY <1>6, <1>10 DEF LiveNamed, Usables, Compatible
      <4>1. CASE x = a
        BY <1>3, <1>4, <1>7, <1>10, <2>3, <4>1 DEF LiveNamed
      <4>2. CASE x \in InFlight
        BY <2>3, <4>2 DEF LiveNamed
      <4>. QED
        BY <1>7, <4>1, <4>2
    <3>2. m.type = t => m.names \cap Usables \subseteq LiveNodes(t)
      BY <1>3, <1>7, <2>3 DEF LiveNamed
    <3>3. Seen(t)' = Seen(t)
      BY <1>5, <1>10, <3>2
    <3>4. Fresh(t)'
      BY <1>6, <1>10, <2>3, <3>3 DEF Fresh
    <3>. QED
      BY <3>1, <3>4 DEF Monitored
  <2>. QED
    BY <2>1, <2>2, <2>3 DEF Monitored
<1>. QED
  BY <1>1, <1>3, <1>8, <1>9, <1>10 DEF Monitor

\* A change takes the watch away.
LEMMA MonitorPeers ==
    ASSUME DiscoveryInv, Monitor,
           \/ \E k \in Type : CreateType(k)
           \/ \E n \in Node : Publish(n) \/ Expire(n),
           UNCHANGED zsVars
    PROVE  Monitor'
<1>1. /\ UNCHANGED <<session, armed, requests>>
      /\ watching' \subseteq watching /\ exists \subseteq exists'
      /\ \A t \in watching' : LiveNodes(t)' = LiveNodes(t)
      /\ \/ replies' = replies
         \/ \E k \in Type : replies' = Append(replies, Msg("watch", k, {}))
  <2>1. ASSUME NEW k \in Type, CreateType(k)
        PROVE  /\ UNCHANGED <<session, armed, requests, znode, replies, watching>>
               /\ exists \subseteq exists'
    BY <2>1 DEF CreateType
  <2>2. ASSUME NEW n \in Node, Publish(n) \/ Expire(n)
        PROVE  /\ UNCHANGED <<session, armed, requests, exists>>
               /\ watching' = watching \ {NodeType[n]}
               /\ \A t \in watching' : LiveNodes(t)' = LiveNodes(t)
               /\ \/ replies' = replies
                  \/ \E k \in Type : replies' = Append(replies, Msg("watch", k, {}))
    <3>1. /\ UNCHANGED <<session, armed, requests, exists>> /\ FireWatch(NodeType[n])
          /\ \E v : znode' = [znode EXCEPT ![n] = v]
      BY <2>2 DEF Publish, Expire
    <3>2. NodeType[n] \in Type
      BY ZooKeeperAssumption
    <3>3. \A k \in Node \ {n} : znode'[k] = znode[k]
      BY <3>1, WaitingTypes DEF ZkTypeOK
    <3>4. watching' = watching \ {NodeType[n]}
      BY <3>1 DEF FireWatch
    <3>5. \A t \in watching' : LiveNodes(t)' = LiveNodes(t)
      BY <3>3, <3>4 DEF LiveNodes
    <3>. QED
      BY <3>1, <3>2, <3>4, <3>5 DEF FireWatch
  <2>3. CASE \E k \in Type : CreateType(k)
    BY <2>1, <2>3 DEF LiveNodes
  <2>4. CASE \E n \in Node : Publish(n) \/ Expire(n)
    BY <2>2, <2>4
  <2>. QED
    BY <2>3, <2>4
<1>2. \A t \in Type : Seen(t)' = Seen(t)
  BY SeenPeers
<1>3. \A x \in InFlight' : x \in InFlight \/ x.names = {}
  <2>1. \A k \in Type : Msg("watch", k, {}) \in Message /\ Msg("watch", k, {}).names = {}
    BY DEF Msg, Message
  <2>2. \A k \in Type : Range(Append(replies, Msg("watch", k, {})))
                          = Range(replies) \cup {Msg("watch", k, {})}
    BY <2>1, RangeAppend, WaitingTypes
  <2>. QED
    BY <1>1, <2>1, <2>2 DEF InFlight
<1>4. ASSUME NEW t \in watching', session = "connected" PROVE Monitored(t)'
  <2>1. t \in watching /\ t \in Type /\ Monitored(t)
    BY <1>1, <1>4, WaitingTypes DEF Monitor
  <2>2. LiveNodes(t)' = LiveNodes(t) /\ Usable(t)' = Usable(t)
    BY <1>1, <1>4 DEF Usable, Compatible
  <2>3. Asking(t) => Asking(t)'
    BY <1>1 DEF Asking, zsVars
  <2>4. LiveNamed(t) => LiveNamed(t)'
    BY <1>3, <2>2 DEF LiveNamed, Usables, Compatible
  <2>5. Fresh(t) => Fresh(t)'
    BY <1>2, <2>1, <2>2 DEF Fresh, Waiting, zsVars
  <2>. QED
    BY <2>1, <2>3, <2>4, <2>5 DEF Monitored
<1>. QED
  BY <1>1, <1>4 DEF Monitor

\* The answers of a round.
LEMMA MonitorRound ==
    ASSUME DiscoveryInv, DiscoveryInv', Monitor, DeliverList \/ DeliverGet
    PROVE  Monitor'
<1>1. UNCHANGED <<znode, exists, session, watching>> /\ armed \subseteq armed'
  BY DEF DeliverList, DeliverGet, Receive
<1>2. \A t \in Type : RoundStep(t)
  BY SeenList, SeenGet
<1>3. ASSUME NEW t \in watching, session = "connected" PROVE Monitored(t)'
  <2>1. t \in Type /\ Monitored(t) /\ RoundStep(t)
    BY <1>2, <1>3, WaitingTypes DEF Monitor
  <2>2. Usable(t)' = Usable(t)
    BY <1>1 DEF Usable, LiveNodes, Compatible
  <2>3. CASE Asking(t)'
    BY <2>3 DEF Monitored
  <2>4. CASE ~Asking(t)'
    <3>1. LiveNamed(t)' /\ Fresh(t)
      BY <2>1, <2>4 DEF RoundStep, Monitored
    <3>2. Fresh(t)'
      BY <2>1, <2>2, <2>4, <3>1 DEF RoundStep, Fresh
    <3>. QED
      BY <3>1, <3>2 DEF Monitored
  <2>. QED
    BY <2>3, <2>4
<1>. QED
  BY <1>1, <1>3 DEF Monitor

\* A watch that fires: its type is listed again, or wanted.
LEMMA MonitorWatch ==
    ASSUME DiscoveryInv, Monitor, DeliverWatch
    PROVE  Monitor'
<1>. DEFINE m == Head(replies)
            T == {m.type}
<1>1. Receive("watch") /\ armed' = armed \ T /\ on_list_change(T, TRUE)
  BY DEF DeliverWatch
<1>2. PICK order \in Orders(Changed(T)) : requests' = requests \o Lists(order)
  BY DEF DeliverWatch, Send
<1>3. /\ m \in Message /\ m.op = "watch" /\ m \in Range(replies)
      /\ Range(replies) = {m} \cup Range(replies')
      /\ UNCHANGED <<znode, exists, session, watching>>
  BY <1>1, WaitingTypes, ReceiveFlow
<1>4. session = "connected"
  BY <1>3, WaitingTypes DEF Flight, Answered, Sensible, CutOff
<1>5. T \in SUBSET Type /\ TRUE \in BOOLEAN
  BY <1>3 DEF Message
<1>6. \A t \in Type : t \notin T => Seen(t)' = Seen(t)
  BY SeenWatch
<1>. HIDE DEF m, T
<1>7. /\ Changed(T) \in SUBSET Type /\ Changed(T) \subseteq T
      /\ get_pending' = get_pending /\ urlv_current' = urlv_current
      /\ \A t \in T \ Changed(T) : list_wanted'[t] > 0
      /\ \A t \in Type \ T : /\ list_wanted'[t] = list_wanted[t]
                            /\ list_pending'[t] = list_pending[t]
  BY <1>1, <1>5, ChangeEffect
<1>8. Range(requests') = Range(requests) \cup {Msg("list", y, {}) : y \in Changed(T)}
  BY <1>2, <1>7, WaitingTypes, SendFlow
<1>9. \A x \in InFlight' : x \in InFlight \/ x.names = {}
  BY <1>3, <1>8 DEF InFlight, Msg
<1>10. ASSUME NEW t \in watching PROVE Monitored(t)'
  <2>1. t \in Type /\ Monitored(t)
    BY <1>4, <1>10, WaitingTypes DEF Monitor
  <2>2. CASE t \in Changed(T)
    <3>1. Msg("list", t, {}) \in Range(requests')
      BY <1>8, <2>2
    <3>. QED
      BY <3>1 DEF Monitored, Asking, Msg
  <2>3. CASE t \in T \ Changed(T)
    BY <1>7, <2>3 DEF Monitored, Asking
  <2>4. CASE t \notin T
    <3>1. /\ list_wanted'[t] = list_wanted[t] /\ (Waiting(t)' <=> Waiting(t))
          /\ Usable(t)' = Usable(t) /\ LiveNodes(t)' = LiveNodes(t)
      BY <1>3, <1>7, <2>1, <2>4 DEF Waiting, Usable, LiveNodes, Compatible
    <3>2. Asking(t) => Asking(t)'
      BY <1>8, <3>1 DEF Asking
    <3>3. LiveNamed(t) => LiveNamed(t)'
      BY <1>9, <3>1 DEF LiveNamed, Usables, Compatible
    <3>4. Fresh(t) => Fresh(t)'
      BY <1>6, <1>7, <2>1, <2>4, <3>1 DEF Fresh
    <3>. QED
      BY <2>1, <3>2, <3>3, <3>4 DEF Monitored
  <2>. QED
    BY <2>2, <2>3, <2>4
<1>. QED
  BY <1>3, <1>4, <1>10 DEF Monitor

\* The loss of the connection, and its end: no watch of the server is forgotten
\* by the client, which lists its types again when it is back.
LEMMA MonitorSession ==
    ASSUME DiscoveryInv, Monitor, Disconnect \/ Reconnect \/ SessionExpired
    PROVE  Monitor'
<1>1. CASE Disconnect
  <2>1. /\ session' = "connecting" /\ exists' = exists /\ armed' = armed
        /\ watching' \subseteq watching \cap armed
    BY <1>1 DEF Disconnect, LoseConnection
  <2>. QED
    BY <2>1 DEF Monitor
<1>2. CASE SessionExpired
  BY <1>2 DEF SessionExpired, EndSession, Monitor
<1>3. CASE Reconnect
  <2>1. on_list_change(armed, TRUE) /\ armed \in SUBSET Type /\ TRUE \in BOOLEAN
    BY <1>3, WaitingTypes DEF Reconnect
  <2>2. PICK order \in Orders(Changed(armed)) : ResumeSession(Lists(order))
    BY <1>3 DEF Reconnect
  <2>3. /\ session = "connecting" /\ session' = "connected"
        /\ UNCHANGED <<exists, watching, armed>>
        /\ requests' = requests \o Lists(order)
    BY <2>2 DEF ResumeSession, Send
  <2>4. /\ Changed(armed) \in SUBSET Type
        /\ \A t \in armed \ Changed(armed) : list_wanted'[t] > 0
    BY <2>1, ChangeEffect
  <2>5. Range(requests') = Range(requests) \cup {Msg("list", y, {}) : y \in Changed(armed)}
    BY <2>3, <2>4, WaitingTypes, SendFlow
  <2>6. \A t \in watching : Asking(t)'
    <3>. SUFFICES ASSUME NEW t \in watching PROVE Asking(t)'
      OBVIOUS
    <3>1. t \in armed
      BY <2>3 DEF Monitor
    <3>2. t \in Changed(armed) => Msg("list", t, {}) \in Range(requests')
      BY <2>5
    <3>. QED
      BY <2>4, <3>1, <3>2 DEF Asking, Msg
  <2>. QED
    BY <2>3, <2>6 DEF Monitor, Monitored
<1>. QED
  BY <1>1, <1>2, <1>3

\* Every step of the discovery keeps Monitor.
LEMMA NextMonitor == DiscoveryInv /\ Monitor /\ [Next]_vars => Monitor'
<1>. SUFFICES ASSUME DiscoveryInv, Monitor, [Next]_vars PROVE Monitor'
  OBVIOUS
<1>1. DiscoveryInv'
  BY NextDiscoveryInv
<1>2. CASE Environment
  BY <1>2, MonitorServer, MonitorPeers DEF Environment
<1>3. CASE Register
  BY <1>3 DEF Register, DiscoveryInv, Unregistered, Monitor
<1>4. CASE DeliverList \/ DeliverGet
  BY <1>1, <1>4, MonitorRound
<1>5. CASE SkipLost \/ UNCHANGED vars
  <2>1. /\ UNCHANGED <<znode, exists, session, watching, armed, requests, zsVars>>
        /\ \A t \in Type : Seen(t)' = Seen(t)
    BY <1>5, SeenIdle DEF SkipLost, Receive, vars, zkVars
  <2>2. InFlight' \subseteq InFlight
    <3>1. CASE SkipLost
      <4>1. Receive("blank")
        BY <3>1 DEF SkipLost
      <4>. QED
        BY <2>1, <4>1, WaitingTypes, ReceiveFlow DEF InFlight
    <3>2. CASE UNCHANGED vars
      BY <3>2 DEF vars, zkVars, InFlight
    <3>. QED
      BY <1>5, <3>1, <3>2
  <2>3. ASSUME NEW t \in watching, session = "connected" PROVE Monitored(t)'
    <3>1. t \in Type /\ Monitored(t)
      BY <2>3, WaitingTypes DEF Monitor
    <3>2. Usable(t)' = Usable(t) /\ LiveNodes(t)' = LiveNodes(t)
      BY <2>1 DEF Usable, LiveNodes, Compatible
    <3>3. Asking(t) => Asking(t)'
      BY <2>1 DEF Asking, zsVars
    <3>4. LiveNamed(t) => LiveNamed(t)'
      BY <2>2, <3>2 DEF LiveNamed, Usables, Compatible
    <3>5. Fresh(t) => Fresh(t)'
      BY <2>1, <3>1, <3>2 DEF Fresh, Waiting, zsVars
    <3>. QED
      BY <3>1, <3>3, <3>4, <3>5 DEF Monitored
  <2>. QED
    BY <2>1, <2>3 DEF Monitor
<1>6. CASE DeliverWatch
  BY <1>6, MonitorWatch
<1>7. CASE Disconnect \/ Reconnect \/ SessionExpired
  BY <1>7, MonitorSession
<1>. QED
  BY <1>2, <1>3, <1>4, <1>5, <1>6, <1>7 DEF Next, Deliver

\* A type with nothing under way, whose watch is set on both sides, has adopted
\* what is live (maybe_reconnect, after however many rounds given up), unless
\* nothing of use is.
THEOREM SettledIsLive == Spec => []SettledIsCurrent
<1>1. Init => DiscoveryInv /\ Monitor
  <2>1. Init => DiscoveryInv
    BY InitTypeAndPending, InitUnregistered, InitRounds, InitNothingKept, InitFlight
    DEF DiscoveryInv
  <2>. QED
    BY <2>1 DEF Init, ZkInit, Monitor
<1>2. DiscoveryInv /\ Monitor => SettledIsCurrent
  <2>. SUFFICES ASSUME DiscoveryInv, Monitor, NEW t \in Type, Settled(t)
                PROVE  urlv_current[t] = Usable(t) \/ Usable(t) = {}
    BY DEF SettledIsCurrent
  <2>1. /\ session = "connected" /\ t \in watching
        /\ \A op \in {"list", "get", "watch"} : Count(requests, op, t) = 0 /\ Count(replies, op, t) = 0
    BY DEF Settled
  <2>2. list_pending[t] = 0 /\ get_pending[t] = 0 /\ list_wanted[t] = 0
    <3>1. /\ Count(requests, "list", t) = 0 /\ Count(replies, "list", t) = 0
          /\ Count(requests, "get", t) = 0 /\ Count(replies, "get", t) = 0
      BY <2>1
    <3>2. list_pending[t] = 0 /\ get_pending[t] = 0
      BY <3>1 DEF DiscoveryInv, TypeAndPending, PendingMatchesInFlight
    <3>. QED
      BY <3>2 DEF DiscoveryInv, Rounds, NoLostWakeup, TypeAndPending, TypeOK, ZsTypeOK
  <2>3. \A m \in Range(requests) : ~(m.op = "list" /\ m.type = t)
    BY <2>1, WaitingTypes, NoneCounted
  <2>4. ~Asking(t) /\ ~Waiting(t)
    BY <2>2, <2>3 DEF Asking, Waiting
  <2>. QED
    BY <2>1, <2>4 DEF Monitor, Monitored, Fresh
<1>. QED
  BY <1>1, <1>2, NextDiscoveryInv, NextMonitor, PTL DEF Spec

-----------------------------------------------------------------------------
(* What ends the monitoring of a type.                                     *)

\* While the gets of a round are outstanding the type has a watcher, unless a
\* relist is wanted already: Watched, whatever the session.
Attended(t) == get_pending[t] > 0 /\ list_wanted[t] = 0 => t \in armed

\* A type is attended to, and under watch as long as that matters.
Kept(t) == Attended(t) /\ (registered /\ session # "expired" => UnderWatch(t))

\* on_list_change lists a type, or finds requests of it under way.
LEMMA ChangeWaits ==
    ASSUME DiscoveryInv, NEW T \in SUBSET Type, on_list_change(T, TRUE), NEW t \in Type
    PROVE  /\ get_pending' = get_pending
           /\ t \notin T => list_pending'[t] = list_pending[t] /\ list_wanted'[t] = list_wanted[t]
           /\ t \in T => list_pending'[t] + get_pending'[t] > 0
           /\ t \in T => list_wanted'[t] > 0 \/ get_pending'[t] = 0
<1>1. /\ get_pending' = get_pending
      /\ t \in Changed(T) => list_pending[t] = 0 /\ get_pending[t] = 0
      /\ t \in T \ Changed(T) => list_wanted'[t] > 0
      /\ t \notin T => list_wanted'[t] = list_wanted[t] /\ list_pending'[t] = list_pending[t]
  BY ChangeEffect
<1>2. list_wanted[t] \in Nat /\ list_pending[t] \in Nat /\ get_pending[t] \in Nat
  BY Counters
<1>3. list_pending'[t] = IF t \in Changed(T) THEN list_pending[t] + 1 ELSE list_pending[t]
  BY DEF on_list_change, restart_list
<1>4. t \in T \ Changed(T) => list_pending[t] + get_pending[t] > 0
  BY <1>2 DEF Changed, Relisted, Wanting
<1>. QED
  BY <1>1, <1>2, <1>3, <1>4

\* Only a list that fails leaves a type with neither a watcher nor a request: a
\* list that succeeds sets one, and a change that uses one up asks again.
LEMMA NextKept ==
    ASSUME DiscoveryInv, NEW t \in Type, Kept(t), ListsSucceed(t), [Next]_vars
    PROVE  Kept(t)'
<1>. USE DEF Kept
<1>1. /\ list_wanted[t] \in Nat /\ list_pending[t] \in Nat /\ get_pending[t] \in Nat
      /\ ZsTypeOK /\ TypeAndPending
  BY Counters, WaitingTypes
<1>2. CASE Environment \/ SkipLost \/ UNCHANGED vars
  <2>1. UNCHANGED <<armed, session, zsVars>>
    BY <1>2 DEF Environment, CreateType, Publish, Expire, ServerAnswer, SkipLost, Receive, vars, zkVars
  <2>. QED
    BY <2>1 DEF Attended, UnderWatch, zsVars
<1>3. CASE Register
  <2>1. /\ list_pending'[t] = list_pending[t] + 1
        /\ UNCHANGED <<list_wanted, get_pending, armed>>
    BY <1>1, <1>3 DEF Register, restart_list
  <2>. QED
    BY <1>1, <2>1 DEF Attended, UnderWatch
<1>4. CASE DeliverList
  <2>. DEFINE m == Head(replies)
              k == m.type
              gets == [get_pending EXCEPT ![k] =
                          @ + Cardinality(IF m.rc = "ZOK" THEN m.names ELSE {})]
              lists == [list_pending EXCEPT ![k] = @ - 1]
              again == Relisted({k}, list_wanted, lists, gets)
  <2>1. /\ armed' = IF m.rc = "ZOK" THEN armed \cup {k} ELSE armed
        /\ get_pending' = gets /\ list_wanted' = Consumed(again, list_wanted)
        /\ list_pending' = [u \in Type |-> IF u \in again THEN lists[u] + 1 ELSE lists[u]]
        /\ UNCHANGED <<registered, session>>
    BY <1>4 DEF DeliverList, Receive, restart_list
  <2>2. CASE k = t
    <3>1. replies \in Seq(Message) /\ replies # <<>> /\ m.op = "list"
      BY <1>4, WaitingTypes DEF DeliverList, Receive
    <3>2. 1 \in DOMAIN replies /\ m = replies[1]
      BY <3>1
    <3>3. t \in armed'
      BY <2>1, <2>2, <3>1, <3>2 DEF ListsSucceed
    <3>. QED
      BY <3>3 DEF Attended, UnderWatch
  <2>3. CASE k # t
    <3>1. t \notin again
      BY <2>3 DEF Relisted
    <3>. HIDE DEF again
    <3>2. /\ get_pending'[t] = get_pending[t] /\ list_pending'[t] = list_pending[t]
          /\ list_wanted'[t] = list_wanted[t]
      BY <1>1, <2>1, <2>3, <3>1 DEF Consumed, ZsTypeOK
    <3>3. armed \subseteq armed'
      BY <2>1
    <3>. QED
      BY <2>1, <3>2, <3>3 DEF Attended, UnderWatch
  <2>. QED
    BY <2>2, <2>3
<1>5. CASE DeliverGet
  <2>. DEFINE k == Head(replies).type
              gets == [get_pending EXCEPT ![k] = @ - 1]
              again == Relisted({k}, list_wanted, list_pending, gets)
  <2>1. /\ get_pending' = gets /\ list_wanted' = Consumed(again, list_wanted)
        /\ list_pending' = [u \in Type |-> IF u \in again THEN list_pending[u] + 1 ELSE list_pending[u]]
        /\ Receive("get") /\ UNCHANGED <<registered, armed, session>>
    BY <1>5 DEF DeliverGet, Receive, restart_list
  <2>2. /\ list_wanted'[t] = IF t \in again THEN list_wanted[t] - 1 ELSE list_wanted[t]
        /\ list_pending'[t] = IF t \in again THEN list_pending[t] + 1 ELSE list_pending[t]
        /\ get_pending'[t] = gets[t]
    BY <2>1 DEF Consumed
  <2>3. gets[t] = IF t = k THEN get_pending[t] - 1 ELSE get_pending[t]
    BY <1>1 DEF ZsTypeOK
  <2>4. t = k => get_pending[t] > 0
    BY <1>1, <2>1, HeadIsPending
  <2>5. t \in again <=> t = k /\ gets[t] = 0 /\ list_pending[t] = 0 /\ list_wanted[t] > 0
    BY DEF Relisted
  <2>. HIDE DEF gets, again, k
  <2>. QED
    BY <1>1, <2>1, <2>2, <2>3, <2>4, <2>5 DEF Attended, UnderWatch
<1>6. CASE DeliverWatch
  <2>. DEFINE k == Head(replies).type
  <2>1. /\ on_list_change({k}, TRUE) /\ armed' = armed \ {k}
        /\ Receive("watch") /\ UNCHANGED <<registered, session>>
    BY <1>6 DEF DeliverWatch, Receive, on_list_change
  <2>2. k \in Type
    <3>1. Head(replies) \in Message
      BY <2>1, WaitingTypes DEF Receive
    <3>. QED
      BY <3>1 DEF Message
  <2>. DEFINE T == {k}
  <2>. HIDE DEF k
  <2>3. T \in SUBSET Type /\ on_list_change(T, TRUE) /\ (t \in T <=> t = k)
    BY <2>1, <2>2
  <2>. HIDE DEF T
  <2>4. /\ get_pending' = get_pending
        /\ t # k => list_pending'[t] = list_pending[t] /\ list_wanted'[t] = list_wanted[t]
        /\ t = k => list_pending'[t] + get_pending'[t] > 0
        /\ t = k => list_wanted'[t] > 0 \/ get_pending'[t] = 0
    BY <2>3, ChangeWaits
  <2>. QED
    BY <1>1, <2>1, <2>4 DEF Attended, UnderWatch
<1>7. ASSUME NEW T \in SUBSET armed, on_list_change(T, TRUE), armed' = armed, session # "expired"
      PROVE  Kept(t)'
  <2>1. /\ get_pending' = get_pending
        /\ t \notin T => list_pending'[t] = list_pending[t] /\ list_wanted'[t] = list_wanted[t]
    BY <1>7, ChangeWaits, WaitingTypes
  <2>2. registered' = registered
    BY <1>7 DEF on_list_change
  <2>. QED
    BY <1>7, <2>1, <2>2 DEF Attended, UnderWatch
<1>8. CASE Disconnect
  <2>. DEFINE T == IF session = "connected" THEN armed ELSE {}
  <2>1. on_list_change(T, TRUE) /\ armed' = armed /\ session # "expired"
    BY <1>8 DEF Disconnect, LoseConnection
  <2>. QED
    BY <1>7, <2>1
<1>9. CASE Reconnect
  <2>1. on_list_change(armed, TRUE) /\ armed' = armed /\ session # "expired"
    BY <1>9 DEF Reconnect, ResumeSession
  <2>. QED
    BY <1>7, <2>1
<1>10. CASE SessionExpired
  <2>1. on_list_change(armed, FALSE) /\ armed' = armed /\ session' = "expired"
    BY <1>10 DEF SessionExpired, EndSession
  <2>2. /\ get_pending' = get_pending
        /\ t \notin armed => list_wanted'[t] = list_wanted[t]
    BY <2>1, ChangeEffect, WaitingTypes
  <2>. QED
    BY <2>1, <2>2 DEF Attended
<1>. QED
  BY <1>2, <1>3, <1>4, <1>5, <1>6, <1>8, <1>9, <1>10 DEF Next, Deliver

\* The lists of no type fail.
AllListsSucceed == \A t \in Type : ListsSucceed(t)

\* As long as no list fails, every type of a registered socket stays under watch,
\* through changes, losses and rounds given up: the failed list that
\* on_list_completion does not try again is all that ends it.
THEOREM OnlyFailedListsEndMonitoring == Spec /\ []AllListsSucceed => []ContinuouslyMonitored
<1>. DEFINE AllKept == \A t \in Type : Kept(t)
<1>1. Init => DiscoveryInv /\ AllKept
  <2>1. Init => DiscoveryInv
    BY InitTypeAndPending, InitUnregistered, InitRounds, InitNothingKept, InitFlight
    DEF DiscoveryInv
  <2>. QED
    BY <2>1 DEF Init, Kept, Attended
<1>2. AllListsSucceed /\ DiscoveryInv /\ AllKept /\ [Next]_vars => AllKept'
  BY NextKept DEF AllListsSucceed
<1>3. AllKept => ContinuouslyMonitored
  BY DEF Kept, ContinuouslyMonitored
<1>. HIDE DEF AllKept
<1>. QED
  BY <1>1, <1>2, <1>3, NextDiscoveryInv, PTL DEF Spec

-----------------------------------------------------------------------------
(* How often a round may collect one URL.                                  *)

\* AsksFor counts the gets of one URL.
LEMMA AsksForHits ==
    ASSUME NEW q \in Seq(Message), NEW t, NEW u
    PROVE  AsksFor(q, t, u) = Hits(q, Asks(t, u)) /\ AsksFor(q, t, u) \in Nat
<1>1. \A i \in DOMAIN q : q[i] \in Message
  BY ElementOfSeq, LenProperties
<1>2. {i \in DOMAIN q : q[i].op = "get" /\ q[i].type = t /\ \E n \in q[i].names : NodeUrl[n] = u}
         = Standing(q, Asks(t, u))
  BY <1>1 DEF Standing, Asks, Kind
<1>3. AsksFor(q, t, u) = Hits(q, Asks(t, u))
  BY <1>2 DEF AsksFor, Hits
<1>. QED
  BY <1>3, HitsType

\* Lists and watch events ask for no node.
LEMMA AsksForLists ==
    ASSUME NEW T \in SUBSET Type, NEW order \in Orders(T), NEW q \in Seq(Message), NEW t, NEW u
    PROVE  /\ q \o Lists(order) \in Seq(Message)
           /\ AsksFor(q \o Lists(order), t, u) = AsksFor(q, t, u)
           /\ AsksFor(Events(order), t, u) = 0
<1>. DEFINE l == Lists(order)
            e == Events(order)
            K == Asks(t, u)
<1>1. l \in Seq(Message) /\ e \in Seq(Message)
  BY ListsCount, EventsCount, ZooKeeperAssumption
<1>2. \A m \in Range(l) \cup Range(e) : m \notin K
  <2>1. Range(l) = {Msg("list", y, {}) : y \in T} /\ Range(e) = {Msg("watch", y, {}) : y \in T}
    BY RangeLists
  <2>. QED
    BY <2>1 DEF Msg, Asks, Kind
<1>. HIDE DEF l, e, K
<1>3. Hits(l, K) = 0 /\ Hits(e, K) = 0
  BY <1>2, HitsNone
<1>4. q \o l \in Seq(Message)
  BY <1>1, ConcatProperties
<1>5. Hits(q \o l, K) = Hits(q, K) + Hits(l, K)
  BY <1>1, HitsConcat
<1>6. Hits(q, K) \in Nat
  BY HitsType
<1>7. /\ AsksFor(q \o l, t, u) = Hits(q \o l, K) /\ AsksFor(q, t, u) = Hits(q, K)
      /\ AsksFor(e, t, u) = Hits(e, K)
  BY <1>1, <1>4, AsksForHits DEF K
<1>. QED
  BY <1>3, <1>4, <1>5, <1>6, <1>7 DEF l, e

\* Of the gets of a set of nodes, one for each node with the URL.
LEMMA AsksForGets ==
    ASSUME NEW S \in SUBSET Node, NEW order \in Orders(S), NEW k \in Type, NEW t, NEW u
    PROVE  AsksFor(Gets(k, order), t, u) =
               IF t = k THEN Cardinality({n \in S : NodeUrl[n] = u}) ELSE 0
<1>. DEFINE n == Cardinality(S)
            g == Gets(k, order)
            A == {x \in S : NodeUrl[x] = u}
            P == {i \in DOMAIN g : g[i].op = "get" /\ g[i].type = t
                                   /\ \E x \in g[i].names : NodeUrl[x] = u}
<1>1. IsFiniteSet(S) /\ n \in Nat
  BY FS_Subset, FS_CardinalityType, ZooKeeperAssumption
<1>2. /\ order \in [1..n -> S]
      /\ \A i, j \in 1..n : order[i] = order[j] => i = j
      /\ \A x \in S : \E i \in 1..n : order[i] = x
  BY DEF Orders, Bijection, Injection, Surjection, IsInjective
<1>. HIDE DEF n
<1>3. /\ DOMAIN g = 1..n
      /\ \A i \in 1..n : g[i].op = "get" /\ g[i].type = k /\ g[i].names = {order[i]}
  BY <1>2 DEF Gets, Msg
<1>4. AsksFor(g, t, u) = Cardinality(P)
  BY DEF AsksFor
<1>. HIDE DEF g
<1>5. CASE t = k
  <2>. DEFINE walk == [i \in P |-> order[i]]
  <2>1. P = {i \in 1..n : NodeUrl[order[i]] = u}
    BY <1>3, <1>5
  <2>. HIDE DEF P
  <2>2. walk \in Bijection(P, A)
    BY <1>2, <2>1 DEF Bijection, Injection, Surjection, IsInjective
  <2>3. IsFiniteSet(P)
    <3>1. IsFiniteSet(1..n) /\ P \in SUBSET (1..n)
      BY <1>1, <2>1, FS_Interval
    <3>. QED
      BY <3>1, FS_Subset
  <2>4. Cardinality(P) = Cardinality(A)
    BY <2>2, <2>3, FS_Bijection DEF ExistsBijection
  <2>. QED
    BY <1>4, <1>5, <2>4 DEF g
<1>6. CASE t # k
  <2>1. P = {}
    BY <1>3, <1>6
  <2>. QED
    BY <1>4, <1>6, <2>1, FS_EmptySet DEF g
<1>. QED
  BY <1>5, <1>6

\* A get that is lost with the connection still names its node.
LEMMA AsksForLost ==
    ASSUME NEW q \in Seq(Message), NEW t, NEW u
    PROVE  AsksFor(AllLost(q), t, u) = AsksFor(q, t, u)
<1>. DEFINE r == AllLost(q)
<1>1. \A i \in DOMAIN q : q[i] \in Message
  BY ElementOfSeq, LenProperties
<1>2. DOMAIN r = DOMAIN q /\ \A i \in DOMAIN q : r[i] = Lost(q[i])
  BY DEF AllLost
<1>3. \A m \in Message : /\ Lost(m).op = "get" <=> m.op = "get"
                         /\ Lost(m).type = m.type
                         /\ m.op = "get" => Lost(m).names = m.names
  BY DEF Lost, Message
<1>. HIDE DEF r
<1>4. ASSUME NEW i \in DOMAIN q
      PROVE  (r[i].op = "get" /\ r[i].type = t /\ \E n \in r[i].names : NodeUrl[n] = u)
         <=> (q[i].op = "get" /\ q[i].type = t /\ \E n \in q[i].names : NodeUrl[n] = u)
  BY <1>1, <1>2, <1>3
<1>5. AsksFor(r, t, u) = AsksFor(q, t, u)
  BY <1>2, <1>4 DEF AsksFor
<1>. QED
  BY <1>5 DEF r

\* What the client takes off its queue is asked for once less.
LEMMA AsksForReceived ==
    ASSUME ZkTypeOK, NEW op, Receive(op), NEW t, NEW u
    PROVE  /\ AsksFor(replies, t, u) =
                 AsksFor(replies', t, u) + (IF Head(replies) \in Asks(t, u) THEN 1 ELSE 0)
           /\ AsksFor(replies, t, u) \in Nat /\ AsksFor(replies', t, u) \in Nat
<1>. DEFINE K == Asks(t, u)
<1>1. replies \in Seq(Message) /\ replies # <<>> /\ replies' = Tail(replies)
  BY DEF Receive, ZkTypeOK
<1>2. /\ Hits(replies, K) = Hits(replies', K) + (IF Head(replies) \in K THEN 1 ELSE 0)
      /\ replies' \in Seq(Message)
  BY <1>1, HitsTail
<1>. QED
  BY <1>1, <1>2, AsksForHits

\* A round has collected, or may collect, a natural number of times.
LEMMA CollectableType ==
    ASSUME DiscoveryInv, NEW t \in Type, NEW u \in Url
    PROVE  /\ urlv_new[t][u] \in Nat /\ NoUrls[u] = 0
           /\ AsksFor(requests, t, u) \in Nat /\ AsksFor(replies, t, u) \in Nat
           /\ Collectable(t, u) \in Nat
<1>1. urlv_new[t][u] \in Nat /\ NoUrls[u] = 0
  BY WaitingTypes DEF ZsTypeOK, NoUrls
<1>2. AsksFor(requests, t, u) \in Nat /\ AsksFor(replies, t, u) \in Nat
  BY WaitingTypes, AsksForHits
<1>. QED
  BY <1>1, <1>2 DEF Collectable

\* What is left of the collections when the rounds of some types start again.
LEMMA RestartCollects ==
    ASSUME NEW T, NEW lists, NEW new \in [Type -> [Url -> Nat]], NEW accepted,
           restart_list(T, lists, new, accepted), NEW t \in Type, NEW u \in Url
    PROVE  urlv_new'[t][u] \in Nat /\ urlv_new'[t][u] <= new[t][u]
<1>1. urlv_new'[t] = IF t \in T THEN NoUrls ELSE new[t]
  BY DEF restart_list
<1>2. NoUrls[u] = 0 /\ new[t][u] \in Nat
  BY DEF NoUrls
<1>. QED
  BY <1>1, <1>2

Countable == \A t \in Type, u \in Url : Collectable(t, u) \in Nat

\* The same, for the state a step leads to.
LEMMA AlwaysCountable == DiscoveryInv => Countable
  BY CollectableType DEF Countable

\* The peers and the server move the gets, and make none.
LEMMA CollectablePeers ==
    ASSUME DiscoveryInv, Environment, NEW t \in Type, NEW u \in Url
    PROVE  Collectable(t, u)' = Collectable(t, u)
<1>. DEFINE K == Asks(t, u)
<1>1. urlv_new' = urlv_new
  BY DEF Environment, zsVars
<1>2. ASSUME NEW k \in Type, CreateType(k)
      PROVE  UNCHANGED <<requests, replies>>
  BY <1>2 DEF CreateType
<1>3. ASSUME NEW n \in Node, Publish(n) \/ Expire(n)
      PROVE  requests' = requests /\ AsksFor(replies', t, u) = AsksFor(replies, t, u)
  <2>1. requests' = requests /\ FireWatch(NodeType[n]) /\ NodeType[n] \in Type
    BY <1>3, ZooKeeperAssumption DEF Publish, Expire
  <2>. DEFINE w == Msg("watch", NodeType[n], {})
  <2>2. w \in Message /\ w \notin K
    BY <2>1 DEF Msg, Message, Asks, Kind
  <2>3. replies' \in {replies, Append(replies, w)}
    BY <2>1 DEF FireWatch
  <2>4. Append(replies, w) \in Seq(Message)
    BY <2>2, WaitingTypes, AppendProperties
  <2>5. Hits(Append(replies, w), K) = Hits(replies, K) + 0 /\ Hits(replies, K) \in Nat
    BY <2>2, WaitingTypes, HitsAppend, HitsType
  <2>6. AsksFor(Append(replies, w), t, u) = AsksFor(replies, t, u)
    <3>1. AsksFor(Append(replies, w), t, u) = Hits(Append(replies, w), K)
      BY <2>4, AsksForHits
    <3>2. AsksFor(replies, t, u) = Hits(replies, K)
      BY WaitingTypes, AsksForHits
    <3>. QED
      BY <2>5, <3>1, <3>2
  <2>. QED
    BY <2>1, <2>3, <2>6
<1>4. CASE ServerAnswer
  <2>. DEFINE m == Head(requests)
  <2>1. /\ m \in Message /\ Answer(m) \in Message
        /\ requests # <<>>
        /\ replies' = Append(replies, Answer(m)) /\ requests' = Tail(requests)
    BY <1>4, WaitingTypes, ServerFlow DEF ServerAnswer
  <2>2. Answer(m) \in K <=> m \in K
    BY <2>1 DEF Answer, Message, Asks, Kind
  <2>. DEFINE one == IF m \in K THEN 1 ELSE 0
  <2>3. Hits(replies', K) = Hits(replies, K) + one
    <3>1. Hits(replies', K) = Hits(replies, K) + (IF Answer(m) \in K THEN 1 ELSE 0)
      BY <2>1, WaitingTypes, HitsAppend
    <3>. QED
      BY <2>2, <3>1
  <2>4. Hits(requests, K) = Hits(requests', K) + one /\ requests' \in Seq(Message)
    BY <2>1, WaitingTypes, HitsTail
  <2>5. replies' \in Seq(Message)
    BY <2>1, WaitingTypes, AppendProperties
  <2>6. /\ Hits(replies, K) \in Nat /\ Hits(requests', K) \in Nat /\ one \in Nat
    BY <2>4, WaitingTypes, HitsType
  <2>7. /\ AsksFor(replies', t, u) = Hits(replies', K) /\ AsksFor(replies, t, u) = Hits(replies, K)
        /\ AsksFor(requests', t, u) = Hits(requests', K) /\ AsksFor(requests, t, u) = Hits(requests, K)
    BY <2>4, <2>5, WaitingTypes, AsksForHits
  <2>. HIDE DEF one, K, m
  <2>. QED
    BY <1>1, <2>3, <2>4, <2>6, <2>7, CollectableType DEF Collectable
<1>5. CASE UNCHANGED requests /\ AsksFor(replies', t, u) = AsksFor(replies, t, u)
  BY <1>1, <1>5 DEF Collectable
<1>. QED
  BY <1>2, <1>3, <1>4, <1>5 DEF Environment

\* A watcher call makes no get, and what it throws away is not collected.
LEMMA CollectableChange ==
    ASSUME DiscoveryInv, NEW T \in SUBSET Type, NEW accepted \in BOOLEAN, on_list_change(T, accepted),
           NEW t \in Type, NEW u \in Url
    PROVE  /\ urlv_new'[t][u] \in Nat /\ urlv_new'[t][u] <= urlv_new[t][u]
           /\ \A order \in Orders(Changed(T)) :
                /\ Lists(order) \in Seq(Message) /\ requests \o Lists(order) \in Seq(Message)
                /\ AsksFor(requests \o Lists(order), t, u) = AsksFor(requests, t, u)
                /\ AsksFor(Events(order), t, u) = 0
<1>1. urlv_new'[t][u] \in Nat /\ urlv_new'[t][u] <= urlv_new[t][u]
  <2>1. restart_list(Changed(T), list_pending, urlv_new, accepted)
    BY DEF on_list_change
  <2>2. urlv_new \in [Type -> [Url -> Nat]]
    BY WaitingTypes DEF ZsTypeOK
  <2>. QED
    BY <2>1, <2>2, RestartCollects
<1>2. Changed(T) \in SUBSET Type
  BY ChangeEffect
<1>. QED
  BY <1>1, <1>2, WaitingTypes, AsksForLists, ListsCount, ZooKeeperAssumption

\* A loss loses the answers of the gets, not the gets.
LEMMA CollectableDisconnect ==
    ASSUME DiscoveryInv, Disconnect, NEW t \in Type, NEW u \in Url
    PROVE  Collectable(t, u)' <= Collectable(t, u)
<1>. DEFINE woken == IF session = "connected" THEN armed ELSE {}
            K == Asks(t, u)
<1>1. on_list_change(woken, TRUE) /\ woken \in SUBSET Type /\ TRUE \in BOOLEAN
  BY WaitingTypes DEF Disconnect
<1>2. PICK order \in Orders(Changed(woken)) : LoseConnection(Lists(order))
  BY DEF Disconnect
<1>. DEFINE sent == requests \o Lists(order)
            all == replies \o sent
<1>3. replies' = AllLost(all) /\ requests' = <<>>
  BY <1>2 DEF LoseConnection
<1>4. /\ urlv_new'[t][u] \in Nat /\ urlv_new'[t][u] <= urlv_new[t][u]
      /\ sent \in Seq(Message) /\ AsksFor(sent, t, u) = AsksFor(requests, t, u)
  BY <1>1, CollectableChange
<1>. HIDE DEF sent, woken, K
<1>5. all \in Seq(Message) /\ Hits(all, K) = Hits(replies, K) + Hits(sent, K)
  BY <1>4, WaitingTypes, ConcatProperties, HitsConcat
<1>6. AsksFor(all, t, u) = AsksFor(replies, t, u) + AsksFor(requests, t, u)
  <2>1. /\ AsksFor(all, t, u) = Hits(all, K) /\ AsksFor(replies, t, u) = Hits(replies, K)
        /\ AsksFor(sent, t, u) = Hits(sent, K)
    BY <1>4, <1>5, WaitingTypes, AsksForHits DEF K
  <2>. QED
    BY <1>4, <1>5, <2>1
<1>. HIDE DEF all
<1>7. AsksFor(replies', t, u) = AsksFor(replies, t, u) + AsksFor(requests, t, u)
  BY <1>3, <1>5, <1>6, AsksForLost
<1>8. AsksFor(requests', t, u) = 0
  <2>1. requests' = <<>> /\ <<>> \in Seq(Message)
    BY <1>3, EmptySeq
  <2>2. Range(<<>>) = {}
    BY DEF Range
  <2>3. Hits(<<>>, K) = 0
    BY <2>2, HitsNone
  <2>. QED
    BY <2>1, <2>3, AsksForHits DEF K
<1>. QED
  BY <1>4, <1>7, <1>8, CollectableType DEF Collectable

\* The session resumes with nothing but events and lists, or does not.
LEMMA CollectableSession ==
    ASSUME DiscoveryInv, Reconnect \/ SessionExpired, NEW t \in Type, NEW u \in Url
    PROVE  Collectable(t, u)' <= Collectable(t, u)
<1>1. CASE Reconnect
  <2>1. on_list_change(armed, TRUE) /\ armed \in SUBSET Type /\ TRUE \in BOOLEAN
    BY <1>1, WaitingTypes DEF Reconnect
  <2>2. PICK order \in Orders(Changed(armed)) : ResumeSession(Lists(order))
    BY <1>1 DEF Reconnect
  <2>3. PICK woken \in Orders(armed \ watching) : replies' = Events(woken)
    BY <2>2 DEF ResumeSession
  <2>4. requests' = requests \o Lists(order)
    BY <2>2 DEF ResumeSession, Send
  <2>5. /\ urlv_new'[t][u] \in Nat /\ urlv_new'[t][u] <= urlv_new[t][u]
        /\ AsksFor(requests', t, u) = AsksFor(requests, t, u)
    BY <2>1, <2>4, CollectableChange
  <2>6. AsksFor(replies', t, u) = 0
    <3>1. armed \ watching \in SUBSET Type
      BY <2>1
    <3>. QED
      BY <2>3, <3>1, WaitingTypes, AsksForLists
  <2>. QED
    BY <2>5, <2>6, CollectableType DEF Collectable
<1>2. CASE SessionExpired
  <2>1. /\ on_list_change(armed, FALSE) /\ armed \in SUBSET Type /\ FALSE \in BOOLEAN
        /\ UNCHANGED <<requests, replies>>
    BY <1>2, WaitingTypes DEF SessionExpired, EndSession
  <2>2. urlv_new'[t][u] \in Nat /\ urlv_new'[t][u] <= urlv_new[t][u]
    BY <2>1, CollectableChange
  <2>. QED
    BY <2>1, <2>2, CollectableType DEF Collectable
<1>. QED
  BY <1>1, <1>2

\* The first lists, a watch that fires and an event that was lost: no gets.
LEMMA CollectableRest ==
    ASSUME DiscoveryInv, Register \/ DeliverWatch \/ SkipLost \/ UNCHANGED vars,
           NEW t \in Type, NEW u \in Url
    PROVE  Collectable(t, u)' <= Collectable(t, u)
<1>1. CASE Register
  <2>1. /\ restart_list(Type, list_pending, urlv_new, TRUE)
        /\ urlv_new \in [Type -> [Url -> Nat]] /\ replies' = replies
    BY <1>1, WaitingTypes DEF Register, ZsTypeOK
  <2>2. PICK order \in Orders(Type) : requests' = requests \o Lists(order)
    BY <1>1 DEF Register, Send
  <2>3. AsksFor(requests', t, u) = AsksFor(requests, t, u)
    BY <2>2, WaitingTypes, AsksForLists
  <2>4. urlv_new'[t][u] \in Nat /\ urlv_new'[t][u] <= urlv_new[t][u]
    BY <2>1, RestartCollects
  <2>. QED
    BY <2>1, <2>3, <2>4, CollectableType DEF Collectable
<1>2. CASE DeliverWatch
  <2>. DEFINE T == {Head(replies).type}
  <2>1. Receive("watch") /\ on_list_change(T, TRUE) /\ TRUE \in BOOLEAN
    BY <1>2 DEF DeliverWatch
  <2>2. PICK order \in Orders(Changed(T)) : requests' = requests \o Lists(order)
    BY <1>2 DEF DeliverWatch, Send
  <2>3. T \in SUBSET Type
    BY <2>1, WaitingTypes, ReceiveFlow DEF Message
  <2>. HIDE DEF T
  <2>4. /\ urlv_new'[t][u] \in Nat /\ urlv_new'[t][u] <= urlv_new[t][u]
        /\ AsksFor(requests', t, u) = AsksFor(requests, t, u)
    BY <2>1, <2>2, <2>3, CollectableChange
  <2>5. /\ AsksFor(replies', t, u) \in Nat
        /\ AsksFor(replies', t, u) <= AsksFor(replies, t, u)
    BY <2>1, WaitingTypes, AsksForReceived
  <2>. QED
    BY <2>4, <2>5, CollectableType DEF Collectable
<1>3. CASE SkipLost
  <2>1. Receive("blank") /\ UNCHANGED <<requests, urlv_new>>
    BY <1>3 DEF SkipLost, zsVars
  <2>2. /\ AsksFor(replies', t, u) \in Nat
        /\ AsksFor(replies', t, u) <= AsksFor(replies, t, u)
    BY <2>1, WaitingTypes, AsksForReceived
  <2>. QED
    BY <2>1, <2>2, CollectableType DEF Collectable
<1>4. CASE UNCHANGED vars
  <2>1. UNCHANGED <<requests, replies, urlv_new>>
    BY <1>4 DEF vars, zkVars, zsVars
  <2>. QED
    BY <2>1, CollectableType DEF Collectable
<1>. QED
  BY <1>1, <1>2, <1>3, <1>4

\* What has been collected once the oldest answer, that of a get, has joined it.
Joined ==
    LET m == Head(replies)
        kept == {n \in m.names : m.rc = "ZOK" /\ Compatible(n)}
    IN  [urlv_new EXCEPT ![m.type] = [y \in Url |->
            IF \E n \in kept : NodeUrl[n] = y THEN @[y] + 1 ELSE @[y]]]

\* on_get: the get that is over becomes at most one collected URL, its own.
LEMMA JoinedType ==
    ASSUME DiscoveryInv, Receive("get"), NEW t \in Type, NEW u \in Url
    PROVE  /\ Head(replies).type \in Type /\ Joined \in [Type -> [Url -> Nat]]
           /\ AsksFor(replies', t, u) \in Nat /\ Joined[t][u] \in Nat
           /\ Joined[t][u] + AsksFor(replies', t, u) <= urlv_new[t][u] + AsksFor(replies, t, u)
<1>. DEFINE m == Head(replies)
            k == m.type
            kept == {n \in m.names : m.rc = "ZOK" /\ Compatible(n)}
            one == IF m \in Asks(t, u) THEN 1 ELSE 0
            joined == [y \in Url |-> IF \E n \in kept : NodeUrl[n] = y
                                     THEN urlv_new[k][y] + 1 ELSE urlv_new[k][y]]
<1>1. m \in Message /\ m.op = "get"
  BY WaitingTypes, ReceiveFlow
<1>2. k \in Type
  BY <1>1 DEF Message
<1>3. AsksFor(replies, t, u) = AsksFor(replies', t, u) + one /\ AsksFor(replies', t, u) \in Nat
  BY WaitingTypes, AsksForReceived
<1>4. t = k /\ (\E n \in kept : NodeUrl[n] = u) => one = 1
  BY <1>1 DEF Asks, Kind
<1>5. one \in Nat
  OBVIOUS
<1>6. urlv_new \in [Type -> [Url -> Nat]]
  BY WaitingTypes DEF ZsTypeOK
<1>7. Joined = [urlv_new EXCEPT ![k] = joined]
  BY DEF Joined
<1>. HIDE DEF m, k, kept, one
<1>8. /\ joined \in [Url -> Nat]
      /\ joined[u] = IF \E n \in kept : NodeUrl[n] = u THEN urlv_new[k][u] + 1 ELSE urlv_new[k][u]
  BY <1>2, <1>6
<1>. HIDE DEF joined
<1>9. /\ Joined \in [Type -> [Url -> Nat]]
      /\ Joined[t] = IF t = k THEN joined ELSE urlv_new[t]
  BY <1>2, <1>6, <1>7, <1>8
<1>10. urlv_new[t][u] \in Nat /\ Joined[t][u] \in Nat
  BY <1>6, <1>9
<1>11. Joined[t][u] <= urlv_new[t][u] + one
  BY <1>4, <1>5, <1>8, <1>9, <1>10
<1>12. Joined[t][u] + AsksFor(replies', t, u) <= urlv_new[t][u] + AsksFor(replies, t, u)
  BY <1>3, <1>5, <1>10, <1>11
<1>. QED
  BY <1>2, <1>3, <1>9, <1>10, <1>12 DEF k, m

\* on_get collects no more of a URL than was asked for.
LEMMA CollectableGet ==
    ASSUME DiscoveryInv, DeliverGet, NEW t \in Type, NEW u \in Url
    PROVE  Collectable(t, u)' <= Collectable(t, u)
<1>. DEFINE k == Head(replies).type
            gets == [get_pending EXCEPT ![k] = @ - 1]
            over == RoundOver(k, list_wanted, list_pending, gets)
            again == Relisted({k}, list_wanted, list_pending, gets)
            left == IF over THEN [Joined EXCEPT ![k] = NoUrls] ELSE Joined
<1>1. Receive("get") /\ restart_list(again, list_pending, left, TRUE)
  BY DEF DeliverGet, Joined
<1>2. PICK order \in Orders(again) : requests' = requests \o Lists(order)
  BY DEF DeliverGet, Send
<1>3. /\ k \in Type /\ Joined \in [Type -> [Url -> Nat]]
      /\ AsksFor(replies', t, u) \in Nat /\ Joined[t][u] \in Nat
      /\ Joined[t][u] + AsksFor(replies', t, u) <= urlv_new[t][u] + AsksFor(replies, t, u)
  BY <1>1, JoinedType
<1>4. again \in SUBSET Type
  BY <1>3 DEF Relisted
<1>. HIDE DEF over, again
<1>5. AsksFor(requests', t, u) = AsksFor(requests, t, u)
  BY <1>2, <1>4, WaitingTypes, AsksForLists
<1>6. left \in [Type -> [Url -> Nat]] /\ left[t][u] <= Joined[t][u]
  <2>1. NoUrls \in [Url -> Nat] /\ NoUrls[u] = 0
    BY DEF NoUrls
  <2>. QED
    BY <1>3, <2>1
<1>. HIDE DEF left
<1>7. urlv_new'[t][u] \in Nat /\ urlv_new'[t][u] <= left[t][u] /\ left[t][u] \in Nat
  BY <1>1, <1>6, RestartCollects
<1>. QED
  BY <1>3, <1>5, <1>6, <1>7, CollectableType DEF Collectable

\* on_list_completion: a round begins with nothing, and asks once for each node
\* the list names.
LEMMA CollectableList ==
    ASSUME DiscoveryInv, DeliverList, NEW t \in Type, NEW u \in Url
    PROVE  \/ Collectable(t, u)' <= Collectable(t, u)
           \/ LET m == Head(replies)
              IN  /\ m.type = t /\ m.rc = "ZOK"
                  /\ Collectable(t, u)' <= Cardinality({n \in m.names : NodeUrl[n] = u})
<1>. DEFINE m == Head(replies)
            k == m.type
            children == IF m.rc = "ZOK" THEN m.names ELSE {}
            lists == [list_pending EXCEPT ![k] = @ - 1]
            gets == [get_pending EXCEPT ![k] = @ + Cardinality(children)]
            again == Relisted({k}, list_wanted, lists, gets)
            asked == Cardinality({n \in children : NodeUrl[n] = u})
<1>1. Receive("list") /\ restart_list(again, lists, urlv_new, TRUE)
  BY DEF DeliverList
<1>2. PICK corder \in Orders(children), order \in Orders(again) :
        requests' = requests \o (Gets(k, corder) \o Lists(order))
  BY DEF DeliverList, Send
<1>3. m \in Message /\ m.op = "list"
  BY <1>1, WaitingTypes, ReceiveFlow
<1>4. k \in Type /\ children \in SUBSET Node
  BY <1>3 DEF Message
<1>5. again \in SUBSET Type
  BY <1>4 DEF Relisted
<1>6. AsksFor(replies', t, u) = AsksFor(replies, t, u)
  <2>1. m \notin Asks(t, u)
    BY <1>3 DEF Asks, Kind
  <2>. QED
    BY <1>1, <2>1, WaitingTypes, AsksForReceived
<1>7. urlv_new'[t][u] \in Nat /\ urlv_new'[t][u] <= urlv_new[t][u]
  BY <1>1, WaitingTypes, RestartCollects DEF ZsTypeOK
<1>8. k = t => Collectable(t, u) = 0
  <2>. SUFFICES ASSUME k = t PROVE Collectable(t, u) = 0
    OBVIOUS
  <2>1. list_pending[t] > 0
    BY <1>1, WaitingTypes, HeadIsPending
  <2>2. get_pending[t] = 0
    <3>1. list_pending[t] \in Nat /\ list_pending[t] <= 1 /\ (list_pending[t] = 1 => get_pending[t] = 0)
      BY Counters
    <3>. QED
      BY <2>1, <3>1
  <2>3. urlv_new[t] = NoUrls
    BY <2>2, Counters
  <2>4. Count(requests, "get", t) = 0 /\ Count(replies, "get", t) = 0
    <3>1. /\ Count(requests, "get", t) \in Nat /\ Count(replies, "get", t) \in Nat
          /\ get_pending[t] = Count(requests, "get", t) + Count(replies, "get", t)
      BY WaitingTypes, Counters, CountType
    <3>. QED
      BY <2>2, <3>1
  <2>5. \A x \in Range(requests) \cup Range(replies) : x \notin Asks(t, u)
    <3>1. \A x \in Range(requests) \cup Range(replies) : ~(x.op = "get" /\ x.type = t)
      BY <2>4, WaitingTypes, NoneCounted
    <3>. QED
      BY <3>1 DEF Asks, Kind
  <2>6. Hits(requests, Asks(t, u)) = 0 /\ Hits(replies, Asks(t, u)) = 0
    BY <2>5, HitsNone
  <2>. QED
    BY <2>3, <2>6, WaitingTypes, AsksForHits, CollectableType DEF Collectable
<1>9. asked \in Nat
  <2>1. {n \in children : NodeUrl[n] = u} \in SUBSET Node
    BY <1>4
  <2>2. IsFiniteSet({n \in children : NodeUrl[n] = u})
    BY <2>1, FS_Subset, ZooKeeperAssumption
  <2>. QED
    BY <2>2, FS_CardinalityType
<1>10. AsksFor(requests', t, u) = AsksFor(requests, t, u) + (IF k = t THEN asked ELSE 0)
  <2>. DEFINE g == Gets(k, corder)
  <2>1. g \in Seq(Message) /\ AsksFor(g, t, u) = IF k = t THEN asked ELSE 0
    <3>. HIDE DEF k, children
    <3>1. g \in Seq(Message)
      BY <1>4, GetsCount, ZooKeeperAssumption
    <3>2. AsksFor(g, t, u) = IF t = k THEN asked ELSE 0
      BY <1>4, AsksForGets
    <3>. QED
      BY <3>1, <3>2
  <2>. DEFINE K == Asks(t, u)
              l == Lists(order)
  <2>2. l \in Seq(Message)
    BY <1>5, ListsCount, ZooKeeperAssumption
  <2>. HIDE DEF g, K, asked, k, children, again
  <2>3. g \o l \in Seq(Message) /\ AsksFor(g \o l, t, u) = AsksFor(g, t, u)
    BY <1>5, <2>1, AsksForLists
  <2>. DEFINE both == g \o l
  <2>. HIDE DEF l, both
  <2>4. /\ requests \o both \in Seq(Message)
        /\ Hits(requests \o both, K) = Hits(requests, K) + Hits(both, K)
    BY <2>3, WaitingTypes, ConcatProperties, HitsConcat DEF both
  <2>5. /\ AsksFor(requests \o both, t, u) = Hits(requests \o both, K)
        /\ AsksFor(requests, t, u) = Hits(requests, K)
        /\ AsksFor(both, t, u) = Hits(both, K)
    BY <2>3, <2>4, WaitingTypes, AsksForHits DEF K, both
  <2>. QED
    BY <1>2, <2>1, <2>3, <2>4, <2>5 DEF both, g, l
<1>11. /\ urlv_new[t][u] \in Nat
       /\ AsksFor(requests, t, u) \in Nat /\ AsksFor(replies, t, u) \in Nat
       /\ Collectable(t, u) = urlv_new[t][u] + AsksFor(requests, t, u) + AsksFor(replies, t, u)
       /\ Collectable(t, u)' = urlv_new'[t][u] + AsksFor(requests', t, u) + AsksFor(replies', t, u)
  BY CollectableType DEF Collectable
<1>12. CASE k # t
  BY <1>6, <1>7, <1>10, <1>11, <1>12
<1>13. CASE k = t /\ m.rc = "ZOK"
  <2>. HIDE DEF asked
  <2>1. Collectable(t, u)' <= asked
    BY <1>6, <1>7, <1>8, <1>9, <1>10, <1>11, <1>13
  <2>. QED
    BY <1>13, <2>1 DEF asked
<1>14. CASE k = t /\ m.rc # "ZOK"
  <2>1. asked = 0
    <3>1. {n \in children : NodeUrl[n] = u} = {}
      BY <1>14
    <3>. QED
      BY <3>1, FS_EmptySet
  <2>. HIDE DEF asked
  <2>. QED
    BY <1>6, <1>7, <1>10, <1>11, <1>14, <2>1
<1>. QED
  BY <1>12, <1>13, <1>14

\* No step but the answer of a list lets a round collect more of a URL.
LEMMA NextCollectable ==
    ASSUME DiscoveryInv, [Next]_vars, NEW t \in Type, NEW u \in Url
    PROVE  \/ Collectable(t, u)' <= Collectable(t, u)
           \/ LET m == Head(replies)
              IN  /\ DeliverList /\ m.type = t /\ m.rc = "ZOK"
                  /\ Collectable(t, u)' <= Cardinality({n \in m.names : NodeUrl[n] = u})
<1>1. CASE Environment
  BY <1>1, CollectablePeers, CollectableType
<1>2. CASE DeliverList
  BY <1>2, CollectableList
<1>. QED
  BY <1>1, <1>2, CollectableGet, CollectableDisconnect, CollectableSession, CollectableRest
  DEF Next, Deliver

\* Nothing is collected at the start.
LEMMA InitCollectable ==
    ASSUME Init, NEW t \in Type, NEW u \in Url
    PROVE  Collectable(t, u) = 0
<1>1. urlv_new[t][u] = 0 /\ requests = <<>> /\ replies = <<>>
  BY DEF Init, ZkInit, NoUrls
<1>2. AsksFor(<<>>, t, u) = 0
  <2>1. {i \in DOMAIN <<>> : <<>>[i].op = "get" /\ <<>>[i].type = t
                             /\ \E n \in <<>>[i].names : NodeUrl[n] = u} = {}
    OBVIOUS
  <2>. QED
    BY <2>1, FS_EmptySet DEF AsksFor
<1>. QED
  BY <1>1, <1>2 DEF Collectable

\* Every step of the discovery keeps RoundIsolation.
LEMMA NextRoundIsolation ==
    DiscoveryInv /\ RoundIsolation /\ [Next]_vars => RoundIsolation'
<1>. SUFFICES ASSUME DiscoveryInv, RoundIsolation, [Next]_vars, NEW t \in Type, NEW u \in Url
              PROVE  Collectable(t, u)' <= Cardinality({n \in Node : NodeType[n] = t /\ NodeUrl[n] = u})
  BY DEF RoundIsolation
<1>. DEFINE A == {n \in Node : NodeType[n] = t /\ NodeUrl[n] = u}
            m == Head(replies)
            B == {n \in m.names : NodeUrl[n] = u}
<1>1. IsFiniteSet(A) /\ Cardinality(A) \in Nat
  <2>1. A \in SUBSET Node
    OBVIOUS
  <2>2. IsFiniteSet(A)
    BY <2>1, FS_Subset, ZooKeeperAssumption
  <2>. QED
    BY <2>2, FS_CardinalityType
<1>2. DiscoveryInv'
  BY NextDiscoveryInv
<1>3. Countable'
  BY <1>2, AlwaysCountable, PTL
<1>. Collectable(t, u) \in Nat /\ Collectable(t, u)' \in Nat
  BY <1>3, CollectableType DEF Countable
<1>4. CASE Collectable(t, u)' <= Collectable(t, u)
  <2>1. Collectable(t, u) <= Cardinality(A)
    BY DEF RoundIsolation
  <2>. HIDE DEF A
  <2>2. Collectable(t, u)' <= Cardinality(A)
    BY <1>1, <1>4, <2>1
  <2>. QED
    BY <2>2 DEF A
<1>5. CASE /\ DeliverList /\ m.type = t /\ m.rc = "ZOK"
           /\ Collectable(t, u)' <= Cardinality(B)
  <2>1. m \in Range(replies) /\ m.op = "list"
    BY <1>5, WaitingTypes, ReceiveFlow DEF DeliverList
  <2>2. B \in SUBSET A
    BY <1>5, <2>1, WaitingTypes DEF Flight, Answered, Sensible, Known
  <2>. HIDE DEF A, B
  <2>3. IsFiniteSet(B) /\ Cardinality(B) \in Nat /\ Cardinality(B) <= Cardinality(A)
    BY <1>1, <2>2, FS_Subset, FS_CardinalityType
  <2>4. Collectable(t, u)' <= Cardinality(A)
    BY <1>1, <1>5, <2>3
  <2>. QED
    BY <2>4 DEF A
<1>. QED
  BY <1>4, <1>5, NextCollectable

\* A round has collected nothing yet.
LEMMA InitRoundIsolation == Init => RoundIsolation
<1>. SUFFICES ASSUME Init, NEW t \in Type, NEW u \in Url
              PROVE  Collectable(t, u) <= Cardinality({n \in Node : NodeType[n] = t /\ NodeUrl[n] = u})
  BY DEF RoundIsolation
<1>. DEFINE A == {n \in Node : NodeType[n] = t /\ NodeUrl[n] = u}
<1>1. A \in SUBSET Node
  OBVIOUS
<1>2. IsFiniteSet(A)
  BY <1>1, FS_Subset, ZooKeeperAssumption
<1>3. Cardinality(A) \in Nat
  BY <1>2, FS_CardinalityType
<1>. QED
  BY <1>3, InitCollectable

\* The answers of an abandoned round never mix with the next (on_list_completion,
\* restart_list): a round collects a URL at most once for each node announced
\* with it.
THEOREM RoundsNeverMix == Spec => []RoundIsolation
<1>1. Init => DiscoveryInv
  BY InitTypeAndPending, InitUnregistered, InitRounds, InitNothingKept, InitFlight
  DEF DiscoveryInv
<1>. QED
  BY <1>1, InitRoundIsolation, NextDiscoveryInv, NextRoundIsolation, PTL DEF Spec

-----------------------------------------------------------------------------
(* Without shared URLs the connections are the URLs adopted.               *)

\* The URLs announced under a type.
TypeUrls(t) == {NodeUrl[n] : n \in {k \in Node : NodeType[k] = t}}

\* A list that succeeded names no URL twice.
Lone(m) ==
    m.op = "list" /\ m.rc = "ZOK" =>
        \A n, k \in m.names : n # k => NodeUrl[n] # NodeUrl[k]

\* No round collects a URL twice, and what a type adopted was announced under it.
NoDouble ==
    /\ \A m \in Range(replies) : Lone(m)
    /\ \A t \in Type, u \in Url : Collectable(t, u) <= 1
    /\ \A t \in Type : urlv_current[t] \subseteq TypeUrls(t)

\* A round that adopts single URLs of its own type makes or breaks exactly the
\* connections that differ.
LEMMA AdoptsLinks ==
    ASSUME UrlsOfOneType, ZsTypeOK, LinksMatchClaims,
           \A t \in Type : urlv_current[t] \subseteq TypeUrls(t),
           NEW k \in Type, NEW new \in [Url -> Nat],
           \A u \in Url : new[u] <= 1 /\ (new[u] > 0 => u \in TypeUrls(k)),
           zco_reconnect(k, new)
    PROVE  /\ LinksMatchClaims'
           /\ \A t \in Type : urlv_current'[t] \subseteq TypeUrls(t)
<1>1. CASE new = NoUrls
  BY <1>1 DEF zco_reconnect, peerVars, LinksMatchClaims
<1>2. CASE new # NoUrls
  <2>. DEFINE cur == urlv_current[k]
              add == Added(cur, new)
              rem == Removed(cur, new)
              others == UNION {urlv_current[t] : t \in Type \ {k}}
              joining == {u \in Url : add[u] > 0}
  <2>1. ApplyDelta(add, rem)
    BY <1>2 DEF zco_reconnect
  <2>2. /\ urlv_current'[k] = {u \in Url : new[u] > 0}
        /\ \A t \in Type \ {k} : urlv_current'[t] = urlv_current[t]
    BY <1>2, AdoptsCollected
  <2>3. \A t \in Type : urlv_current'[t] \subseteq TypeUrls(t)
    BY <2>2
  <2>4. urlv_current \in [Type -> SUBSET Url] /\ connect_real \in [Url -> Nat]
    BY DEF ZsTypeOK
  <2>5. cur \subseteq Url /\ others \subseteq Url /\ cur \subseteq TypeUrls(k)
    BY <2>4
  <2>6. \A u \in others : u \notin TypeUrls(k)
    <3>. SUFFICES ASSUME NEW t \in Type \ {k}, NEW u \in urlv_current[t]
         PROVE  u \notin TypeUrls(k)
      OBVIOUS
    <3>1. PICK n \in Node : NodeType[n] = t /\ NodeUrl[n] = u
      BY DEF TypeUrls
    <3>. QED
      BY <3>1 DEF TypeUrls, UrlsOfOneType
  <2>7. links = cur \cup others
    BY DEF LinksMatchClaims
  <2>8. UNION {urlv_current'[t] : t \in Type} = {u \in Url : new[u] > 0} \cup others
    BY <2>2
  <2>9. \A u \in Url : add[u] = IF new[u] > 0 /\ u \notin cur THEN 1 ELSE 0
    BY DEF Added
  <2>10. \A u \in Url : u \in rem <=> u \in cur /\ new[u] = 0
    BY <2>5 DEF Removed
  <2>11. \A u \in Url : connect_real[u] = IF u \in links THEN 1 ELSE 0
    BY DEF LinksMatchClaims
  <2>12. rem \subseteq Url
    BY <2>5 DEF Removed
  <2>. HIDE DEF add, rem, others, cur, joining
  <2>. DEFINE dropped == {u \in rem : connect_real[u] > 0}
  <2>13. dropped = rem
    BY <2>7, <2>10, <2>11, <2>12
  <2>14. /\ links' = (links \cup {u \in Url : add[u] > 0 /\ connect_real[u] = 0}) \ rem
         /\ connect_real' = [u \in Url |-> connect_real[u] + add[u] - (IF u \in rem THEN 1 ELSE 0)]
    BY <2>1, <2>13 DEF ApplyDelta
  <2>15. ASSUME NEW u \in Url
         PROVE  /\ u \in links' <=> new[u] > 0 \/ u \in others
                /\ connect_real'[u] = IF u \in links' THEN 1 ELSE 0
    <3>1. new[u] \in Nat /\ new[u] <= 1 /\ (new[u] > 0 => u \notin others)
      BY <2>6
    <3>2. u \in cur => u \notin others
      BY <2>5, <2>6
    <3>3. u \in links <=> u \in cur \/ u \in others
      BY <2>7
    <3>4. u \in rem <=> u \in cur /\ new[u] = 0
      BY <2>10
    <3>5. add[u] = IF new[u] > 0 /\ u \notin cur THEN 1 ELSE 0
      BY <2>9
    <3>6. connect_real[u] = IF u \in links THEN 1 ELSE 0
      BY <2>11
    <3>7. u \in links' <=> (u \in links \/ (add[u] > 0 /\ connect_real[u] = 0)) /\ u \notin rem
      BY <2>14
    <3>8. connect_real'[u] = connect_real[u] + add[u] - (IF u \in rem THEN 1 ELSE 0)
      BY <2>14
    <3>9. u \in links' <=> new[u] > 0 \/ u \in others
      BY <3>1, <3>2, <3>3, <3>4, <3>5, <3>6, <3>7
    <3>. QED
      BY <3>1, <3>2, <3>3, <3>4, <3>5, <3>6, <3>8, <3>9
  <2>16. links' \subseteq Url
    BY <2>5, <2>7, <2>14
  <2>17. links' = UNION {urlv_current'[t] : t \in Type}
    BY <2>5, <2>8, <2>15, <2>16
  <2>. QED
    BY <2>3, <2>15, <2>17 DEF LinksMatchClaims
<1>. QED
  BY <1>1, <1>2

\* The adoption of a round is all that changes the connections.
LEMMA GetAdopts ==
    ASSUME [Next]_vars
    PROVE  \/ UNCHANGED peerVars
           \/ DeliverGet /\ zco_reconnect(Head(replies).type, Joined[Head(replies).type])
<1>1. CASE DeliverGet
  BY <1>1 DEF DeliverGet, Joined
<1>2. CASE ~DeliverGet
  BY <1>2 DEF Next, Environment, Register, Deliver, DeliverList, DeliverWatch, SkipLost,
              Disconnect, Reconnect, SessionExpired, on_list_change, vars, zsVars, peerVars
<1>. QED
  BY <1>1, <1>2

\* What a round collects was announced under its type.
LEMMA CollectableUrls ==
    ASSUME DiscoveryInv, RoundIsolation, NEW t \in Type, NEW u \in Url, Collectable(t, u) > 0
    PROVE  u \in TypeUrls(t)
<1>. DEFINE A == {n \in Node : NodeType[n] = t /\ NodeUrl[n] = u}
<1>1. A # {}
  <2>. SUFFICES ASSUME A = {} PROVE FALSE
    OBVIOUS
  <2>1. Collectable(t, u) <= Cardinality({})
    BY DEF RoundIsolation
  <2>. QED
    BY <2>1, CollectableType, FS_EmptySet
<1>. QED
  BY <1>1 DEF TypeUrls

\* Only the server's answers are lists that succeeded, each of nodes live together.
LEMMA NextLone ==
    ASSUME DiscoveryInv, DiscoveryInv', OneLifeAtATime, \A m \in Range(replies) : Lone(m), [Next]_vars
    PROVE  \A m \in Range(replies') : Lone(m)
<1>1. CASE Environment
  <2>1. CASE ServerAnswer
    <3>. DEFINE a == Answer(Head(requests))
    <3>1. Head(requests) \in Message /\ Range(replies') = Range(replies) \cup {a}
      BY <2>1, WaitingTypes, ServerFlow
    <3>2. a.op = "list" => a.names \subseteq LiveNodes(a.type)
      BY <3>1 DEF Answer, Message
    <3>3. Lone(a)
      BY <3>2 DEF Lone, LiveNodes, OneLifeAtATime
    <3>. QED
      BY <3>1, <3>3
  <2>2. ASSUME NEW n \in Node, Publish(n) \/ Expire(n)
        PROVE  \A m \in Range(replies') : Lone(m)
    <3>1. FireWatch(NodeType[n]) /\ NodeType[n] \in Type
      BY <2>2, ZooKeeperAssumption DEF Publish, Expire
    <3>2. Range(replies') \subseteq Range(replies) \cup {Msg("watch", NodeType[n], {})}
      BY <3>1, WaitingTypes, FireFlow
    <3>. QED
      BY <3>2 DEF Lone, Msg
  <2>3. ASSUME NEW t \in Type, CreateType(t) PROVE replies' = replies
    BY <2>3 DEF CreateType
  <2>. QED
    BY <1>1, <2>1, <2>2, <2>3 DEF Environment
<1>2. CASE Deliver
  <2>1. \E op : Receive(op)
    BY <1>2 DEF Deliver, DeliverList, DeliverGet, DeliverWatch, SkipLost
  <2>2. Range(replies') \subseteq Range(replies)
    BY <2>1, WaitingTypes, ReceiveFlow
  <2>. QED
    BY <2>2
<1>3. CASE Disconnect
  <2>1. session' # "connected"
    BY <1>3 DEF Disconnect, LoseConnection
  <2>2. \A m \in Range(replies') : m.rc # "ZOK"
    BY <2>1 DEF DiscoveryInv, Flight, CutOff
  <2>. QED
    BY <2>2 DEF Lone
<1>4. CASE Reconnect
  <2>1. PICK order \in Orders(armed \ watching) : replies' = Events(order)
    BY <1>4 DEF Reconnect, ResumeSession
  <2>2. Range(replies') = {Msg("watch", t, {}) : t \in armed \ watching}
    BY <2>1, RangeLists
  <2>. QED
    BY <2>2 DEF Lone, Msg
<1>5. CASE Register \/ SessionExpired \/ UNCHANGED vars
  <2>1. replies' = replies
    BY <1>5 DEF Register, SessionExpired, EndSession, vars, zkVars
  <2>. QED
    BY <2>1
<1>. QED
  BY <1>1, <1>2, <1>3, <1>4, <1>5 DEF Next

\* What holds while the tool runs, as long as no URL is shared.
LinkInv == DiscoveryInv /\ RoundIsolation /\ NoDouble /\ LinksMatchClaims

\* A round that begins asks at most once for a URL.
LEMMA NextSingle ==
    ASSUME DiscoveryInv, DiscoveryInv', NoDouble, [Next]_vars, NEW t \in Type, NEW u \in Url
    PROVE  Collectable(t, u)' <= 1
<1>. DEFINE m == Head(replies)
            B == {n \in m.names : NodeUrl[n] = u}
<1>1. Countable'
  BY AlwaysCountable, PTL
<1>2. Collectable(t, u)' \in Nat /\ Collectable(t, u) \in Nat /\ Collectable(t, u) <= 1
  BY <1>1, CollectableType DEF Countable, NoDouble
<1>3. CASE DeliverList /\ m.type = t /\ m.rc = "ZOK" /\ Collectable(t, u)' <= Cardinality(B)
  <2>1. m \in Message /\ m \in Range(replies) /\ m.op = "list"
    BY <1>3, WaitingTypes, ReceiveFlow DEF DeliverList
  <2>2. \A n, k \in B : n = k
    BY <1>3, <2>1 DEF NoDouble, Lone
  <2>3. Cardinality(B) <= 1 /\ Cardinality(B) \in Nat
    <3>. HIDE DEF B
    <3>1. CASE B = {}
      BY <3>1, FS_EmptySet
    <3>2. CASE B # {}
      <4>1. PICK n : n \in B
        BY <3>2
      <4>2. B = {n}
        BY <2>2, <4>1
      <4>. QED
        BY <4>2, FS_Singleton
    <3>. QED
      BY <3>1, <3>2
  <2>. HIDE DEF B
  <2>. QED
    BY <1>2, <1>3, <2>3
<1>4. CASE Collectable(t, u)' <= Collectable(t, u)
  BY <1>2, <1>4
<1>. QED
  BY <1>3, <1>4, NextCollectable

\* Every step of the loop keeps the connections and the adopted URLs equal.
LEMMA NextLinks ==
    UrlsOfOneType /\ OneLifeAtATime /\ LinkInv /\ [Next]_vars => LinkInv'
<1>. SUFFICES ASSUME UrlsOfOneType, OneLifeAtATime, LinkInv, [Next]_vars PROVE LinkInv'
  OBVIOUS
<1>1. /\ DiscoveryInv /\ RoundIsolation /\ NoDouble /\ LinksMatchClaims
      /\ \A m \in Range(replies) : Lone(m)
      /\ \A t \in Type : urlv_current[t] \subseteq TypeUrls(t)
  BY DEF LinkInv, NoDouble
<1>2. DiscoveryInv' /\ RoundIsolation'
  BY <1>1, NextDiscoveryInv, NextRoundIsolation
<1>3. \A m \in Range(replies') : Lone(m)
  BY <1>1, <1>2, NextLone
<1>4. \A t \in Type, u \in Url : Collectable(t, u)' <= 1
  BY <1>1, <1>2, NextSingle
<1>5. LinksMatchClaims' /\ \A t \in Type : urlv_current'[t] \subseteq TypeUrls(t)
  <2>. DEFINE k == Head(replies).type
  <2>1. CASE UNCHANGED peerVars
    BY <1>1, <2>1 DEF peerVars, LinksMatchClaims
  <2>2. CASE DeliverGet /\ zco_reconnect(k, Joined[k])
    <3>1. Receive("get")
      BY <2>2 DEF DeliverGet
    <3>2. k \in Type /\ Joined[k] \in [Url -> Nat]
      <4>1. ASSUME NEW t \in Type, NEW u \in Url
            PROVE  k \in Type /\ Joined \in [Type -> [Url -> Nat]]
        BY <1>1, <3>1, JoinedType
      <4>2. k \in Type
        BY <1>1, <3>1, WaitingTypes, ReceiveFlow DEF Message
      <4>3. CASE Url = {}
        BY <1>1, <4>2, <4>3, WaitingTypes DEF Joined, ZsTypeOK
      <4>. QED
        BY <4>1, <4>2, <4>3
    <3>3. ASSUME NEW u \in Url
          PROVE  Joined[k][u] <= 1 /\ (Joined[k][u] > 0 => u \in TypeUrls(k))
      <4>1. /\ Joined[k][u] \in Nat /\ AsksFor(replies', k, u) \in Nat
            /\ Joined[k][u] + AsksFor(replies', k, u) <= urlv_new[k][u] + AsksFor(replies, k, u)
        BY <1>1, <3>1, <3>2, JoinedType
      <4>2. /\ urlv_new[k][u] \in Nat /\ AsksFor(requests, k, u) \in Nat
            /\ AsksFor(replies, k, u) \in Nat /\ Collectable(k, u) \in Nat
            /\ Collectable(k, u) = urlv_new[k][u] + AsksFor(requests, k, u) + AsksFor(replies, k, u)
        BY <1>1, <3>2, CollectableType DEF Collectable
      <4>3. Joined[k][u] <= Collectable(k, u)
        BY <4>1, <4>2
      <4>4. Collectable(k, u) <= 1
        BY <1>1, <3>2 DEF NoDouble
      <4>5. Joined[k][u] > 0 => Collectable(k, u) > 0
        BY <4>1, <4>2, <4>3
      <4>. QED
        BY <1>1, <3>2, <4>1, <4>2, <4>3, <4>4, <4>5, CollectableUrls
    <3>. HIDE DEF k
    <3>4. ZsTypeOK
      BY <1>1, WaitingTypes
    <3>. QED
      BY <1>1, <2>2, <3>2, <3>3, <3>4, AdoptsLinks
  <2>. QED
    BY <2>1, <2>2, GetAdopts
<1>6. NoDouble'
  BY <1>3, <1>4, <1>5 DEF NoDouble, Lone, TypeUrls
<1>. QED
  BY <1>2, <1>5, <1>6 DEF LinkInv

\* The socket starts with no connection, and nothing to connect to.
LEMMA InitLinkInv == Init => LinkInv
<1>. SUFFICES ASSUME Init PROVE LinkInv
  OBVIOUS
<1>1. DiscoveryInv /\ RoundIsolation
  BY InitTypeAndPending, InitUnregistered, InitRounds, InitNothingKept, InitFlight,
     InitRoundIsolation DEF DiscoveryInv
<1>2. /\ links = {} /\ \A u \in Url : connect_real[u] = 0
      /\ \A t \in Type : urlv_current[t] = {}
  BY DEF Init, NoUrls
<1>3. LinksMatchClaims
  BY <1>2 DEF LinksMatchClaims
<1>4. NoDouble
  <2>1. Range(replies) = {}
    BY DEF Init, ZkInit, Range
  <2>. QED
    BY <1>2, <2>1, InitCollectable DEF NoDouble
<1>. QED
  BY <1>1, <1>3, <1>4 DEF LinkInv

\* As long as no URL is shared, a type with nothing under way and its watch set
\* on both sides is connected to all of its live peers, whatever came before:
\* what zconnect_shared_url finds wrong needs a shared URL.
THEOREM UnsharedPeersAreConnected ==
    ASSUME UrlsOfOneType
    PROVE  Spec /\ []OneLifeAtATime => []LivePeersConnected
<1>1. OneLifeAtATime /\ LinkInv /\ [Next]_vars => LinkInv'
  BY NextLinks
<1>2. LinkInv /\ SettledIsCurrent => LivePeersConnected
  BY DEF LinkInv, LinksMatchClaims, SettledIsCurrent, LivePeersConnected
<1>. QED
  BY <1>1, <1>2, InitLinkInv, SettledIsLive, PTL DEF Spec

-----------------------------------------------------------------------------
(* The end of a tool.                                                      *)

\* Until the tool stops it is what ZConnectProofs says; what the closing finds
\* is settled at the moment it begins.
CloseInv ==
    /\ stage \in {"running", "closed"}
    /\ stage = "running" =>
          TypeAndPending /\ Unregistered /\ Rounds /\ NothingKept /\ damage = {}
    /\ IdleCloseIsClean

\* A tool starts with nothing asked for.
LEMMA InitCloseInv == CloseInit => CloseInv
  BY InitTypeAndPending, InitUnregistered, InitRounds, InitNothingKept
  DEF CloseInit, CloseInv, IdleCloseIsClean

\* The loop keeps the invariants of the discovery; the closing frees twice what
\* is kept, and something is kept only while gets are outstanding.
LEMMA NextCloseInv == CloseInv /\ [CloseNext]_<<vars, closeVars>> => CloseInv'
<1>. SUFFICES ASSUME CloseInv, [CloseNext]_<<vars, closeVars>> PROVE CloseInv'
  OBVIOUS
<1>1. CASE Run
  <2>1. stage = "running" /\ Next /\ UNCHANGED closeVars
    BY <1>1 DEF Run
  <2>2. (TypeAndPending /\ Unregistered /\ Rounds /\ NothingKept)'
    BY <2>1, NextTypeAndPending, NextUnregistered, NextRounds, NextNothingKept DEF CloseInv
  <2>. QED
    BY <2>1, <2>2 DEF CloseInv, IdleCloseIsClean, closeVars
<1>2. CASE zclt_env_close
  <2>1. /\ stage = "running" /\ stage' = "closed"
        /\ damage' = UNION {zco_destroy(t) \cup zookeeper_close(t) : t \in Type}
        /\ list_pending' = list_pending /\ get_pending' = get_pending
    BY <1>2 DEF zclt_env_close
  <2>2. \A t \in Type : list_pending[t] \in Nat /\ get_pending[t] \in Nat
    BY <2>1 DEF CloseInv, TypeAndPending, TypeOK, ZsTypeOK
  <2>3. ASSUME damage' # {}
        PROVE  \E t \in Type : list_pending[t] + get_pending[t] > 0
    <3>1. PICK t \in Type : zco_destroy(t) \cup zookeeper_close(t) # {}
      BY <2>1, <2>3
    <3>2. CASE zookeeper_close(t) # {}
      BY <3>2 DEF zookeeper_close
    <3>3. CASE zco_destroy(t) # {}
      <4>1. get_pending[t] > 0
        BY <2>1, <3>3 DEF zco_destroy, CloseInv, NothingKept
      <4>. QED
        BY <2>2, <4>1
    <3>. QED
      BY <3>1, <3>2, <3>3
  <2>. QED
    BY <2>1, <2>3 DEF CloseInv, IdleCloseIsClean
<1>3. CASE UNCHANGED <<vars, closeVars>>
  <2>1. UNCHANGED vars /\ stage' = stage /\ damage' = damage
    BY <1>3 DEF closeVars
  <2>2. stage = "running" => (TypeAndPending /\ Unregistered /\ Rounds /\ NothingKept)'
    BY <2>1, NextTypeAndPending, NextUnregistered, NextRounds, NextNothingKept DEF CloseInv
  <2>. QED
    BY <2>1, <2>2 DEF CloseInv, IdleCloseIsClean, vars, zsVars
<1>. QED
  BY <1>1, <1>2, <1>3 DEF CloseNext

\* A tool that stops while nothing is outstanding closes cleanly: zco_destroy
\* finds no collected announcement, and no completion comes after it.
THEOREM ClosesCleanly == CloseSpec => []IdleCloseIsClean
<1>1. CloseInv => IdleCloseIsClean
  BY DEF CloseInv
<1>. QED
  BY <1>1, InitCloseInv, NextCloseInv, PTL DEF CloseSpec

\* Until the tool stops it is what the loop keeps; the closing leaves nothing.
CloseLinkInv ==
    /\ stage = "running" => LinkInv
    /\ LinksMatchClaims

\* A tool starts as its loop does.
LEMMA InitCloseLinkInv == CloseInit => CloseLinkInv
  BY InitLinkInv DEF CloseInit, CloseLinkInv, LinkInv

\* The loop, then zclt_env_close: the socket is closed and forgets its entries.
LEMMA NextCloseLinkInv ==
    UrlsOfOneType /\ OneLifeAtATime /\ CloseLinkInv /\ [CloseNext]_<<vars, closeVars>>
        => CloseLinkInv'
<1>. SUFFICES ASSUME UrlsOfOneType, OneLifeAtATime, CloseLinkInv, [CloseNext]_<<vars, closeVars>>
              PROVE  CloseLinkInv'
  OBVIOUS
<1>1. CASE Run
  <2>1. stage = "running" /\ Next /\ stage' = stage
    BY <1>1 DEF Run, closeVars
  <2>2. LinkInv'
    BY <2>1, NextLinks DEF CloseLinkInv
  <2>. QED
    BY <2>2 DEF CloseLinkInv, LinkInv
<1>2. CASE zclt_env_close
  <2>1. /\ stage' = "closed" /\ links' = {} /\ connect_real' = NoUrls
        /\ urlv_current' = [t \in Type |-> {}]
    BY <1>2 DEF zclt_env_close
  <2>2. LinksMatchClaims'
    BY <2>1 DEF LinksMatchClaims, NoUrls
  <2>. QED
    BY <2>1, <2>2 DEF CloseLinkInv
<1>3. CASE UNCHANGED <<vars, closeVars>>
  <2>1. UNCHANGED vars /\ stage' = stage
    BY <1>3 DEF closeVars
  <2>2. stage = "running" => LinkInv'
    BY <2>1, NextLinks DEF CloseLinkInv
  <2>3. LinksMatchClaims'
    BY <2>1 DEF CloseLinkInv, LinksMatchClaims, vars, zsVars
  <2>. QED
    BY <2>1, <2>2, <2>3 DEF CloseLinkInv
<1>. QED
  BY <1>1, <1>2, <1>3 DEF CloseNext

\* As long as no URL is shared, the ZeroMQ socket is connected to exactly the
\* URLs the types have adopted, each with one entry of connect_real, whatever
\* comes, goes, is lost or is given up (_zsock_real_connect and its inverse).
THEOREM LinksAreClaims ==
    ASSUME UrlsOfOneType
    PROVE  CloseSpec /\ []OneLifeAtATime => []LinksMatchClaims
<1>1. CloseLinkInv => LinksMatchClaims
  BY DEF CloseLinkInv
<1>2. OneLifeAtATime /\ CloseLinkInv /\ [CloseNext]_<<vars, closeVars>> => CloseLinkInv'
  BY NextCloseLinkInv
<1>. QED
  BY <1>1, <1>2, InitCloseLinkInv, PTL DEF CloseSpec

=============================================================================
