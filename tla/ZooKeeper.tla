----------------------------- MODULE ZooKeeper -----------------------------
(***************************************************************************)
(* The ZooKeeper ensemble and one handle of the single-threaded C client   *)
(* library, as zeroflows uses them (external code, seen from src/zsock.c). *)
(*                                                                         *)
(* A peer announces a bound socket of type t as an ephemeral sequential    *)
(* child of /listen/t.  A handle sends asynchronous requests and gets the  *)
(* answers and the watch events back in one FIFO order.  A child watch is  *)
(* one-shot; the server sets it when it serves a list, the client library  *)
(* registers it when it handles the answer.  When the connection is lost   *)
(* every outstanding request completes with ZCONNECTIONLOSS, and the       *)
(* watches still registered are set again on reconnection.                 *)
(***************************************************************************)
EXTENDS Integers, Sequences, FiniteSets, Functions

CONSTANTS
    Type,      \* the socket types, "service.socket" (children of /listen)
    Node,      \* every announcement any peer ever makes (sequential: no reuse)
    NodeType,  \* the type a node is announced under
    InitTypes, \* the types whose /listen/<type> exists at the start
    MaxDrops   \* bound: connection losses considered

ASSUME ZooKeeperAssumption ==
    /\ IsFiniteSet(Type)
    /\ IsFiniteSet(Node)
    /\ NodeType \in [Node -> Type]
    /\ InitTypes \subseteq Type
    /\ MaxDrops \in Nat

VARIABLES
    znode,    \* an announcement is unborn, live or gone
    exists,   \* the types whose parent node /listen/<type> exists
    session,  \* the state of the handle
    watching, \* server: the types with a child watch for this handle
    armed,    \* client library: the types with a registered child watcher
    requests, \* sent, not yet served
    replies,  \* answers and watch events not yet handled by the client
    drops     \* connection losses so far

zkVars == <<znode, exists, session, watching, armed, requests, replies, drops>>

-----------------------------------------------------------------------------
(* Messages. The names of a list are its children, that of a get its node. *)
(* A "blank" is the slot of a watch event lost with the connection.        *)

Message == [op : {"list", "get", "watch", "blank"}, type : Type,
            names : SUBSET Node, rc : {"ZOK", "ZNONODE", "ZCONNECTIONLOSS"}]

Msg(op, t, names) == [op |-> op, type |-> t, names |-> names, rc |-> "ZOK"]

\* Every order in which the members of a finite set can be walked.
Orders(S) == Bijection(1..Cardinality(S), S)

Lists(order) == [i \in DOMAIN order |-> Msg("list", order[i], {})]

Events(order) == [i \in DOMAIN order |-> Msg("watch", order[i], {})]

Gets(t, order) == [i \in DOMAIN order |-> Msg("get", t, {order[i]})]

\* Where the messages of q with this operation about this type stand, and how
\* many they are.
Places(q, op, t) == {i \in DOMAIN q : q[i].op = op /\ q[i].type = t}

Count(q, op, t) == Cardinality(Places(q, op, t))

LiveNodes(t) == {n \in Node : NodeType[n] = t /\ znode[n] = "live"}

-----------------------------------------------------------------------------
\* The handle has just been created: it is about to connect.
ZkInit ==
    /\ znode = [n \in Node |-> "unborn"]
    /\ exists = InitTypes
    /\ session = "connecting"
    /\ watching = {}
    /\ armed = {}
    /\ requests = <<>>
    /\ replies = <<>>
    /\ drops = 0

\* The children of /listen/t changed: the one-shot watch, if set, fires. While
\* the handle is disconnected the event is owed until the reconnection.
FireWatch(t) ==
    /\ watching' = watching \ {t}
    /\ replies' = IF t \in watching /\ session = "connected"
                  THEN Append(replies, Msg("watch", t, {}))
                  ELSE replies

\* An operator bootstraps a type (zk-bootstrap.py creates its parent node).
CreateType(t) ==
    /\ t \notin exists
    /\ exists' = exists \cup {t}
    /\ UNCHANGED <<znode, session, watching, armed, requests, replies, drops>>

\* A peer announces one bound endpoint: zsock_register_in_reactor, on_endpoint.
Publish(n) ==
    /\ znode[n] = "unborn"
    /\ NodeType[n] \in exists
    /\ znode' = [znode EXCEPT ![n] = "live"]
    /\ FireWatch(NodeType[n])
    /\ UNCHANGED <<exists, session, armed, requests, drops>>

\* The session of the peer that owns n ends, and its ephemeral node with it.
Expire(n) ==
    /\ znode[n] = "live"
    /\ znode' = [znode EXCEPT ![n] = "gone"]
    /\ FireWatch(NodeType[n])
    /\ UNCHANGED <<exists, session, armed, requests, drops>>

Served(m) ==
    IF m.op = "list" THEN m.type \in exists
                     ELSE \A n \in m.names : znode[n] = "live"

Answer(m) ==
    [m EXCEPT !.names = IF m.op = "list" THEN LiveNodes(m.type) ELSE @,
              !.rc = IF Served(m) THEN "ZOK" ELSE "ZNONODE"]

\* The server serves the oldest request. A list leaves a watch only on ZOK.
ServerAnswer ==
    /\ session = "connected"
    /\ requests # <<>>
    /\ LET m == Head(requests) IN
       /\ replies' = Append(replies, Answer(m))
       /\ watching' = IF m.op = "list" /\ Served(m)
                      THEN watching \cup {m.type} ELSE watching
    /\ requests' = Tail(requests)
    /\ UNCHANGED <<znode, exists, session, armed, drops>>

-----------------------------------------------------------------------------
(* What the client library does around the handlers of zsock.c: "issued"   *)
(* are the requests the handlers make while the library calls them.        *)

\* The handlers' requests join the queue; the sending is asynchronous.
Send(issued) == requests' = requests \o issued

Lost(m) ==
    [m EXCEPT !.op = IF @ = "watch" THEN "blank" ELSE @,
              !.names = IF m.op = "list" THEN {} ELSE @,
              !.rc = "ZCONNECTIONLOSS"]

AllLost(q) == [i \in DOMAIN q |-> Lost(q[i])]

\* A loss noticed by zookeeper_interest (timeout, failed connection). The
\* session event runs the watchers first, then all that is outstanding fails.
LoseConnection(issued) ==
    /\ session \in {"connected", "connecting"}
    /\ drops < MaxDrops
    /\ drops' = drops + 1
    /\ session' = "connecting"
    /\ replies' = AllLost(replies \o (requests \o issued))
    /\ requests' = <<>>
    /\ watching' = {t \in watching \cap armed : Count(replies, "watch", t) = 0}
    /\ UNCHANGED <<znode, exists, armed>>

\* The session begins or resumes: the library sets the registered watches again, and the
\* server fires at once those whose children changed meanwhile.
ResumeSession(issued) ==
    /\ session = "connecting"
    /\ replies = <<>>
    /\ session' = "connected"
    /\ \E order \in Orders(armed \ watching) : replies' = Events(order)
    /\ Send(issued)
    /\ UNCHANGED <<znode, exists, watching, armed, drops>>

\* The session is over. zookeeper_process fails for good, so the reactor stops
\* (zreactor.c, _manage_one_event): the handle is never used again. A session
\* never lost does not end.
EndSession ==
    /\ session = "connecting"
    /\ drops > 0
    /\ replies = <<>>
    /\ session' = "expired"
    /\ UNCHANGED <<znode, exists, watching, armed, requests, replies, drops>>

ZkTypeOK ==
    /\ znode \in [Node -> {"unborn", "live", "gone"}]
    /\ exists \subseteq Type
    /\ session \in {"connected", "connecting", "expired"}
    /\ watching \subseteq Type
    /\ armed \subseteq Type
    /\ requests \in Seq(Message)
    /\ replies \in Seq(Message)
    /\ drops \in 0..MaxDrops
=============================================================================
