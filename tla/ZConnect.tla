------------------------------ MODULE ZConnect ------------------------------
(***************************************************************************)
(* The discovery of the peers of one socket (src/zsock.c): for every type  *)
(* the socket connects to, a zconnect_s lists /listen/<type>, gets every   *)
(* child, collects the URLs of the compatible ones in urlv_new and, when   *)
(* no request is outstanding, makes the ZeroMQ connections match them.     *)
(* One process has one thread: a handler runs to its end, and what it      *)
(* competes with are the peers, the server and the loss of the connection. *)
(***************************************************************************)
EXTENDS ZooKeeper, Deltas

CONSTANTS
    NodeUrl,   \* the "url" a node's content announces
    NodeZtype, \* its "ztype"; "none" when zsocket_resolve refuses it
    OwnZtype   \* the ZeroMQ type of this socket

Ztype == {"PUB", "SUB", "PUSH", "PULL"}

ASSUME ZConnectAssumption ==
    /\ IsFiniteSet(Url)
    /\ NodeUrl \in [Node -> Url]
    /\ NodeZtype \in [Node -> Ztype \cup {"none"}]
    /\ OwnZtype \in Ztype

VARIABLES
    registered,   \* zsock_register_in_reactor has run
    list_wanted,  \* per type: watcher calls not yet turned into a list
    list_pending, \* per type: lists sent and not completed
    get_pending,  \* per type: gets sent and not completed
    urlv_new,     \* per type: how often the round collected each URL
    urlv_current, \* per type: the URLs adopted by the last finished round
    connect_real, \* how many adopters a URL has; 0 when it has no entry
    links         \* the URLs the ZeroMQ socket is connected to

zsVars == <<registered, list_wanted, list_pending, get_pending,
            urlv_new, urlv_current, connect_real, links>>
peerVars == <<urlv_current, connect_real, links>>
vars == <<zkVars, zsVars>>

-----------------------------------------------------------------------------
ztype_compatible(z0, z1) ==
    <<z0, z1>> \in {<<"PUB", "SUB">>, <<"SUB", "PUB">>,
                    <<"PUSH", "PULL">>, <<"PULL", "PUSH">>}

\* Would on_get keep the content of this node?
Compatible(n) == NodeZtype[n] # "none" /\ ztype_compatible(OwnZtype, NodeZtype[n])

NoUrls == [u \in Url |-> 0]

\* Mutant of ApplyDelta: the entry goes, the ZeroMQ connection stays.
ApplyDelta_NoZmqDisconnect(add, rem) ==
    /\ connect_real' = [u \in Url |-> connect_real[u] + add[u]
                           - (IF u \in rem /\ connect_real[u] > 0 THEN 1 ELSE 0)]
    /\ links' = links \cup {u \in Url : add[u] > 0 /\ connect_real[u] = 0}

\* _zsock_real_connect once per member of delta.add, then
\* _zsock_real_disconnect once per member of delta.rem: ZeroMQ connects when
\* an entry is created and disconnects at every decrement.
ApplyDelta(add, rem) ==
    LET dropped == {u \in rem : connect_real[u] > 0} IN
    /\ connect_real' = [u \in Url |-> connect_real[u] + add[u]
                                      - (IF u \in dropped THEN 1 ELSE 0)]
    /\ links' = (links \cup {u \in Url : add[u] > 0 /\ connect_real[u] = 0})
                \ dropped

\* Mutant of zco_reconnect: _merge_deltas forgets the removals.
zco_reconnect_KeepsRemoved(t, new) ==
    IF new = NoUrls THEN UNCHANGED peerVars
    ELSE /\ ApplyDelta(Added(urlv_current[t], new), Removed(urlv_current[t], new))
         /\ urlv_current' = [urlv_current EXCEPT
                ![t] = @ \cup {u \in Url : Added(@, new)[u] > 0}]

\* The URLs of a finished round of type t are adopted. An empty list changes
\* nothing: the early return of zco_reconnect.
zco_reconnect(t, new) ==
    IF new = NoUrls THEN UNCHANGED peerVars
    ELSE /\ ApplyDelta(Added(urlv_current[t], new), Removed(urlv_current[t], new))
         /\ urlv_current' = [urlv_current EXCEPT ![t] = Adopted(@, new)]

-----------------------------------------------------------------------------
\* Mutants of Relisted: lists while gets are outstanding; an off-by-one.
Relisted_DuringGets(T, wanted, lists, gets) ==
    {t \in T : lists[t] = 0 /\ wanted[t] > 0}

Relisted_OffByOne(T, wanted, lists, gets) ==
    {t \in T : gets[t] = 0 /\ lists[t] = 0 /\ wanted[t] > 1}

\* maybe_relist for the types T, with the counters the handler has reached:
\* the types it lists again.
Relisted(T, wanted, lists, gets) ==
    {t \in T : gets[t] = 0 /\ lists[t] = 0 /\ wanted[t] > 0}

\* Mutant of RoundOver: adopts a round although a relist is wanted.
RoundOver_IgnoresWanted(t, wanted, lists, gets) == gets[t] = 0 /\ lists[t] = 0

\* maybe_reconnect: is the round of type t over, and still worth adopting?
RoundOver(t, wanted, lists, gets) ==
    gets[t] = 0 /\ lists[t] = 0 /\ wanted[t] = 0

\* Mutants of restart_list: what was collected is kept; a list the handle
\* refuses is counted as pending.
restart_list_KeepsNew(T, lists, new, accepted) ==
    /\ list_pending' = [t \in Type |-> IF t \in T /\ accepted
                                       THEN lists[t] + 1 ELSE lists[t]]
    /\ urlv_new' = new

restart_list_CountsRefused(T, lists, new, accepted) ==
    /\ list_pending' = [t \in Type |-> IF t \in T THEN lists[t] + 1 ELSE lists[t]]
    /\ urlv_new' = [t \in Type |-> IF t \in T THEN NoUrls ELSE new[t]]

\* restart_list for the types T: what was collected is thrown away, and a list
\* the handle accepts is pending.
restart_list(T, lists, new, accepted) ==
    /\ list_pending' = [t \in Type |-> IF t \in T /\ accepted
                                       THEN lists[t] + 1 ELSE lists[t]]
    /\ urlv_new' = [t \in Type |-> IF t \in T THEN NoUrls ELSE new[t]]

\* Mutant of Consumed: list_wanted is decremented even when nothing restarts.
Consumed_Always(T, wanted) == [t \in Type |-> wanted[t] - 1]

\* The list_wanted of maybe_relist: consumed before the list is attempted.
Consumed(T, wanted) ==
    [t \in Type |-> IF t \in T THEN wanted[t] - 1 ELSE wanted[t]]

\* Mutant of Wanting: a change is noted only when no request is outstanding.
Wanting_WhenIdle(T) ==
    [t \in Type |-> IF t \in T /\ list_pending[t] + get_pending[t] = 0
                    THEN list_wanted[t] + 1 ELSE list_wanted[t]]

\* on_list_change as run for the types T; Changed(T) are those listed again.
Wanting(T) == [t \in Type |-> IF t \in T THEN list_wanted[t] + 1
                                         ELSE list_wanted[t]]

Changed(T) == Relisted(T, Wanting(T), list_pending, get_pending)

on_list_change(T, accepted) ==
    /\ list_wanted' = Consumed(Changed(T), Wanting(T))
    /\ restart_list(Changed(T), list_pending, urlv_new, accepted)
    /\ UNCHANGED <<registered, get_pending, peerVars>>

-----------------------------------------------------------------------------
Init ==
    /\ ZkInit
    /\ registered = FALSE
    /\ list_wanted = [t \in Type |-> 0]
    /\ list_pending = [t \in Type |-> 0]
    /\ get_pending = [t \in Type |-> 0]
    /\ urlv_new = [t \in Type |-> NoUrls]
    /\ urlv_current = [t \in Type |-> {}]
    /\ connect_real = NoUrls
    /\ links = {}

\* Every type is listed: by a tool as soon as it has a handle, connected or not,
\* by a service once it has its configuration. An expired handle has no user.
Register ==
    /\ ~registered
    /\ session # "expired"
    /\ registered' = TRUE
    /\ restart_list(Type, list_pending, urlv_new, TRUE)
    /\ \E order \in Orders(Type) : Send(Lists(order))
    /\ UNCHANGED <<znode, exists, session, watching, armed, replies, drops>>
    /\ UNCHANGED <<list_wanted, get_pending, peerVars>>

\* The client library takes the oldest completion or event off its queue.
Receive(op) ==
    /\ session # "expired"
    /\ replies # <<>>
    /\ Head(replies).op = op
    /\ replies' = Tail(replies)
    /\ UNCHANGED <<znode, exists, session, watching, drops>>

\* on_list_completion: a get for every child, or nothing on an error.
DeliverList ==
    LET m == Head(replies)
        t == m.type
        children == IF m.rc = "ZOK" THEN m.names ELSE {}
        lists == [list_pending EXCEPT ![t] = @ - 1]
        gets == [get_pending EXCEPT ![t] = @ + Cardinality(children)]
        again == Relisted({t}, list_wanted, lists, gets)
    IN  /\ Receive("list")
        /\ armed' = IF m.rc = "ZOK" THEN armed \cup {t} ELSE armed
        /\ get_pending' = gets
        /\ list_wanted' = Consumed(again, list_wanted)
        /\ restart_list(again, lists, urlv_new, TRUE)
        /\ \E corder \in Orders(children), order \in Orders(again) :
              Send(Gets(t, corder) \o Lists(order))
        /\ UNCHANGED <<registered, peerVars>>

\* on_get: the content of one child joins the round; the last one ends it.
DeliverGet ==
    LET m == Head(replies)
        t == m.type
        gets == [get_pending EXCEPT ![t] = @ - 1]
        kept == {n \in m.names : m.rc = "ZOK" /\ Compatible(n)}
        new == [urlv_new EXCEPT ![t] = [u \in Url |->
                  IF \E n \in kept : NodeUrl[n] = u THEN @[u] + 1 ELSE @[u]]]
        over == RoundOver(t, list_wanted, list_pending, gets)
        again == Relisted({t}, list_wanted, list_pending, gets)
    IN  /\ Receive("get")
        /\ get_pending' = gets
        /\ IF over THEN zco_reconnect(t, new[t]) ELSE UNCHANGED peerVars
        /\ list_wanted' = Consumed(again, list_wanted)
        /\ restart_list(again, list_pending,
                        IF over THEN [new EXCEPT ![t] = NoUrls] ELSE new, TRUE)
        /\ \E order \in Orders(again) : Send(Lists(order))
        /\ UNCHANGED <<armed, registered>>

\* A watch fires: its registration is used up and on_list_change runs.
DeliverWatch ==
    LET t == Head(replies).type
    IN  /\ Receive("watch")
        /\ armed' = armed \ {t}
        /\ on_list_change({t}, TRUE)
        /\ \E order \in Orders(Changed({t})) : Send(Lists(order))

\* The slot of a watch event lost with the connection.
SkipLost ==
    /\ Receive("blank")
    /\ UNCHANGED <<armed, requests, zsVars>>

\* Session events run on_list_change for every registered watcher, whatever
\* the event says: zsock.c ignores its type and state.
Disconnect ==
    LET woken == IF session = "connected" THEN armed ELSE {}
    IN  /\ on_list_change(woken, TRUE)
        /\ \E order \in Orders(Changed(woken)) : LoseConnection(Lists(order))

Reconnect ==
    /\ on_list_change(armed, TRUE)
    /\ \E order \in Orders(Changed(armed)) : ResumeSession(Lists(order))

\* The handle refuses the lists (ZINVALIDSTATE) once the session has expired.
SessionExpired ==
    /\ EndSession
    /\ on_list_change(armed, FALSE)

Environment ==
    /\ \/ \E t \in Type : CreateType(t)
       \/ \E n \in Node : Publish(n) \/ Expire(n)
       \/ ServerAnswer
    /\ UNCHANGED zsVars

Deliver == DeliverList \/ DeliverGet \/ DeliverWatch \/ SkipLost

Next == Environment \/ Register \/ Deliver \/ Disconnect \/ Reconnect \/ SessionExpired

Spec == Init /\ [][Next]_vars

\* The server and the network answer, the reactor calls the handle, and the
\* library reconnects; peers, operators and losses come when they like.
Fairness ==
    /\ WF_vars(ServerAnswer /\ UNCHANGED zsVars)
    /\ WF_vars(Register)
    /\ WF_vars(Deliver)
    /\ WF_vars(Reconnect)

FairSpec == Spec /\ Fairness

-----------------------------------------------------------------------------
\* The counters are naturals: none wraps around below zero.
ZsTypeOK ==
    /\ registered \in BOOLEAN
    /\ list_wanted \in [Type -> Nat]
    /\ list_pending \in [Type -> Nat]
    /\ get_pending \in [Type -> Nat]
    /\ urlv_new \in [Type -> [Url -> Nat]]
    /\ urlv_current \in [Type -> SUBSET Url]
    /\ connect_real \in [Url -> Nat]
    /\ links \subseteq Url

TypeOK == ZkTypeOK /\ ZsTypeOK

\* The guint counters agree with what is in flight, through losses, errors and
\* relists: no completion decrements a counter that is already zero, and no
\* lost answer leaves a round pending for ever.
PendingMatchesInFlight ==
    \A t \in Type :
        /\ list_pending[t] = Count(requests, "list", t) + Count(replies, "list", t)
        /\ get_pending[t] = Count(requests, "get", t) + Count(replies, "get", t)

\* At most one round per type is under way: one list, or the gets of one list.
OneRoundAtATime ==
    \A t \in Type : list_pending[t] <= 1 /\ (list_pending[t] = 1 => get_pending[t] = 0)

\* A change noticed during a round is never forgotten: while list_wanted is
\* set, a completion is still to come that will turn it into a list.
NoLostWakeup ==
    \A t \in Type : list_wanted[t] > 0 => list_pending[t] + get_pending[t] > 0

\* How many gets in q ask for the content of a node of type t with URL u.
AsksFor(q, t, u) ==
    Cardinality({i \in DOMAIN q : q[i].op = "get" /\ q[i].type = t
                                  /\ \E n \in q[i].names : NodeUrl[n] = u})

\* How often the round of type t has collected u, or may still collect it.
Collectable(t, u) == urlv_new[t][u] + AsksFor(requests, t, u) + AsksFor(replies, t, u)

\* A round collects a URL at most once for each node of its type that announces
\* it: the answers of an abandoned round never mix with the next.
RoundIsolation ==
    \A t \in Type, u \in Url :
        Collectable(t, u) <= Cardinality({n \in Node : NodeType[n] = t /\ NodeUrl[n] = u})

\* An entry of connect_real outlives every type that adopted its URL, and the
\* socket is never connected to a URL that has no entry left.
RefsCoverClaims ==
    \A u \in Url :
        /\ connect_real[u] >= Cardinality({t \in Type : u \in urlv_current[t]})
        /\ u \in links => connect_real[u] > 0

\* The URLs a type should be connected to.
Usable(t) == {NodeUrl[n] : n \in {k \in LiveNodes(t) : Compatible(k)}}

\* Nothing is under way for type t and the server would tell of a change.
Settled(t) ==
    /\ session = "connected"
    /\ t \in watching \cap armed
    /\ \A op \in {"list", "get", "watch"} :
          Count(requests, op, t) = 0 /\ Count(replies, op, t) = 0

\* When a type has settled, what it adopted is what is live and compatible.
\* The code never adopts an empty set, so that case is left out here.
SettledIsCurrent ==
    \A t \in Type : Settled(t) => urlv_current[t] = Usable(t) \/ Usable(t) = {}

\* No two peers share a URL, whatever the types they announce it under.
UrlsOfOneType ==
    \A n, k \in Node : NodeUrl[n] = NodeUrl[k] => NodeType[n] = NodeType[k]

\* A peer announces its URL again only when its former announcement is gone.
OneLifeAtATime ==
    \A n, k \in Node : n # k /\ znode[n] = "live" /\ znode[k] = "live"
                         => NodeUrl[n] # NodeUrl[k]

\* As long as no URL is shared, by two types or by two lives of one peer, the
\* ZeroMQ connections are exactly the URLs adopted, and no reference is leaked.
LinksMatchClaims ==
    /\ links = UNION {urlv_current[t] : t \in Type}
    /\ \A u \in Url : connect_real[u] = IF u \in links THEN 1 ELSE 0

\* README.md:9, "the interconnection is continuously monitored by each
\* service, for each service type, and adapted if a change is noticed": when a
\* type has settled, its live peers are connected to.
LivePeersConnected == \A t \in Type : Settled(t) => Usable(t) \subseteq links

\* Type t has a watcher, or a request under way that may yet set one.
UnderWatch(t) == t \in armed \/ list_pending[t] + get_pending[t] > 0

\* The same sentence, "continuously monitored": every type of a registered
\* socket is under watch, as long as the session lasts.
ContinuouslyMonitored == registered /\ session # "expired" => \A t \in Type : UnderWatch(t)

\* No list of type t comes back with an error.
ListsSucceed(t) ==
    \A i \in DOMAIN replies :
        replies[i].op = "list" /\ replies[i].type = t => replies[i].rc = "ZOK"

\* Unless a list fails, the adopted URLs finally are, and remain, the live ones:
\* every change is noticed in the end, whatever it interrupts.
MonitoredConverges ==
    \A t \in Type :
        []ListsSucceed(t) /\ <>[](session = "connected")
            => <>[](urlv_current[t] = Usable(t) \/ Usable(t) = {})
=============================================================================
