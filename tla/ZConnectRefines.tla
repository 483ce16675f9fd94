-------------------------- MODULE ZConnectRefines --------------------------
(* ZConnect does what Discovery promises: the refinement mapping. *)
EXTENDS ZConnect

Usables == {n \in Node : Compatible(n)}

\* The URLs of the usable nodes that are named by an answer of type t, or by a
\* get of it, that has not failed.
Named(t) ==
    {u \in Url : \E m \in Range(requests) \cup Range(replies) :
        m.type = t /\ m.rc = "ZOK" /\ \E n \in m.names \cap Usables : NodeUrl[n] = u}

\* What the round of type t has collected or may still collect. Once a relist
\* is wanted the round is not adopted.
Seen(t) ==
    IF list_wanted[t] > 0 THEN {} ELSE {u \in Url : urlv_new[t][u] > 0} \cup Named(t)

Abstract == INSTANCE Discovery WITH
    Peer <- Usables,
    PeerType <- NodeType,
    PeerUrl <- NodeUrl,
    peers <- [n \in Usables |-> znode[n]],
    view <- [t \in Type |-> Seen(t)],
    urls <- urlv_current

\* The peers are discovered as Discovery promises, through any interleaving of
\* changes, answers, watches and losses: zco_reconnect adopts, as a whole, what
\* was live together when a list was served, less what has gone meanwhile.
RefinesDiscovery == Abstract!Spec
=============================================================================
