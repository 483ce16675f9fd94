----------------------------- MODULE Discovery -----------------------------
(***************************************************************************)
(* What the discovery promises a socket about its peers, whatever it takes *)
(* to ask for them: for each type, the list of URLs is replaced, as a      *)
(* whole, by the URLs of the peers announced together at one moment, less  *)
(* those whose peers have gone since.  The list is never left half         *)
(* replaced and never replaced by nothing.                                 *)
(***************************************************************************)
CONSTANTS
    Type,     \* the types the socket connects to
    Peer,     \* the announcements it can use
    PeerType, \* the type of each
    PeerUrl   \* the URL of each

VARIABLES
    peers, \* each is unborn, live or gone
    view,  \* per type: the URLs seen together and not adopted yet
    urls   \* per type: the URLs adopted

vars == <<peers, view, urls>>

Init ==
    /\ peers = [p \in Peer |-> "unborn"]
    /\ view = [t \in Type |-> {}]
    /\ urls = [t \in Type |-> {}]

\* A peer comes or goes.
Change ==
    /\ \E p \in Peer :
          \/ peers[p] = "unborn" /\ peers' = [peers EXCEPT ![p] = "live"]
          \/ peers[p] = "live" /\ peers' = [peers EXCEPT ![p] = "gone"]
    /\ UNCHANGED <<view, urls>>

UrlsOf(t, state) == {PeerUrl[p] : p \in {q \in Peer : PeerType[q] = t /\ peers[q] = state}}

Keep(t) == view'[t] = view[t] /\ urls'[t] = urls[t]

\* The live peers are seen, all at one moment.
Look(t) == view'[t] = UrlsOf(t, "live") /\ urls'[t] = urls[t]

\* The URL of a peer that has gone is left out.
Forget(t) ==
    /\ \E u \in UrlsOf(t, "gone") : view'[t] = view[t] \ {u}
    /\ urls'[t] = urls[t]

\* What was seen may be out of date: all of it is given up.
Abandon(t) == view'[t] = {} /\ urls'[t] = urls[t]

Adopt(t) == view[t] # {} /\ urls'[t] = view[t] /\ view'[t] = {}

Discover ==
    /\ \A t \in Type : Keep(t) \/ Look(t) \/ Forget(t) \/ Abandon(t) \/ Adopt(t)
    /\ UNCHANGED peers

Next == Change \/ Discover

Spec == Init /\ [][Next]_vars
=============================================================================
