------------------------------- MODULE ZClose -------------------------------
(***************************************************************************)
(* The end of a client tool (zpush, zpull...): the loop of ZConnect is left *)
(* at any moment, and zclt_env_close destroys the socket, then the reactor, *)
(* the ZeroMQ context and the ZooKeeper handle (src/zsock.c, src/zenv.c).  *)
(* The handle outlives the zconnect_s its completions point to.            *)
(***************************************************************************)
EXTENDS ZConnectRefines

VARIABLES
    stage, \* "running", then "closed"
    damage \* what the closing did to memory that was already freed

closeVars == <<stage, damage>>

CloseInit ==
    /\ Init
    /\ stage = "running"
    /\ damage = {}

Run ==
    /\ stage = "running"
    /\ Next
    /\ UNCHANGED closeVars

\* zco_destroy frees each member of urlv_new, and so does the array that is
\* given back to: what a round had collected is freed twice.
zco_destroy(t) == IF urlv_new[t] # NoUrls THEN {"double free"} ELSE {}

\* zookeeper_close may end what is outstanding with ZCLOSING: the completions
\* of zsock.c then write to the zconnect_s that zsock_destroy freed.
zookeeper_close(t) ==
    IF list_pending[t] + get_pending[t] > 0 THEN {"use after free"} ELSE {}

\* A signal, the end of the input or an error of the handle ends the loop;
\* zsock_destroy closes the ZeroMQ socket, zenv_close all the rest.
zclt_env_close ==
    /\ stage = "running"
    /\ stage' = "closed"
    /\ damage' = UNION {zco_destroy(t) \cup zookeeper_close(t) : t \in Type}
    /\ links' = {}
    /\ connect_real' = NoUrls
    /\ urlv_current' = [t \in Type |-> {}]
    /\ session' = "expired"
    /\ requests' = <<>> /\ replies' = <<>>
    /\ UNCHANGED <<znode, exists, watching, armed, drops>>
    /\ UNCHANGED <<registered, list_wanted, list_pending, get_pending, urlv_new>>

CloseNext == Run \/ zclt_env_close

CloseSpec == CloseInit /\ [][CloseNext]_<<vars, closeVars>>

-----------------------------------------------------------------------------
\* A tool that stops while no request is outstanding closes cleanly: nothing
\* is freed twice or used after it was freed. What a round collected never
\* stays behind once the round is over.
IdleCloseIsClean ==
    damage # {} => \E t \in Type : list_pending[t] + get_pending[t] > 0
=============================================================================
