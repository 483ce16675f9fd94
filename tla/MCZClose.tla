------------------------------ MODULE MCZClose ------------------------------
(* A small instance of ZClose for TLC: peers restart, the tool stops. *)
EXTENDS ZClose, MCZConnect

\* Two lives of one peer, another peer, and a PUSH socket of no use.
FewNodes == {n1, n2, n3, n5}
FewTypes == [n \in FewNodes |-> t1]
FewUrls == n1 :> u1 @@ n2 :> u1 @@ n3 :> u2 @@ n5 :> u2
FewZtypes == [n \in {n1, n2, n3} |-> "PULL"] @@ n5 :> "PUSH"

\* Once the tool has stopped nothing of ZConnect is enabled.
FairCloseSpec == CloseInit /\ [][CloseNext /\ OneLifeAtATime']_<<vars, closeVars>> /\ Fairness
=============================================================================
