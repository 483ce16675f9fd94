----------------------------- MODULE MCZConnect -----------------------------
(* Small instances of ZConnect for TLC. *)
EXTENDS ZConnectRefines, TLC

CONSTANTS t1, t2, n1, n2, n3, n4, n5, u1, u2

\* Two types: the peer behind n1 binds a socket of each type at one address.
TwoTypes == n1 :> t1 @@ n2 :> t1 @@ n3 :> t2
SharedUrl == n1 :> u1 @@ n2 :> u2 @@ n3 :> u1
Pulls == [n \in {n1, n2, n3} |-> "PULL"]
OnlyType == [n \in {n1, n2, n3} |-> t1]

\* One type; n1, n2 and n4 are three lives of one peer with a fixed port.
FourTypes == [n \in {n1, n2, n3, n4} |-> t1]
FourUrls == n1 :> u1 @@ n2 :> u1 @@ n3 :> u2 @@ n4 :> u1
FourPulls == [n \in {n1, n2, n3, n4} |-> "PULL"]

=============================================================================
