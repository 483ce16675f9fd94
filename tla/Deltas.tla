------------------------------- MODULE Deltas -------------------------------
(***************************************************************************)
(* What adopting the URLs of a finished round comes to (src/zsock.c,       *)
(* zco_reconnect). ZConnect takes it in one step; DeltaWalk walks the two  *)
(* lists as the code does, and arrives at the same.                        *)
(***************************************************************************)
EXTENDS Integers

CONSTANT Url \* the addresses of the peers' endpoints

\* Two sorted URL lists walked side by side: a duplicate of the new list is
\* left over for delta.add each time but one when its URL is already current.
Added(current, new) ==
    [u \in Url |-> IF u \in current /\ new[u] > 0 THEN new[u] - 1 ELSE new[u]]

Removed(current, new) == {u \in current : new[u] = 0}

\* The current URLs of the next round.
Adopted(current, new) ==
    (current \cup {u \in Url : Added(current, new)[u] > 0}) \ Removed(current, new)
=============================================================================
