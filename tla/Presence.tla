------------------------------ MODULE Presence ------------------------------
(***************************************************************************)
(* What ZooKeeper shows of processes, to those that look for peers: each   *)
(* shows what it announces, little by little, as long as its session is    *)
(* not over. All of it goes at once, with the session, however the process *)
(* has ended, and nothing of that process is ever shown again.             *)
(***************************************************************************)
CONSTANT Proc \* the processes, each with one life

VARIABLES
    shown, \* the announcements that can be seen, each with its life
    over   \* the processes whose session is over

vars == <<shown, over>>

Init == shown = {} /\ over = {}

Show(p) ==
    /\ p \notin over
    /\ shown \subseteq shown'
    /\ \A c \in shown' \ shown : c.life = p
    /\ UNCHANGED over

Withdraw(p) ==
    /\ p \notin over
    /\ over' = over \cup {p}
    /\ shown' = {c \in shown : c.life # p}

Next == \E p \in Proc : Show(p) \/ Withdraw(p)

Spec == Init /\ [][Next]_vars
=============================================================================
