----------------------------- MODULE DeltaWalk -----------------------------
(***************************************************************************)
(* How a finished round is adopted (src/zsock.c, zco_reconnect): the URLs  *)
(* collected are sorted, walked side by side with the current ones, and    *)
(* merged. ZConnect takes the outcome in one step (Deltas); here the walk  *)
(* is taken string by string, and each string is an allocation of its own, *)
(* so that what is freed can be told from what is kept.                    *)
(***************************************************************************)
EXTENDS Deltas, Sequences, FiniteSets, Functions

CONSTANTS
    MaxNew,     \* bound: URLs collected by a round
    MaxRounds   \* bound: rounds

ASSUME DeltaWalkAssumption ==
    /\ Url \subseteq Nat \* in the order of strcmp
    /\ MaxNew \in Nat
    /\ MaxRounds \in Nat

VARIABLES
    urlv_current, \* the strings adopted, in order
    newv,         \* the strings collected by the round, sorted
    i, j,         \* how far the walk got in urlv_current and in newv
    add, rem, to_delete, \* delta_s
    freed,        \* the strings freed so far
    rounds,       \* rounds so far
    step          \* "idle" between two rounds, "walk", "merge"

vars == <<urlv_current, newv, i, j, add, rem, to_delete, freed, rounds, step>>

\* The nth string allocated by a round for a URL.
String == [url : Url, round : 1..MaxRounds, nth : 1..MaxNew]

Strings(s) == {s[k] : k \in DOMAIN s}
Urls(s) == {s[k].url : k \in DOMAIN s}
Copies(s, u) == Cardinality({k \in DOMAIN s : s[k].url = u})
Sorted(s) == \A k, l \in DOMAIN s : k < l => s[k].url <= s[l].url

-----------------------------------------------------------------------------
Init ==
    /\ urlv_current = <<>>
    /\ newv = <<>>
    /\ i = 1 /\ j = 1
    /\ add = <<>> /\ rem = <<>> /\ to_delete = <<>>
    /\ freed = {}
    /\ rounds = 0
    /\ step = "idle"

\* Mutant of Arrange: the strings are left in the order of their arrival.
Arrange_Unsorted(collected) == newv' = collected

\* The strings in the order of strcmp, equal ones in any order.
Arrange(collected) ==
    \E order \in Bijection(DOMAIN collected, DOMAIN collected) :
        LET s == [k \in DOMAIN collected |-> collected[order[k]]]
        IN  Sorted(s) /\ newv' = s

\* _extract_urlv takes the URLs of a round, in the order of their arrival. A
\* round that collected nothing is not adopted.
Extract ==
    /\ step = "idle"
    /\ rounds < MaxRounds
    /\ rounds' = rounds + 1
    /\ \E n \in 1..MaxNew : \E us \in [1..n -> Url] :
          Arrange([k \in 1..n |-> [url |-> us[k], round |-> rounds', nth |-> k]])
    /\ step' = "walk"
    /\ UNCHANGED <<urlv_current, i, j, add, rem, to_delete, freed>>

-----------------------------------------------------------------------------
(* _compute_deltas, one turn of its loop. *)

MoreCurrent == i <= Len(urlv_current)
MoreNew == j <= Len(newv)

\* A current URL that the round did not collect.
Lost ==
    /\ step = "walk"
    /\ MoreCurrent
    /\ MoreNew => urlv_current[i].url < newv[j].url
    /\ rem' = Append(rem, urlv_current[i])
    /\ i' = i + 1
    /\ UNCHANGED <<urlv_current, newv, j, add, to_delete, freed, rounds, step>>

\* A URL collected that is not current, or once more.
New ==
    /\ step = "walk"
    /\ MoreNew
    /\ MoreCurrent => newv[j].url < urlv_current[i].url
    /\ add' = Append(add, newv[j])
    /\ j' = j + 1
    /\ UNCHANGED <<urlv_current, newv, i, rem, to_delete, freed, rounds, step>>

\* Mutant of Same: the walk stays on the current URL.
Same_StaysOnCurrent ==
    /\ step = "walk"
    /\ MoreCurrent /\ MoreNew
    /\ urlv_current[i].url = newv[j].url
    /\ to_delete' = Append(to_delete, newv[j])
    /\ j' = j + 1
    /\ UNCHANGED <<urlv_current, newv, i, add, rem, freed, rounds, step>>

\* A current URL collected again: its new string is not needed.
Same ==
    /\ step = "walk"
    /\ MoreCurrent /\ MoreNew
    /\ urlv_current[i].url = newv[j].url
    /\ to_delete' = Append(to_delete, newv[j])
    /\ i' = i + 1
    /\ j' = j + 1
    /\ UNCHANGED <<urlv_current, newv, add, rem, freed, rounds, step>>

WalkEnds ==
    /\ step = "walk"
    /\ ~MoreCurrent /\ ~MoreNew
    /\ step' = "merge"
    /\ UNCHANGED <<urlv_current, newv, i, j, add, rem, to_delete, freed, rounds>>

-----------------------------------------------------------------------------
\* The string a tree keeps for a URL is the first one inserted.
FirstOf(s, u) == s[CHOOSE k \in DOMAIN s :
                     s[k].url = u /\ \A l \in DOMAIN s : s[l].url = u => k <= l]

\* Mutant of Keys: the new strings are inserted first.
Keys_NewFirst ==
    {FirstOf(newv \o urlv_current, u) :
        u \in (Urls(urlv_current) \cup Urls(add)) \ Urls(rem)}

\* The keys of the tree of _merge_deltas.
Keys ==
    {FirstOf(urlv_current \o add, u) : u \in (Urls(urlv_current) \cup Urls(add)) \ Urls(rem)}

\* Mutant of StartOver: the next walk goes on where this one ended.
StartOver_KeepsPlaces ==
    /\ newv' = <<>>
    /\ add' = <<>> /\ rem' = <<>> /\ to_delete' = <<>>
    /\ UNCHANGED <<i, j>>

\* The walk and delta_s are local to zco_reconnect.
StartOver ==
    /\ newv' = <<>>
    /\ i' = 1 /\ j' = 1
    /\ add' = <<>> /\ rem' = <<>> /\ to_delete' = <<>>

\* The rest of _merge_deltas and _pack_result: a removed string and one that was
\* not needed are freed, the keys are the current URLs of the next round.
Merge ==
    /\ step = "merge"
    /\ \E s \in Bijection(1..Cardinality(Keys), Keys) : Sorted(s) /\ urlv_current' = s
    /\ freed' = freed \cup Strings(rem) \cup Strings(to_delete)
    /\ StartOver
    /\ step' = "idle"
    /\ UNCHANGED rounds

Next == Extract \/ Lost \/ New \/ Same \/ WalkEnds \/ Merge

Spec == Init /\ [][Next]_vars

-----------------------------------------------------------------------------
TypeOK ==
    /\ urlv_current \in Seq(String)
    /\ newv \in Seq(String)
    /\ i \in 1..(Len(urlv_current) + 1)
    /\ j \in 1..(Len(newv) + 1)
    /\ add \in Seq(String) /\ rem \in Seq(String) /\ to_delete \in Seq(String)
    /\ freed \subseteq String
    /\ rounds \in 0..MaxRounds
    /\ step \in {"idle", "walk", "merge"}

\* How often the round collected each URL: what ZConnect keeps in urlv_new.
Collected == [u \in Url |-> Copies(newv, u)]

\* What the walk found is what zco_reconnect of ZConnect takes for granted, URL
\* by URL and copy by copy: a URL is added as often as it was collected, less
\* once when it is current, and removed once when it was not collected.
DeltaIsExact ==
    step = "merge" => \A u \in Url :
        /\ Copies(add, u) = Added(Urls(urlv_current), Collected)[u]
        /\ Copies(rem, u) = IF u \in Removed(Urls(urlv_current), Collected) THEN 1 ELSE 0

\* No string is kept that was freed, and none is freed twice.
NothingDangles ==
    /\ Strings(urlv_current) \cap freed = {}
    /\ (Strings(rem) \cup Strings(to_delete)) \cap freed = {}
    /\ Strings(rem) \cap Strings(to_delete) = {}

\* A round adopted leaves what ZConnect says: its own URLs, whatever was current
\* before; and it leaves each of them once and in order, as the next walk needs.
AdoptsTheRound ==
    [][step = "merge" /\ step' = "idle" =>
          /\ Urls(urlv_current') = Adopted(Urls(urlv_current), Collected)
          /\ Urls(urlv_current') = Urls(newv)
          /\ \A k, l \in DOMAIN urlv_current' :
                k < l => urlv_current'[k].url < urlv_current'[l].url]_vars
=============================================================================
