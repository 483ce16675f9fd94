-------------------------- MODULE DeltaWalkProofs --------------------------
(***************************************************************************)
(* Theorems about DeltaWalk, for any URLs and any number of rounds: what   *)
(* the walk of zco_reconnect finds, and which strings it leaves alive.     *)
(***************************************************************************)
EXTENDS DeltaWalk, FiniteSetTheorems, SequenceTheorems, WellFoundedInduction, TLAPS

USE DeltaWalkAssumption

-----------------------------------------------------------------------------
(* The invariant. *)

\* The URLs of the current strings that the walk has passed.
Passed == {urlv_current[k].url : k \in 1..(i - 1)}

\* The current URLs are in order, each once.
CurrentInOrder ==
    \A k, l \in DOMAIN urlv_current : k < l => urlv_current[k].url < urlv_current[l].url

\* The strings of a round are new, in order, and each is one of its own.
NewInOrder ==
    /\ Sorted(newv)
    /\ \A l \in DOMAIN newv : newv[l].round = rounds
    /\ \A k, l \in DOMAIN newv : newv[k] = newv[l] => k = l

\* What is current or freed comes from a round before the one walked.
OfEarlierRounds ==
    \A x \in Strings(urlv_current) \cup freed :
        x.round <= rounds /\ (step # "idle" => x.round < rounds)

\* What is current is alive.
CurrentIsAlive == Strings(urlv_current) \cap freed = {}

\* Nothing is behind the walk in one list and before it in the other.
SideBySide ==
    \A k \in DOMAIN urlv_current : \A l \in DOMAIN newv :
        /\ k >= i /\ l < j => newv[l].url < urlv_current[k].url
        /\ k < i /\ l >= j => urlv_current[k].url <= newv[l].url

\* Where the strings passed went.
Shared ==
    /\ Strings(rem) = {urlv_current[k] :
                          k \in {m \in 1..(i - 1) : urlv_current[m].url \notin Urls(newv)}}
    /\ Strings(add) \cup Strings(to_delete) = {newv[l] : l \in 1..(j - 1)}
    /\ Strings(add) \cap Strings(to_delete) = {}

\* How often each URL went there.
Counted ==
    \A u \in Url :
        /\ Copies(rem, u) = (IF u \in Passed \ Urls(newv) THEN 1 ELSE 0)
        /\ Copies(to_delete, u) = (IF u \in Passed \cap Urls(newv) THEN 1 ELSE 0)
        /\ Copies(add, u) + Copies(to_delete, u) =
               Cardinality({l \in 1..(j - 1) : newv[l].url = u})

\* Between two rounds nothing is walked; at the end everything has been.
Ends ==
    /\ step = "idle" => /\ newv = <<>> /\ add = <<>> /\ rem = <<>> /\ to_delete = <<>>
                        /\ i = 1 /\ j = 1
    /\ step = "merge" => i = Len(urlv_current) + 1 /\ j = Len(newv) + 1

WalkInv ==
    /\ TypeOK /\ CurrentInOrder /\ NewInOrder /\ OfEarlierRounds /\ CurrentIsAlive
    /\ SideBySide /\ Shared /\ Counted /\ Ends

-----------------------------------------------------------------------------
(* Sequences of strings. *)

\* What a sequence of strings is as a function.
LEMMA StringSeq ==
    ASSUME NEW s \in Seq(String)
    PROVE  /\ Len(s) \in Nat /\ DOMAIN s = 1..Len(s)
           /\ \A k \in DOMAIN s :
                 /\ s[k] \in String /\ s[k].url \in Url
                 /\ s[k].url \in Nat /\ s[k].round \in 1..MaxRounds
<1>1. Len(s) \in Nat /\ DOMAIN s = 1..Len(s) /\ s \in [1..Len(s) -> String]
  BY LenProperties
<1>2. ASSUME NEW k \in DOMAIN s
      PROVE  /\ s[k] \in String /\ s[k].url \in Url
             /\ s[k].url \in Nat /\ s[k].round \in 1..MaxRounds
  BY <1>1, <1>2 DEF String
<1>. QED
  BY <1>1, <1>2

\* The places of a URL are finitely many.
LEMMA PlacesType ==
    ASSUME NEW s \in Seq(String), NEW u
    PROVE  /\ IsFiniteSet({k \in DOMAIN s : s[k].url = u})
           /\ Cardinality({k \in DOMAIN s : s[k].url = u}) \in Nat
<1>1. DOMAIN s = 1..Len(s) /\ Len(s) \in Nat
  BY LenProperties
<1>2. IsFiniteSet(1..Len(s))
  BY <1>1, FS_Interval
<1>3. {k \in DOMAIN s : s[k].url = u} \in SUBSET (1..Len(s))
  BY <1>1
<1>4. IsFiniteSet({k \in DOMAIN s : s[k].url = u})
  BY <1>2, <1>3, FS_Subset
<1>. QED
  BY <1>4, FS_CardinalityType

\* Appending a string adds it, its URL, and one copy of that URL.
LEMMA AppendString ==
    ASSUME NEW s \in Seq(String), NEW x \in String
    PROVE  /\ Append(s, x) \in Seq(String)
           /\ Strings(Append(s, x)) = Strings(s) \cup {x}
           /\ Urls(Append(s, x)) = Urls(s) \cup {x.url}
           /\ \A u : Copies(Append(s, x), u) = Copies(s, u) + (IF x.url = u THEN 1 ELSE 0)
<1>. DEFINE a == Append(s, x)
            P(z, u) == {k \in DOMAIN z : z[k].url = u}
<1>1. /\ a \in Seq(String)
      /\ Len(a) = Len(s) + 1
      /\ \A k \in 1..Len(s) : a[k] = s[k]
      /\ a[Len(s) + 1] = x
  BY AppendProperties
<1>2. /\ Len(s) \in Nat /\ DOMAIN s = 1..Len(s)
      /\ DOMAIN a = 1..(Len(s) + 1)
  BY <1>1, LenProperties
<1>. HIDE DEF a
<1>3. DOMAIN a = DOMAIN s \cup {Len(s) + 1} /\ Len(s) + 1 \notin DOMAIN s
  BY <1>2
<1>4. \A k \in DOMAIN s : a[k] = s[k]
  BY <1>1, <1>2
<1>5. Strings(a) = Strings(s) \cup {x} /\ Urls(a) = Urls(s) \cup {x.url}
  BY <1>1, <1>3, <1>4 DEF Strings, Urls
<1>6. ASSUME NEW u
      PROVE  Copies(a, u) = Copies(s, u) + (IF x.url = u THEN 1 ELSE 0)
  <2>1. IsFiniteSet(P(s, u)) /\ Cardinality(P(s, u)) \in Nat
    BY PlacesType
  <2>2. P(a, u) = P(s, u) \cup (IF x.url = u THEN {Len(s) + 1} ELSE {})
    BY <1>1, <1>3, <1>4
  <2>3. Len(s) + 1 \notin P(s, u)
    BY <1>3
  <2>4. Cardinality(P(a, u)) = Cardinality(P(s, u)) + (IF x.url = u THEN 1 ELSE 0)
    <3>. HIDE DEF P
    <3>1. CASE x.url = u
      <4>1. P(a, u) = P(s, u) \cup {Len(s) + 1}
        BY <2>2, <3>1
      <4>2. Cardinality(P(s, u) \cup {Len(s) + 1}) = Cardinality(P(s, u)) + 1
        BY <2>1, <2>3, FS_AddElement
      <4>. QED
        BY <3>1, <4>1, <4>2
    <3>2. CASE x.url # u
      <4>1. P(a, u) = P(s, u)
        BY <2>2, <3>2
      <4>. QED
        BY <2>1, <3>2, <4>1
    <3>. QED
      BY <3>1, <3>2
  <2>. QED
    BY <2>4 DEF Copies
<1>. QED
  BY <1>1, <1>5, <1>6 DEF a

\* A URL has copies where it is, and an empty sequence has none.
LEMMA CopiesType ==
    ASSUME NEW s \in Seq(String), NEW u
    PROVE  Copies(s, u) \in Nat /\ (Copies(s, u) = 0 <=> u \notin Urls(s))
<1>. DEFINE P == {k \in DOMAIN s : s[k].url = u}
<1>2. IsFiniteSet(P) /\ Cardinality(P) \in Nat
  BY PlacesType
<1>3. Cardinality(P) = 0 <=> P = {}
  BY <1>2, FS_EmptySet
<1>4. P = {} <=> u \notin Urls(s)
  BY DEF Urls
<1>. QED
  BY <1>2, <1>3, <1>4 DEF Copies

\* The empty sequence.
LEMMA NothingInEmpty ==
    /\ <<>> \in Seq(String) /\ Len(<<>>) = 0 /\ DOMAIN <<>> = {}
    /\ Strings(<<>>) = {} /\ Urls(<<>>) = {} /\ \A u : Copies(<<>>, u) = 0
<1>1. <<>> \in Seq(String) /\ Len(<<>>) = 0 /\ DOMAIN <<>> = {}
  BY EmptySeq
<1>2. Strings(<<>>) = {} /\ Urls(<<>>) = {}
  BY <1>1 DEF Strings, Urls
<1>. QED
  BY <1>1, <1>2, CopiesType

-----------------------------------------------------------------------------
(* The walk. *)

\* The lists walked, as functions, and how far the walk may be.
LEMMA WalkPlaces ==
    ASSUME TypeOK
    PROVE  /\ Len(urlv_current) \in Nat /\ DOMAIN urlv_current = 1..Len(urlv_current)
           /\ Len(newv) \in Nat /\ DOMAIN newv = 1..Len(newv)
           /\ i \in Nat \ {0} /\ i <= Len(urlv_current) + 1
           /\ j \in Nat \ {0} /\ j <= Len(newv) + 1
           /\ \A k \in DOMAIN urlv_current :
                 /\ urlv_current[k] \in String /\ urlv_current[k].url \in Url
                 /\ urlv_current[k].url \in Nat /\ urlv_current[k].round \in 1..MaxRounds
           /\ \A k \in DOMAIN newv :
                 /\ newv[k] \in String /\ newv[k].url \in Url
                 /\ newv[k].url \in Nat /\ newv[k].round \in 1..MaxRounds
<1>1. urlv_current \in Seq(String) /\ newv \in Seq(String)
  BY DEF TypeOK
<1>2. /\ Len(urlv_current) \in Nat /\ DOMAIN urlv_current = 1..Len(urlv_current)
      /\ Len(newv) \in Nat /\ DOMAIN newv = 1..Len(newv)
  BY <1>1, StringSeq
<1>3. i \in 1..(Len(urlv_current) + 1) /\ j \in 1..(Len(newv) + 1)
  BY DEF TypeOK
<1>. QED
  BY <1>1, <1>2, <1>3, StringSeq

\* Going one place on in the current URLs passes one URL, for the first time.
LEMMA PassesCurrent ==
    ASSUME TypeOK, CurrentInOrder, MoreCurrent, i' = i + 1, urlv_current' = urlv_current
    PROVE  /\ i \in DOMAIN urlv_current
           /\ i' \in 1..(Len(urlv_current) + 1)
           /\ 1..(i' - 1) = (1..(i - 1)) \cup {i}
           /\ Passed' = Passed \cup {urlv_current[i].url}
           /\ urlv_current[i].url \notin Passed
<1>1. /\ i \in DOMAIN urlv_current /\ i' \in 1..(Len(urlv_current) + 1)
      /\ 1..(i' - 1) = (1..(i - 1)) \cup {i}
      /\ \A k \in 1..(i - 1) : k \in DOMAIN urlv_current /\ k < i
  BY WalkPlaces DEF MoreCurrent
<1>2. Passed' = Passed \cup {urlv_current[i].url}
  BY <1>1 DEF Passed
<1>3. ASSUME NEW k \in 1..(i - 1) PROVE urlv_current[k].url # urlv_current[i].url
  <2>1. k \in DOMAIN urlv_current /\ k < i
    BY <1>1
  <2>2. urlv_current[k].url \in Nat /\ urlv_current[i].url \in Nat
    BY <1>1, <2>1, WalkPlaces
  <2>3. urlv_current[k].url < urlv_current[i].url
    BY <1>1, <2>1 DEF CurrentInOrder
  <2>. QED
    BY <2>2, <2>3
<1>. QED
  BY <1>1, <1>2, <1>3 DEF Passed

\* Going one place on in the new URLs passes one more copy of its URL.
LEMMA PassesNew ==
    ASSUME TypeOK, MoreNew, j' = j + 1, newv' = newv
    PROVE  /\ j \in DOMAIN newv
           /\ j' \in 1..(Len(newv) + 1)
           /\ 1..(j' - 1) = (1..(j - 1)) \cup {j}
           /\ \A u : Cardinality({l \in 1..(j' - 1) : newv[l].url = u})
                     = Cardinality({l \in 1..(j - 1) : newv[l].url = u})
                           + (IF newv[j].url = u THEN 1 ELSE 0)
<1>1. /\ j \in DOMAIN newv /\ j' \in 1..(Len(newv) + 1)
      /\ 1..(j' - 1) = (1..(j - 1)) \cup {j}
      /\ j \notin 1..(j - 1) /\ j - 1 \in Nat
  BY WalkPlaces DEF MoreNew
<1>. DEFINE P(n, u) == {l \in 1..n : newv[l].url = u}
<1>2. ASSUME NEW u
      PROVE  Cardinality(P(j' - 1, u)) = Cardinality(P(j - 1, u)) + (IF newv[j].url = u THEN 1 ELSE 0)
  <2>1. IsFiniteSet(1..(j - 1))
    BY <1>1, FS_Interval
  <2>2. IsFiniteSet(P(j - 1, u)) /\ Cardinality(P(j - 1, u)) \in Nat
    <3>1. P(j - 1, u) \in SUBSET (1..(j - 1))
      OBVIOUS
    <3>2. IsFiniteSet(P(j - 1, u))
      BY <2>1, <3>1, FS_Subset
    <3>. QED
      BY <3>2, FS_CardinalityType
  <2>3. j \notin P(j - 1, u)
    BY <1>1
  <2>4. P(j' - 1, u) = P(j - 1, u) \cup (IF newv[j].url = u THEN {j} ELSE {})
    BY <1>1
  <2>. HIDE DEF P
  <2>5. CASE newv[j].url = u
    <3>1. P(j' - 1, u) = P(j - 1, u) \cup {j}
      BY <2>4, <2>5
    <3>2. Cardinality(P(j - 1, u) \cup {j}) = Cardinality(P(j - 1, u)) + 1
      BY <2>2, <2>3, FS_AddElement
    <3>. QED
      BY <2>5, <3>1, <3>2
  <2>6. CASE newv[j].url # u
    <3>1. P(j' - 1, u) = P(j - 1, u)
      BY <2>4, <2>6
    <3>. QED
      BY <2>2, <2>6, <3>1
  <2>. QED
    BY <2>5, <2>6
<1>. QED
  BY <1>1, <1>2

\* Nothing is walked before the first round.
LEMMA InitWalkInv == Init => WalkInv
<1>. SUFFICES ASSUME Init PROVE WalkInv
  OBVIOUS
<1>1. TypeOK
  BY NothingInEmpty DEF Init, TypeOK
<1>2. CurrentInOrder /\ NewInOrder /\ OfEarlierRounds /\ CurrentIsAlive /\ SideBySide /\ Ends
  BY NothingInEmpty DEF Init, CurrentInOrder, NewInOrder, Sorted, OfEarlierRounds,
     CurrentIsAlive, SideBySide, Ends
<1>3. 1..(i - 1) = {} /\ 1..(j - 1) = {} /\ Passed = {}
  BY DEF Init, Passed
<1>4. Shared
  BY <1>3, NothingInEmpty DEF Init, Shared
<1>5. Counted
  <2>1. \A u : {l \in 1..(j - 1) : newv[l].url = u} = {}
    BY <1>3
  <2>. QED
    BY <1>3, <2>1, NothingInEmpty, FS_EmptySet DEF Init, Counted
<1>. QED
  BY <1>1, <1>2, <1>4, <1>5 DEF WalkInv

\* Lost takes a current URL that the round has not collected.
LEMMA LostKeeps == WalkInv /\ Lost => WalkInv'
<1>. SUFFICES ASSUME WalkInv, Lost PROVE WalkInv'
  OBVIOUS
<1>. DEFINE c == urlv_current[i]
<1>1. /\ TypeOK /\ CurrentInOrder /\ NewInOrder /\ OfEarlierRounds /\ CurrentIsAlive
      /\ SideBySide /\ Shared /\ Counted /\ Ends
  BY DEF WalkInv
<1>2. /\ step = "walk" /\ MoreCurrent /\ i' = i + 1 /\ rem' = Append(rem, c)
      /\ MoreNew => c.url < newv[j].url
      /\ UNCHANGED <<urlv_current, newv, j, add, to_delete, freed, rounds, step>>
  BY DEF Lost
<1>3. /\ i \in DOMAIN urlv_current /\ i' \in 1..(Len(urlv_current) + 1)
      /\ 1..(i' - 1) = (1..(i - 1)) \cup {i}
      /\ Passed' = Passed \cup {c.url} /\ c.url \notin Passed
  BY <1>1, <1>2, PassesCurrent
<1>4. c \in String /\ c.url \in Url /\ c.url \in Nat
  BY <1>1, <1>3, WalkPlaces
<1>. HIDE DEF c
<1>5. c.url \notin Urls(newv)
  <2>. SUFFICES ASSUME NEW l \in DOMAIN newv PROVE newv[l].url # c.url
    BY DEF Urls
  <2>1. l \in Nat /\ newv[l].url \in Nat
    BY <1>1, WalkPlaces
  <2>2. CASE l < j
    BY <1>1, <1>3, <1>4, <2>1, <2>2, WalkPlaces DEF SideBySide, c
  <2>3. CASE l >= j
    <3>1. MoreNew /\ j \in DOMAIN newv /\ newv[j].url \in Nat
      BY <1>1, <2>3, WalkPlaces DEF MoreNew
    <3>2. newv[j].url <= newv[l].url
      BY <1>1, <2>1, <2>3, <3>1, WalkPlaces DEF NewInOrder, Sorted
    <3>. QED
      BY <1>2, <1>4, <2>1, <3>1, <3>2
  <2>. QED
    BY <1>1, <2>1, <2>2, <2>3, WalkPlaces
<1>6. /\ rem' \in Seq(String)
      /\ Strings(rem') = Strings(rem) \cup {c}
      /\ \A u : Copies(rem', u) = Copies(rem, u) + (IF c.url = u THEN 1 ELSE 0)
  BY <1>1, <1>2, <1>4, AppendString DEF TypeOK
<1>7. TypeOK'
  BY <1>1, <1>2, <1>3, <1>6 DEF TypeOK
<1>8. CurrentInOrder' /\ NewInOrder' /\ OfEarlierRounds' /\ CurrentIsAlive' /\ Ends'
  BY <1>1, <1>2 DEF CurrentInOrder, NewInOrder, Sorted, OfEarlierRounds, CurrentIsAlive, Ends
<1>9. SideBySide'
  <2>. SUFFICES ASSUME NEW k \in DOMAIN urlv_current, NEW l \in DOMAIN newv
                PROVE  /\ k >= i + 1 /\ l < j => newv[l].url < urlv_current[k].url
                       /\ k < i + 1 /\ l >= j => urlv_current[k].url <= newv[l].url
    BY <1>2 DEF SideBySide
  <2>1. k \in Nat /\ l \in Nat /\ newv[l].url \in Nat
    BY <1>1, WalkPlaces
  <2>2. k >= i + 1 /\ l < j => newv[l].url < urlv_current[k].url
    BY <1>1, <2>1, WalkPlaces DEF SideBySide
  <2>3. ASSUME k < i + 1, l >= j PROVE urlv_current[k].url <= newv[l].url
    <3>1. CASE k < i
      BY <1>1, <2>3, <3>1 DEF SideBySide
    <3>2. CASE k = i
      <4>1. MoreNew /\ j \in DOMAIN newv /\ newv[j].url \in Nat
        BY <1>1, <2>3, WalkPlaces DEF MoreNew
      <4>2. newv[j].url <= newv[l].url
        BY <1>1, <2>1, <2>3, <4>1, WalkPlaces DEF NewInOrder, Sorted
      <4>. QED
        BY <1>2, <1>4, <2>1, <3>2, <4>1, <4>2 DEF c
    <3>. QED
      BY <1>1, <2>1, <2>3, <3>1, <3>2, WalkPlaces
  <2>. QED
    BY <2>2, <2>3
<1>10. Shared'
  <2>. DEFINE L(n) == {m \in 1..n : urlv_current[m].url \notin Urls(newv)}
  <2>1. L(i' - 1) = L(i - 1) \cup {i}
    BY <1>3, <1>5 DEF c
  <2>2. Strings(rem') = {urlv_current[k] : k \in L(i' - 1)}
    <3>. HIDE DEF L
    <3>1. Strings(rem) = {urlv_current[k] : k \in L(i - 1)}
      BY <1>1 DEF Shared, L
    <3>. QED
      BY <1>6, <2>1, <3>1 DEF c
  <2>3. /\ Strings(add') \cup Strings(to_delete') = {newv'[l] : l \in 1..(j' - 1)}
        /\ Strings(add') \cap Strings(to_delete') = {}
    BY <1>1, <1>2 DEF Shared
  <2>4. Strings(rem)' = Strings(rem') /\ Strings(add)' = Strings(add')
        /\ Strings(to_delete)' = Strings(to_delete') /\ Urls(newv)' = Urls(newv)
    BY <1>2 DEF Strings, Urls
  <2>. QED
    BY <1>2, <2>2, <2>3, <2>4 DEF Shared
<1>11. Counted'
  <2>. SUFFICES ASSUME NEW u \in Url
       PROVE  /\ Copies(rem', u) = (IF u \in Passed' \ Urls(newv) THEN 1 ELSE 0)
              /\ Copies(to_delete, u) = (IF u \in Passed' \cap Urls(newv) THEN 1 ELSE 0)
              /\ Copies(add, u) + Copies(to_delete, u)
                    = Cardinality({l \in 1..(j - 1) : newv[l].url = u})
    BY <1>2 DEF Counted, Copies, Urls
  <2>1. /\ Copies(rem, u) = (IF u \in Passed \ Urls(newv) THEN 1 ELSE 0)
        /\ Copies(to_delete, u) = (IF u \in Passed \cap Urls(newv) THEN 1 ELSE 0)
        /\ Copies(add, u) + Copies(to_delete, u)
              = Cardinality({l \in 1..(j - 1) : newv[l].url = u})
    BY <1>1 DEF Counted
  <2>2. Copies(rem', u) = Copies(rem, u) + (IF c.url = u THEN 1 ELSE 0)
    BY <1>6
  <2>3. CASE c.url = u
    <3>1. u \in Passed' /\ u \notin Passed /\ u \notin Urls(newv)
      BY <1>3, <1>5, <2>3
    <3>. QED
      BY <2>1, <2>2, <2>3, <3>1
  <2>4. CASE c.url # u
    <3>1. u \in Passed' <=> u \in Passed
      BY <1>3, <2>4
    <3>2. Copies(rem', u) = Copies(rem, u)
      BY <2>1, <2>2, <2>4
    <3>. QED
      BY <2>1, <3>1, <3>2
  <2>. QED
    BY <2>3, <2>4
<1>. QED
  BY <1>7, <1>8, <1>9, <1>10, <1>11 DEF WalkInv

\* New takes a URL collected that is not current, or once more.
LEMMA NewKeeps == WalkInv /\ New => WalkInv'
<1>. SUFFICES ASSUME WalkInv, New PROVE WalkInv'
  OBVIOUS
<1>. DEFINE x == newv[j]
<1>1. /\ TypeOK /\ CurrentInOrder /\ NewInOrder /\ OfEarlierRounds /\ CurrentIsAlive
      /\ SideBySide /\ Shared /\ Counted /\ Ends
  BY DEF WalkInv
<1>2. /\ step = "walk" /\ MoreNew /\ j' = j + 1 /\ add' = Append(add, x)
      /\ MoreCurrent => x.url < urlv_current[i].url
      /\ UNCHANGED <<urlv_current, newv, i, rem, to_delete, freed, rounds, step>>
  BY DEF New
<1>3. /\ j \in DOMAIN newv /\ j' \in 1..(Len(newv) + 1)
      /\ 1..(j' - 1) = (1..(j - 1)) \cup {j}
      /\ \A u : Cardinality({l \in 1..(j' - 1) : newv[l].url = u})
                = Cardinality({l \in 1..(j - 1) : newv[l].url = u})
                      + (IF x.url = u THEN 1 ELSE 0)
  BY <1>1, <1>2, PassesNew
<1>4. x \in String /\ x.url \in Nat
  BY <1>1, <1>3, WalkPlaces
<1>5. \A l \in 1..(j - 1) : l \in DOMAIN newv /\ newv[l] # x
  BY <1>1, <1>3, WalkPlaces DEF NewInOrder
<1>. HIDE DEF x
<1>6. /\ add' \in Seq(String)
      /\ Strings(add') = Strings(add) \cup {x}
      /\ \A u : Copies(add', u) = Copies(add, u) + (IF x.url = u THEN 1 ELSE 0)
  BY <1>1, <1>2, <1>4, AppendString DEF TypeOK
<1>7. TypeOK'
  BY <1>1, <1>2, <1>3, <1>6 DEF TypeOK
<1>8. CurrentInOrder' /\ NewInOrder' /\ OfEarlierRounds' /\ CurrentIsAlive' /\ Ends'
  BY <1>1, <1>2 DEF CurrentInOrder, NewInOrder, Sorted, OfEarlierRounds, CurrentIsAlive, Ends
<1>9. SideBySide'
  <2>. SUFFICES ASSUME NEW k \in DOMAIN urlv_current, NEW l \in DOMAIN newv
                PROVE  /\ k >= i /\ l < j + 1 => newv[l].url < urlv_current[k].url
                       /\ k < i /\ l >= j + 1 => urlv_current[k].url <= newv[l].url
    BY <1>2 DEF SideBySide
  <2>1. k \in Nat /\ l \in Nat /\ newv[l].url \in Nat /\ urlv_current[k].url \in Nat
    BY <1>1, WalkPlaces
  <2>2. k < i /\ l >= j + 1 => urlv_current[k].url <= newv[l].url
    BY <1>1, <2>1, WalkPlaces DEF SideBySide
  <2>3. ASSUME k >= i, l < j + 1 PROVE newv[l].url < urlv_current[k].url
    <3>1. CASE l < j
      BY <1>1, <2>3, <3>1 DEF SideBySide
    <3>2. CASE l = j
      <4>1. MoreCurrent /\ i \in DOMAIN urlv_current /\ urlv_current[i].url \in Nat
        BY <1>1, <2>3, WalkPlaces DEF MoreCurrent
      <4>2. urlv_current[i].url <= urlv_current[k].url
        <5>1. k = i \/ i < k
          BY <1>1, <2>1, <2>3, WalkPlaces
        <5>2. i < k => urlv_current[i].url < urlv_current[k].url
          BY <1>1, <4>1 DEF CurrentInOrder
        <5>. QED
          BY <2>1, <4>1, <5>1, <5>2
      <4>. QED
        BY <1>2, <1>4, <2>1, <3>2, <4>1, <4>2 DEF x
    <3>. QED
      BY <1>1, <2>1, <2>3, <3>1, <3>2, WalkPlaces
  <2>. QED
    BY <2>2, <2>3
<1>10. Shared'
  <2>1. {newv[l] : l \in 1..(j' - 1)} = {newv[l] : l \in 1..(j - 1)} \cup {x}
    BY <1>3 DEF x
  <2>2. x \notin Strings(to_delete)
    BY <1>1, <1>5 DEF Shared
  <2>3. /\ Strings(add') \cup Strings(to_delete) = {newv[l] : l \in 1..(j' - 1)}
        /\ Strings(add') \cap Strings(to_delete) = {}
    BY <1>1, <1>6, <2>1, <2>2 DEF Shared
  <2>4. Strings(rem)' = Strings(rem) /\ Strings(add)' = Strings(add')
        /\ Strings(to_delete)' = Strings(to_delete) /\ Urls(newv)' = Urls(newv)
    BY <1>2 DEF Strings, Urls
  <2>. QED
    BY <1>1, <1>2, <2>3, <2>4 DEF Shared
<1>11. Counted'
  <2>. SUFFICES ASSUME NEW u \in Url
       PROVE  /\ Copies(rem, u) = (IF u \in Passed \ Urls(newv) THEN 1 ELSE 0)
              /\ Copies(to_delete, u) = (IF u \in Passed \cap Urls(newv) THEN 1 ELSE 0)
              /\ Copies(add', u) + Copies(to_delete, u)
                    = Cardinality({l \in 1..(j' - 1) : newv[l].url = u})
    <3>1. /\ Passed' = Passed /\ Urls(newv)' = Urls(newv)
          /\ \A u : /\ Copies(rem, u)' = Copies(rem, u) /\ Copies(add, u)' = Copies(add', u)
                   /\ Copies(to_delete, u)' = Copies(to_delete, u)
                   /\ {l \in 1..(j - 1) : newv[l].url = u}' = {l \in 1..(j' - 1) : newv[l].url = u}
      BY <1>2 DEF Passed, Urls, Copies
    <3>. QED
      BY <3>1 DEF Counted
  <2>1. /\ Copies(rem, u) = (IF u \in Passed \ Urls(newv) THEN 1 ELSE 0)
        /\ Copies(to_delete, u) = (IF u \in Passed \cap Urls(newv) THEN 1 ELSE 0)
        /\ Copies(add, u) + Copies(to_delete, u)
              = Cardinality({l \in 1..(j - 1) : newv[l].url = u})
    BY <1>1 DEF Counted
  <2>2. Copies(add, u) \in Nat /\ Copies(to_delete, u) \in Nat
    BY <1>1, CopiesType DEF TypeOK
  <2>3. Copies(add', u) = Copies(add, u) + (IF x.url = u THEN 1 ELSE 0)
    BY <1>6
  <2>4. Copies(add', u) + Copies(to_delete, u)
            = Cardinality({l \in 1..(j' - 1) : newv[l].url = u})
    <3>. DEFINE n == Cardinality({l \in 1..(j - 1) : newv[l].url = u})
                m == Cardinality({l \in 1..(j' - 1) : newv[l].url = u})
    <3>1. m = n + (IF x.url = u THEN 1 ELSE 0) /\ Copies(add, u) + Copies(to_delete, u) = n
      BY <1>3, <2>1
    <3>. HIDE DEF m, n
    <3>2. Copies(add', u) + Copies(to_delete, u) = m
      BY <2>2, <2>3, <3>1
    <3>. QED
      BY <3>2 DEF m
  <2>. QED
    BY <2>1, <2>4
<1>. QED
  BY <1>7, <1>8, <1>9, <1>10, <1>11 DEF WalkInv

\* Same takes a current URL and the first copy of it that was collected.
LEMMA SameKeeps == WalkInv /\ Same => WalkInv'
<1>. SUFFICES ASSUME WalkInv, Same PROVE WalkInv'
  OBVIOUS
<1>. DEFINE c == urlv_current[i]
            x == newv[j]
<1>1. /\ TypeOK /\ CurrentInOrder /\ NewInOrder /\ OfEarlierRounds /\ CurrentIsAlive
      /\ SideBySide /\ Shared /\ Counted /\ Ends
  BY DEF WalkInv
<1>2. /\ step = "walk" /\ MoreCurrent /\ MoreNew /\ c.url = x.url
      /\ i' = i + 1 /\ j' = j + 1 /\ to_delete' = Append(to_delete, x)
      /\ UNCHANGED <<urlv_current, newv, add, rem, freed, rounds, step>>
  BY DEF Same
<1>3. /\ j \in DOMAIN newv /\ j' \in 1..(Len(newv) + 1)
      /\ 1..(j' - 1) = (1..(j - 1)) \cup {j}
      /\ \A u : Cardinality({l \in 1..(j' - 1) : newv[l].url = u})
                = Cardinality({l \in 1..(j - 1) : newv[l].url = u})
                      + (IF x.url = u THEN 1 ELSE 0)
  BY <1>1, <1>2, PassesNew
<1>4. /\ i \in DOMAIN urlv_current /\ i' \in 1..(Len(urlv_current) + 1)
      /\ 1..(i' - 1) = (1..(i - 1)) \cup {i}
      /\ Passed' = Passed \cup {c.url} /\ c.url \notin Passed
  BY <1>1, <1>2, PassesCurrent
<1>5. x \in String /\ x.url \in Nat /\ c.url \in Urls(newv)
  BY <1>1, <1>2, <1>3, WalkPlaces DEF Urls
<1>6. \A l \in 1..(j - 1) : l \in DOMAIN newv /\ newv[l] # x
  BY <1>1, <1>3, WalkPlaces DEF NewInOrder
<1>. HIDE DEF x, c
<1>7. /\ to_delete' \in Seq(String)
      /\ Strings(to_delete') = Strings(to_delete) \cup {x}
      /\ \A u : Copies(to_delete', u) = Copies(to_delete, u) + (IF x.url = u THEN 1 ELSE 0)
  BY <1>1, <1>2, <1>5, AppendString DEF TypeOK
<1>8. TypeOK'
  BY <1>1, <1>2, <1>3, <1>4, <1>7 DEF TypeOK
<1>9. CurrentInOrder' /\ NewInOrder' /\ OfEarlierRounds' /\ CurrentIsAlive' /\ Ends'
  BY <1>1, <1>2 DEF CurrentInOrder, NewInOrder, Sorted, OfEarlierRounds, CurrentIsAlive, Ends
<1>10. SideBySide'
  <2>. SUFFICES ASSUME NEW k \in DOMAIN urlv_current, NEW l \in DOMAIN newv
                PROVE  /\ k >= i + 1 /\ l < j + 1 => newv[l].url < urlv_current[k].url
                       /\ k < i + 1 /\ l >= j + 1 => urlv_current[k].url <= newv[l].url
    BY <1>2 DEF SideBySide
  <2>1. k \in Nat /\ l \in Nat /\ i \in Nat /\ j \in Nat
    BY <1>1, WalkPlaces
  <2>2. k >= i /\ l < j => newv[l].url < urlv_current[k].url
    BY <1>1 DEF SideBySide
  <2>3. k < i /\ l >= j => urlv_current[k].url <= newv[l].url
    BY <1>1 DEF SideBySide
  <2>4. k > i => c.url < urlv_current[k].url
    BY <1>1, <1>4, <2>1 DEF CurrentInOrder, c
  <2>5. l > j => x.url <= newv[l].url
    BY <1>1, <1>3, <2>1 DEF NewInOrder, Sorted, x
  <2>. QED
    BY <1>2, <2>1, <2>2, <2>3, <2>4, <2>5 DEF c, x
<1>11. Shared'
  <2>. DEFINE L(n) == {m \in 1..n : urlv_current[m].url \notin Urls(newv)}
  <2>1. L(i' - 1) = L(i - 1)
    BY <1>4, <1>5 DEF c
  <2>2. {newv[l] : l \in 1..(j' - 1)} = {newv[l] : l \in 1..(j - 1)} \cup {x}
    BY <1>3 DEF x
  <2>3. x \notin Strings(add)
    BY <1>1, <1>6 DEF Shared
  <2>4. /\ Strings(add) \cup Strings(to_delete') = {newv[l] : l \in 1..(j' - 1)}
        /\ Strings(add) \cap Strings(to_delete') = {}
    BY <1>1, <1>7, <2>2, <2>3 DEF Shared
  <2>5. Strings(rem) = {urlv_current[k] : k \in L(i' - 1)}
    <3>1. Strings(rem) = {urlv_current[k] : k \in L(i - 1)}
      BY <1>1 DEF Shared, L
    <3>. QED
      BY <2>1, <3>1
  <2>6. Strings(rem)' = Strings(rem) /\ Strings(add)' = Strings(add)
        /\ Strings(to_delete)' = Strings(to_delete') /\ Urls(newv)' = Urls(newv)
    BY <1>2 DEF Strings, Urls
  <2>. QED
    BY <1>2, <2>4, <2>5, <2>6 DEF Shared
<1>12. Counted'
  <2>. SUFFICES ASSUME NEW u \in Url
       PROVE  /\ Copies(rem, u) = (IF u \in Passed' \ Urls(newv) THEN 1 ELSE 0)
              /\ Copies(to_delete', u) = (IF u \in Passed' \cap Urls(newv) THEN 1 ELSE 0)
              /\ Copies(add, u) + Copies(to_delete', u)
                    = Cardinality({l \in 1..(j' - 1) : newv[l].url = u})
    <3>1. /\ Urls(newv)' = Urls(newv)
          /\ \A u : /\ Copies(rem, u)' = Copies(rem, u) /\ Copies(add, u)' = Copies(add, u)
                   /\ Copies(to_delete, u)' = Copies(to_delete', u)
                   /\ {l \in 1..(j - 1) : newv[l].url = u}' = {l \in 1..(j' - 1) : newv[l].url = u}
      BY <1>2 DEF Urls, Copies
    <3>. QED
      BY <3>1 DEF Counted
  <2>1. /\ Copies(rem, u) = (IF u \in Passed \ Urls(newv) THEN 1 ELSE 0)
        /\ Copies(to_delete, u) = (IF u \in Passed \cap Urls(newv) THEN 1 ELSE 0)
        /\ Copies(add, u) + Copies(to_delete, u)
              = Cardinality({l \in 1..(j - 1) : newv[l].url = u})
    BY <1>1 DEF Counted
  <2>2. Copies(add, u) \in Nat /\ Copies(to_delete, u) \in Nat
    BY <1>1, CopiesType DEF TypeOK
  <2>3. Copies(to_delete', u) = Copies(to_delete, u) + (IF x.url = u THEN 1 ELSE 0)
    BY <1>7
  <2>4. Copies(add, u) + Copies(to_delete', u)
            = Cardinality({l \in 1..(j' - 1) : newv[l].url = u})
    <3>. DEFINE n == Cardinality({l \in 1..(j - 1) : newv[l].url = u})
                m == Cardinality({l \in 1..(j' - 1) : newv[l].url = u})
    <3>1. m = n + (IF x.url = u THEN 1 ELSE 0) /\ Copies(add, u) + Copies(to_delete, u) = n
      BY <1>3, <2>1
    <3>. HIDE DEF m, n
    <3>2. Copies(add, u) + Copies(to_delete', u) = m
      BY <2>2, <2>3, <3>1
    <3>. QED
      BY <3>2 DEF m
  <2>5. CASE c.url = u
    <3>1. u \in Passed' /\ u \notin Passed /\ u \in Urls(newv)
      BY <1>4, <1>5, <2>5
    <3>. QED
      BY <1>2, <2>1, <2>3, <2>4, <2>5, <3>1
  <2>6. CASE c.url # u
    <3>1. u \in Passed' <=> u \in Passed
      BY <1>4, <2>6
    <3>2. Copies(to_delete', u) = Copies(to_delete, u)
      BY <1>2, <2>2, <2>3, <2>6
    <3>. QED
      BY <2>1, <2>4, <3>1, <3>2
  <2>. QED
    BY <2>5, <2>6
<1>. QED
  BY <1>8, <1>9, <1>10, <1>11, <1>12 DEF WalkInv

\* WalkEnds has nothing left in either list.
LEMMA WalkEndsKeeps == WalkInv /\ WalkEnds => WalkInv'
<1>. SUFFICES ASSUME WalkInv, WalkEnds PROVE WalkInv'
  OBVIOUS
<1>1. /\ step = "walk" /\ step' = "merge" /\ ~MoreCurrent /\ ~MoreNew
      /\ UNCHANGED <<urlv_current, newv, i, j, add, rem, to_delete, freed, rounds>>
  BY DEF WalkEnds
<1>2. i = Len(urlv_current) + 1 /\ j = Len(newv) + 1
  BY <1>1, WalkPlaces DEF WalkInv, MoreCurrent, MoreNew
<1>3. TypeOK' /\ OfEarlierRounds' /\ Ends'
  BY <1>1, <1>2 DEF WalkInv, TypeOK, OfEarlierRounds, Ends
<1>4. /\ CurrentInOrder' /\ NewInOrder' /\ CurrentIsAlive'
      /\ SideBySide' /\ Shared' /\ Counted'
  <2>1. /\ Passed' = Passed /\ Urls(newv)' = Urls(newv) /\ Strings(rem)' = Strings(rem)
        /\ Strings(add)' = Strings(add) /\ Strings(to_delete)' = Strings(to_delete)
        /\ \A u : /\ Copies(rem, u)' = Copies(rem, u) /\ Copies(add, u)' = Copies(add, u)
                 /\ Copies(to_delete, u)' = Copies(to_delete, u)
    BY <1>1 DEF Passed, Urls, Strings, Copies
  <2>2. CurrentInOrder' /\ NewInOrder' /\ CurrentIsAlive' /\ SideBySide'
    BY <1>1 DEF WalkInv, CurrentInOrder, NewInOrder, CurrentIsAlive, SideBySide, Sorted, Strings
  <2>3. Shared'
    BY <1>1, <2>1 DEF WalkInv, Shared
  <2>4. Counted'
    BY <1>1, <2>1 DEF WalkInv, Counted
  <2>. QED
    BY <2>2, <2>3, <2>4
<1>. QED
  BY <1>3, <1>4 DEF WalkInv

-----------------------------------------------------------------------------
(* The two ends of a round. *)

\* Extract starts the walk with strings that nobody else has.
LEMMA ExtractKeeps == WalkInv /\ Extract => WalkInv'
<1>. SUFFICES ASSUME WalkInv, Extract PROVE WalkInv'
  OBVIOUS
<1>1. PICK n \in 1..MaxNew : \E us \in [1..n -> Url] :
         Arrange([k \in 1..n |-> [url |-> us[k], round |-> rounds', nth |-> k]])
  BY DEF Extract
<1>2. PICK us \in [1..n -> Url] :
         Arrange([k \in 1..n |-> [url |-> us[k], round |-> rounds', nth |-> k]])
  BY <1>1
<1>. DEFINE c == [k \in 1..n |-> [url |-> us[k], round |-> rounds', nth |-> k]]
<1>3. /\ step = "idle" /\ step' = "walk" /\ rounds < MaxRounds /\ rounds' = rounds + 1
      /\ UNCHANGED <<urlv_current, i, j, add, rem, to_delete, freed>>
  BY DEF Extract
<1>4. /\ newv = <<>> /\ add = <<>> /\ rem = <<>> /\ to_delete = <<>> /\ i = 1 /\ j = 1
      /\ TypeOK /\ CurrentInOrder /\ OfEarlierRounds /\ CurrentIsAlive
  BY <1>3 DEF WalkInv, Ends
<1>5. rounds \in Nat /\ rounds' \in 1..MaxRounds /\ n \in Nat /\ n <= MaxNew
  BY <1>3, <1>4 DEF TypeOK
<1>6. \A k \in 1..n : c[k] \in String /\ c[k].round = rounds' /\ c[k].nth = k
  BY <1>5 DEF String
<1>7. DOMAIN c = 1..n
  OBVIOUS
<1>. HIDE DEF c
<1>8. PICK order \in Bijection(1..n, 1..n) :
         Sorted([k \in 1..n |-> c[order[k]]]) /\ newv' = [k \in 1..n |-> c[order[k]]]
  BY <1>2, <1>7 DEF Arrange, c
<1>9. order \in [1..n -> 1..n] /\ \A k, l \in 1..n : order[k] = order[l] => k = l
  BY <1>8 DEF Bijection, Injection, IsInjective
<1>10. newv' \in [1..n -> String] /\ DOMAIN newv' = 1..n /\ Sorted(newv')
  BY <1>6, <1>8, <1>9
<1>11. newv' \in Seq(String)
  BY <1>5, <1>10
<1>12. \A k \in 1..n : newv'[k].round = rounds' /\ newv'[k].nth = order[k]
  BY <1>6, <1>8, <1>9
<1>13. TypeOK'
  <2>1. Len(newv') \in Nat
    BY <1>11, LenProperties
  <2>. QED
    BY <1>3, <1>4, <1>5, <1>11, <2>1 DEF TypeOK
<1>14. NewInOrder'
  <2>1. \A k, l \in 1..n : newv'[k] = newv'[l] => k = l
    BY <1>9, <1>12
  <2>2. Sorted(newv)'
    BY <1>10 DEF Sorted
  <2>. QED
    BY <1>10, <1>12, <2>1, <2>2 DEF NewInOrder
<1>15. OfEarlierRounds'
  <2>1. \A x \in Strings(urlv_current) \cup freed : x.round \in Nat
    BY <1>4, WalkPlaces DEF Strings, TypeOK, String
  <2>2. (Strings(urlv_current) \cup freed)' = Strings(urlv_current) \cup freed
    BY <1>3 DEF Strings
  <2>. QED
    BY <1>3, <1>4, <1>5, <2>1, <2>2 DEF OfEarlierRounds
<1>16. CurrentInOrder' /\ CurrentIsAlive' /\ Ends'
  BY <1>3, <1>4 DEF CurrentInOrder, CurrentIsAlive, Ends, Strings
<1>17. SideBySide'
  <2>1. DOMAIN urlv_current' \subseteq Nat \ {0} /\ DOMAIN newv' \subseteq Nat \ {0}
    BY <1>3, <1>4, <1>10, WalkPlaces
  <2>2. i' = 1 /\ j' = 1
    BY <1>3, <1>4
  <2>. QED
    BY <2>1, <2>2 DEF SideBySide
<1>18. 1..(i' - 1) = {} /\ 1..(j' - 1) = {} /\ Passed' = {}
  BY <1>3, <1>4 DEF Passed
<1>19. /\ Strings(rem)' = {} /\ Strings(add)' = {} /\ Strings(to_delete)' = {}
       /\ \A u : Copies(rem, u)' = 0 /\ Copies(add, u)' = 0 /\ Copies(to_delete, u)' = 0
  BY <1>3, <1>4, NothingInEmpty
<1>20. Shared'
  BY <1>18, <1>19 DEF Shared
<1>21. Counted'
  <2>1. \A u : {l \in 1..(j - 1) : newv[l].url = u}' = {}
    BY <1>18
  <2>2. \A u : Cardinality({l \in 1..(j - 1) : newv[l].url = u})' = 0
    BY <2>1, FS_EmptySet
  <2>3. \A u : u \notin (Passed \ Urls(newv))' /\ u \notin (Passed \cap Urls(newv))'
    BY <1>18
  <2>. QED
    BY <1>19, <2>2, <2>3 DEF Counted
<1>. QED
  BY <1>13, <1>14, <1>15, <1>16, <1>17, <1>20, <1>21 DEF WalkInv

\* Two lists of strings joined.
LEMMA JoinStrings ==
    ASSUME NEW s \in Seq(String), NEW t \in Seq(String)
    PROVE  /\ s \o t \in Seq(String)
           /\ Strings(s \o t) = Strings(s) \cup Strings(t)
           /\ Urls(s \o t) = Urls(s) \cup Urls(t)
<1>. DEFINE c == s \o t
<1>1. /\ c \in Seq(String) /\ Len(c) = Len(s) + Len(t)
      /\ \A k \in 1..(Len(s) + Len(t)) : c[k] = IF k <= Len(s) THEN s[k] ELSE t[k - Len(s)]
  BY ConcatProperties
<1>2. /\ Len(s) \in Nat /\ DOMAIN s = 1..Len(s)
      /\ Len(t) \in Nat /\ DOMAIN t = 1..Len(t)
      /\ DOMAIN c = 1..(Len(s) + Len(t))
  BY <1>1, LenProperties
<1>. HIDE DEF c
<1>3. \A k \in DOMAIN s : k \in DOMAIN c /\ c[k] = s[k]
  BY <1>1, <1>2
<1>4. \A k \in DOMAIN t : k + Len(s) \in DOMAIN c /\ c[k + Len(s)] = t[k]
  <2>. SUFFICES ASSUME NEW k \in DOMAIN t
                PROVE  k + Len(s) \in DOMAIN c /\ c[k + Len(s)] = t[k]
    OBVIOUS
  <2>1. /\ k + Len(s) \in 1..(Len(s) + Len(t)) /\ ~(k + Len(s) <= Len(s))
        /\ (k + Len(s)) - Len(s) = k
    BY <1>2
  <2>. QED
    BY <1>1, <1>2, <2>1
<1>5. \A k \in DOMAIN c : \/ k \in DOMAIN s
                          \/ k - Len(s) \in DOMAIN t /\ c[k] = t[k - Len(s)]
  BY <1>1, <1>2
<1>6. Strings(c) = Strings(s) \cup Strings(t)
  <2>1. \A x \in Strings(s) \cup Strings(t) : x \in Strings(c)
    BY <1>3, <1>4 DEF Strings
  <2>2. \A x \in Strings(c) : x \in Strings(s) \cup Strings(t)
    BY <1>3, <1>5 DEF Strings
  <2>. QED
    BY <2>1, <2>2
<1>7. Urls(c) = Urls(s) \cup Urls(t)
  <2>1. \A u \in Urls(s) \cup Urls(t) : u \in Urls(c)
    BY <1>3, <1>4 DEF Urls
  <2>2. \A u \in Urls(c) : u \in Urls(s) \cup Urls(t)
    BY <1>3, <1>5 DEF Urls
  <2>. QED
    BY <2>1, <2>2
<1>. QED
  BY <1>1, <1>6, <1>7 DEF c

\* The first string of a URL is one of its strings.
LEMMA FirstOfIsOne ==
    ASSUME NEW s \in Seq(String), NEW u \in Urls(s)
    PROVE  FirstOf(s, u) \in Strings(s) /\ FirstOf(s, u).url = u
<1>. DEFINE T == {k \in DOMAIN s : s[k].url = u}
<1>1. DOMAIN s = 1..Len(s) /\ Len(s) \in Nat
  BY LenProperties
<1>2. T \subseteq Nat /\ T # {}
  BY <1>1 DEF Urls
<1>. HIDE DEF T
<1>3. PICK x \in T : \A y \in T : ~(<<y, x>> \in OpToRel(<, Nat))
  BY <1>2, NatLessThanWellFounded, WFMin
<1>4. ASSUME NEW y \in T PROVE x <= y
  <2>1. x \in Nat /\ y \in Nat
    BY <1>2
  <2>2. ASSUME y < x PROVE FALSE
    <3>1. <<y, x>> \in {ss \in Nat \X Nat : ss[1] < ss[2]}
      BY <2>1, <2>2
    <3>2. <<y, x>> \in OpToRel(<, Nat)
      BY <3>1 DEF OpToRel
    <3>. QED
      BY <1>3, <3>2
  <2>. QED
    BY <2>1, <2>2
<1>5. \E k \in DOMAIN s : s[k].url = u /\ \A l \in DOMAIN s : s[l].url = u => k <= l
  BY <1>4 DEF T
<1>. QED
  BY <1>5 DEF FirstOf, Strings

\* The URLs of a list are those of its strings.
LEMMA UrlsOfStrings == ASSUME NEW s PROVE Urls(s) = {x.url : x \in Strings(s)}
<1>1. ASSUME NEW u \in Urls(s) PROVE u \in {x.url : x \in Strings(s)}
  <2>1. PICK k \in DOMAIN s : s[k].url = u
    BY DEF Urls
  <2>2. s[k] \in Strings(s)
    BY DEF Strings
  <2>. QED
    BY <2>1, <2>2
<1>2. ASSUME NEW x \in Strings(s) PROVE x.url \in Urls(s)
  BY DEF Urls, Strings
<1>. QED
  BY <1>1, <1>2

\* What the round leaves: one string for each URL collected, never freed.
LEMMA KeysAreTheRound ==
    ASSUME WalkInv, step = "merge"
    PROVE  /\ Keys \subseteq Strings(urlv_current) \cup Strings(add)
           /\ {x.url : x \in Keys} = Urls(newv)
           /\ \A x, y \in Keys : x.url = y.url => x = y
           /\ Cardinality(Keys) \in Nat
<1>1. /\ TypeOK /\ Shared /\ Counted /\ urlv_current \in Seq(String) /\ add \in Seq(String)
      /\ rem \in Seq(String) /\ to_delete \in Seq(String) /\ newv \in Seq(String)
      /\ i = Len(urlv_current) + 1 /\ j = Len(newv) + 1
  BY DEF WalkInv, TypeOK, Ends
<1>. DEFINE all == urlv_current \o add
            U == (Urls(urlv_current) \cup Urls(add)) \ Urls(rem)
<1>2. /\ all \in Seq(String)
      /\ Strings(all) = Strings(urlv_current) \cup Strings(add)
      /\ Urls(all) = Urls(urlv_current) \cup Urls(add)
  BY <1>1, JoinStrings
<1>3. Keys = {FirstOf(all, u) : u \in U}
  BY DEF Keys
<1>. HIDE DEF all
<1>4. \A u \in U : FirstOf(all, u) \in Strings(all) /\ FirstOf(all, u).url = u
  BY <1>2, FirstOfIsOne
<1>5. Keys \subseteq Strings(all) /\ {x.url : x \in Keys} = U
      /\ \A x, y \in Keys : x.url = y.url => x = y
  <2>. HIDE DEF U
  <2>. QED
    BY <1>3, <1>4
<1>6. U = Urls(newv)
  <2>1. Urls(newv) \subseteq Url /\ Urls(urlv_current) \subseteq Url
    BY <1>1, WalkPlaces DEF Urls
  <2>2. 1..(i - 1) = DOMAIN urlv_current /\ 1..(j - 1) = DOMAIN newv
    BY <1>1, WalkPlaces
  <2>3. Passed = Urls(urlv_current) /\ {newv[l] : l \in 1..(j - 1)} = Strings(newv)
    BY <2>2 DEF Urls, Passed, Strings
  <2>4. Strings(add) \cup Strings(to_delete) = Strings(newv)
    BY <1>1, <2>3 DEF Shared
  <2>5. Urls(add) \cup Urls(to_delete) = Urls(newv)
    BY <2>4, UrlsOfStrings
  <2>6. ASSUME NEW u \in Url
        PROVE  /\ u \in Urls(rem) <=> u \in Passed \ Urls(newv)
               /\ u \in Urls(to_delete) => u \in Passed
    <3>1. /\ Copies(rem, u) = (IF u \in Passed \ Urls(newv) THEN 1 ELSE 0)
          /\ Copies(to_delete, u) = (IF u \in Passed \cap Urls(newv) THEN 1 ELSE 0)
      BY <1>1 DEF Counted
    <3>2. /\ Copies(rem, u) = 0 <=> u \notin Urls(rem)
          /\ Copies(to_delete, u) = 0 <=> u \notin Urls(to_delete)
      BY <1>1, CopiesType
    <3>. QED
      BY <3>1, <3>2
  <2>. QED
    BY <2>1, <2>3, <2>5, <2>6
<1>7. Cardinality(Keys) \in Nat
  <2>1. /\ Len(all) \in Nat /\ DOMAIN all = 1..Len(all) /\ all \in [1..Len(all) -> String]
    BY <1>2, LenProperties
  <2>2. all \in Surjection(1..Len(all), Strings(all))
    BY <2>1 DEF Surjection, Strings
  <2>3. IsFiniteSet(1..Len(all))
    BY <2>1, FS_Interval
  <2>4. IsFiniteSet(Strings(all))
    BY <2>2, <2>3, FS_Surjection
  <2>5. Keys \in SUBSET Strings(all)
    BY <1>5
  <2>6. IsFiniteSet(Keys)
    BY <2>4, <2>5, FS_Subset
  <2>. QED
    BY <2>6, FS_CardinalityType
<1>. QED
  BY <1>2, <1>5, <1>6, <1>7

\* What is removed was current, and what is not needed came with the round.
LEMMA WhereFrom ==
    ASSUME WalkInv, step # "idle"
    PROVE  /\ Strings(rem) \subseteq Strings(urlv_current)
           /\ Strings(add) \cup Strings(to_delete) \subseteq Strings(newv)
           /\ \A x \in Strings(urlv_current) \cup freed : x \in String /\ x.round < rounds
           /\ \A x \in Strings(newv) : x \in String /\ x.round = rounds
           /\ rounds \in Nat
<1>1. TypeOK /\ Shared /\ OfEarlierRounds /\ NewInOrder
  BY DEF WalkInv
<1>2. \A k \in 1..(i - 1) : k \in DOMAIN urlv_current
  BY <1>1, WalkPlaces
<1>3. \A l \in 1..(j - 1) : l \in DOMAIN newv
  BY <1>1, WalkPlaces
<1>4. /\ Strings(rem) \subseteq Strings(urlv_current)
      /\ Strings(add) \cup Strings(to_delete) \subseteq Strings(newv)
  BY <1>1, <1>2, <1>3 DEF Shared, Strings
<1>5. \A x \in Strings(urlv_current) \cup freed : x \in String /\ x.round < rounds
  BY <1>1, WalkPlaces DEF OfEarlierRounds, Strings, TypeOK
<1>6. \A x \in Strings(newv) : x \in String /\ x.round = rounds
  BY <1>1, WalkPlaces DEF NewInOrder, Strings
<1>. QED
  BY <1>1, <1>4, <1>5, <1>6 DEF TypeOK

\* What is freed is not a key of the tree.
LEMMA KeysAreAlive ==
    ASSUME WalkInv, step = "merge"
    PROVE  Keys \cap (freed \cup Strings(rem) \cup Strings(to_delete)) = {}
<1>. SUFFICES ASSUME NEW x \in Keys
              PROVE  x \notin freed /\ x \notin Strings(rem) /\ x \notin Strings(to_delete)
  OBVIOUS
<1>1. x \in Strings(urlv_current) \cup Strings(add) /\ x.url \in Urls(newv)
  BY KeysAreTheRound
<1>2. x \notin Strings(rem)
  <2>1. \A y \in Strings(rem) : y.url \notin Urls(newv)
    BY DEF WalkInv, Shared
  <2>. QED
    BY <1>1, <2>1
<1>3. CASE x \in Strings(urlv_current)
  <2>1. x \notin freed
    BY <1>3 DEF WalkInv, CurrentIsAlive
  <2>2. x \notin Strings(to_delete)
    BY <1>3, WhereFrom DEF String
  <2>. QED
    BY <1>2, <2>1, <2>2
<1>4. CASE x \in Strings(add)
  <2>1. x \notin Strings(to_delete)
    BY <1>4 DEF WalkInv, Shared
  <2>2. x \notin freed
    BY <1>4, WhereFrom DEF String
  <2>. QED
    BY <1>2, <2>1, <2>2
<1>. QED
  BY <1>1, <1>3, <1>4

\* What Merge makes current: the URLs of the round, each once and in order.
LEMMA MergeAdopts ==
    ASSUME WalkInv, Merge
    PROVE  /\ urlv_current' \in Seq(String)
           /\ Strings(urlv_current)' = Keys
           /\ Urls(urlv_current') = Urls(newv)
           /\ CurrentInOrder'
<1>. DEFINE m == Cardinality(Keys)
<1>1. step = "merge"
  BY DEF Merge
<1>2. /\ Keys \subseteq String /\ m \in Nat
      /\ {x.url : x \in Keys} = Urls(newv)
      /\ \A x, y \in Keys : x.url = y.url => x = y
  BY <1>1, KeysAreTheRound, WhereFrom
<1>3. PICK s \in Bijection(1..m, Keys) : Sorted(s) /\ urlv_current' = s
  BY DEF Merge
<1>. HIDE DEF m
<1>4. /\ s \in [1..m -> Keys] /\ DOMAIN s = 1..m
      /\ \A k, l \in 1..m : s[k] = s[l] => k = l
      /\ \A x \in Keys : \E k \in 1..m : s[k] = x
  BY <1>3 DEF Bijection, Injection, Surjection, IsInjective
<1>5. s \in Seq(String)
  <2>1. s \in [1..m -> String]
    BY <1>2, <1>4
  <2>. QED
    BY <1>2, <2>1, SeqDef
<1>6. Strings(s) = Keys
  BY <1>4 DEF Strings
<1>7. Urls(s) = Urls(newv)
  BY <1>2, <1>6, UrlsOfStrings
<1>8. ASSUME NEW k \in DOMAIN s, NEW l \in DOMAIN s, k < l
      PROVE  s[k].url < s[l].url
  <2>1. s[k].url \in Nat /\ s[l].url \in Nat
    BY <1>5, StringSeq
  <2>2. s[k].url <= s[l].url
    BY <1>3, <1>8 DEF Sorted
  <2>3. k # l
    BY <1>2, <1>4, <1>8
  <2>4. s[k].url # s[l].url
    BY <1>2, <1>4, <2>3
  <2>. QED
    BY <2>1, <2>2, <2>4
<1>9. CurrentInOrder'
  BY <1>3, <1>8 DEF CurrentInOrder
<1>. QED
  BY <1>3, <1>5, <1>6, <1>7, <1>9 DEF Strings

\* Merge ends the round.
LEMMA MergeKeeps == WalkInv /\ Merge => WalkInv'
<1>. SUFFICES ASSUME WalkInv, Merge PROVE WalkInv'
  OBVIOUS
<1>1. /\ step = "merge" /\ step' = "idle" /\ rounds' = rounds
      /\ newv' = <<>> /\ add' = <<>> /\ rem' = <<>> /\ to_delete' = <<>>
      /\ i' = 1 /\ j' = 1
      /\ freed' = freed \cup Strings(rem) \cup Strings(to_delete)
  BY DEF Merge, StartOver
<1>2. /\ urlv_current' \in Seq(String) /\ Strings(urlv_current)' = Keys /\ CurrentInOrder'
  BY MergeAdopts
<1>3. \A x \in Keys \cup freed' : x \in String /\ x.round <= rounds
  <2>1. \A x \in Strings(urlv_current) \cup Strings(newv) \cup freed :
           x \in String /\ x.round \in Nat /\ x.round <= rounds
    BY <1>1, WhereFrom DEF String
  <2>2. Keys \cup freed' \subseteq Strings(urlv_current) \cup Strings(newv) \cup freed
    BY <1>1, WhereFrom, KeysAreTheRound
  <2>. QED
    BY <2>1, <2>2
<1>4. TypeOK'
  <2>1. Len(urlv_current') \in Nat
    BY <1>2, LenProperties
  <2>2. freed' \subseteq String
    BY <1>3
  <2>. QED
    BY <1>1, <1>2, <2>1, <2>2, NothingInEmpty DEF WalkInv, TypeOK
<1>5. OfEarlierRounds' /\ CurrentIsAlive' /\ Ends'
  BY <1>1, <1>2, <1>3, KeysAreAlive DEF OfEarlierRounds, CurrentIsAlive, Ends
<1>6. NewInOrder' /\ SideBySide'
  BY <1>1, NothingInEmpty DEF NewInOrder, Sorted, SideBySide
<1>7. 1..(i' - 1) = {} /\ 1..(j' - 1) = {} /\ Passed' = {}
  BY <1>1 DEF Passed
<1>8. /\ Strings(rem)' = {} /\ Strings(add)' = {} /\ Strings(to_delete)' = {}
      /\ \A u : Copies(rem, u)' = 0 /\ Copies(add, u)' = 0 /\ Copies(to_delete, u)' = 0
  BY <1>1, NothingInEmpty
<1>9. Shared'
  BY <1>7, <1>8 DEF Shared
<1>10. Counted'
  <2>1. \A u : {l \in 1..(j - 1) : newv[l].url = u}' = {}
    BY <1>7
  <2>2. \A u : Cardinality({l \in 1..(j - 1) : newv[l].url = u})' = 0
    BY <2>1, FS_EmptySet
  <2>3. \A u : u \notin (Passed \ Urls(newv))' /\ u \notin (Passed \cap Urls(newv))'
    BY <1>7
  <2>. QED
    BY <1>8, <2>2, <2>3 DEF Counted
<1>. QED
  BY <1>2, <1>4, <1>5, <1>6, <1>9, <1>10 DEF WalkInv

\* The steps together.
LEMMA NextWalkInv == WalkInv /\ [Next]_vars => WalkInv'
<1>. SUFFICES ASSUME WalkInv, [Next]_vars PROVE WalkInv'
  OBVIOUS
<1>1. CASE UNCHANGED vars
  <2>1. /\ Passed' = Passed /\ Urls(newv)' = Urls(newv) /\ Strings(rem)' = Strings(rem)
        /\ Strings(add)' = Strings(add) /\ Strings(to_delete)' = Strings(to_delete)
        /\ \A u : /\ Copies(rem, u)' = Copies(rem, u) /\ Copies(add, u)' = Copies(add, u)
                 /\ Copies(to_delete, u)' = Copies(to_delete, u)
    BY <1>1 DEF vars, Passed, Urls, Strings, Copies
  <2>2. /\ TypeOK' /\ CurrentInOrder' /\ NewInOrder' /\ OfEarlierRounds'
        /\ CurrentIsAlive' /\ SideBySide' /\ Ends'
    BY <1>1 DEF vars, WalkInv, TypeOK, CurrentInOrder, NewInOrder, OfEarlierRounds,
       CurrentIsAlive, SideBySide, Ends, Sorted, Strings
  <2>3. Shared' /\ Counted'
    BY <1>1, <2>1 DEF vars, WalkInv, Shared, Counted
  <2>. QED
    BY <2>2, <2>3 DEF WalkInv
<1>. QED
  BY <1>1, ExtractKeeps, LostKeeps, NewKeeps, SameKeeps, WalkEndsKeeps, MergeKeeps DEF Next

-----------------------------------------------------------------------------
(* The theorems. *)

\* WalkInv holds throughout.
LEMMA AlwaysWalkInv == Spec => []WalkInv
  BY InitWalkInv, NextWalkInv, PTL DEF Spec

\* The walk stays within the lists it walks, and strings are strings.
THEOREM TypeCorrect == Spec => []TypeOK
<1>1. WalkInv => TypeOK
  BY DEF WalkInv
<1>. QED
  BY <1>1, AlwaysWalkInv, PTL

\* What Deltas makes of the two lists: what the round collected, and no more.
LEMMA DeltasOfLists ==
    ASSUME TypeOK
    PROVE  /\ \A u \in Url :
                /\ Added(Urls(urlv_current), Collected)[u] = Copies(newv, u)
                      - (IF u \in Urls(urlv_current) /\ u \in Urls(newv) THEN 1 ELSE 0)
                /\ u \in Removed(Urls(urlv_current), Collected)
                      <=> u \in Urls(urlv_current) \ Urls(newv)
           /\ Adopted(Urls(urlv_current), Collected) = Urls(newv)
<1>1. newv \in Seq(String) /\ Urls(urlv_current) \subseteq Url /\ Urls(newv) \subseteq Url
  BY WalkPlaces DEF TypeOK, Urls
<1>2. \A u \in Url : /\ Collected[u] = Copies(newv, u) /\ Copies(newv, u) \in Nat
                     /\ Copies(newv, u) = 0 <=> u \notin Urls(newv)
  BY <1>1, CopiesType DEF Collected
<1>. DEFINE cur == Urls(urlv_current)
            new == Urls(newv)
<1>. HIDE DEF cur, new
<1>3. /\ cur \subseteq Url /\ new \subseteq Url
      /\ \A u \in Url : /\ Collected[u] \in Nat
                        /\ Collected[u] = 0 <=> u \notin new
  BY <1>1, <1>2 DEF cur, new
<1>4. ASSUME NEW u \in Url
      PROVE  Added(cur, Collected)[u] = Collected[u] - (IF u \in cur /\ u \in new THEN 1 ELSE 0)
  <2>1. Added(cur, Collected)[u] =
            IF u \in cur /\ Collected[u] > 0 THEN Collected[u] - 1 ELSE Collected[u]
    BY DEF Added
  <2>2. Collected[u] \in Nat /\ (Collected[u] > 0 <=> u \in new)
    BY <1>3
  <2>. QED
    BY <2>1, <2>2
<1>5. Removed(cur, Collected) = cur \ new
  BY <1>3 DEF Removed
<1>6. Adopted(cur, Collected) = new
  <2>1. ASSUME NEW u \in Url
        PROVE  u \in cur \/ Added(cur, Collected)[u] > 0 <=> u \in cur \/ u \in new
    <3>1. Collected[u] \in Nat /\ (Collected[u] = 0 <=> u \notin new)
      BY <1>3
    <3>2. Added(cur, Collected)[u] = Collected[u] - (IF u \in cur /\ u \in new THEN 1 ELSE 0)
      BY <1>4
    <3>. QED
      BY <3>1, <3>2
  <2>. QED
    BY <1>3, <1>5, <2>1 DEF Adopted
<1>. QED
  BY <1>2, <1>4, <1>5, <1>6 DEF cur, new

\* _compute_deltas finds what zco_reconnect of ZConnect adds and removes, URL by
\* URL, copies included.
THEOREM TheDeltaIsExact == Spec => []DeltaIsExact
<1>1. WalkInv => DeltaIsExact
  <2>. SUFFICES ASSUME WalkInv, step = "merge", NEW u \in Url
       PROVE  /\ Copies(add, u) = Added(Urls(urlv_current), Collected)[u]
              /\ Copies(rem, u) = IF u \in Removed(Urls(urlv_current), Collected) THEN 1 ELSE 0
    BY DEF DeltaIsExact
  <2>1. /\ TypeOK /\ Counted /\ newv \in Seq(String) /\ add \in Seq(String)
        /\ i = Len(urlv_current) + 1 /\ j = Len(newv) + 1
    BY DEF WalkInv, TypeOK, Ends
  <2>2. /\ 1..(i - 1) = DOMAIN urlv_current /\ 1..(j - 1) = DOMAIN newv
    BY <2>1, WalkPlaces
  <2>3. Passed = Urls(urlv_current)
    BY <2>2 DEF Passed, Urls
  <2>4. Cardinality({l \in 1..(j - 1) : newv[l].url = u}) = Copies(newv, u)
    BY <2>2 DEF Copies
  <2>5. /\ Copies(rem, u) = (IF u \in Passed \ Urls(newv) THEN 1 ELSE 0)
        /\ Copies(to_delete, u) = (IF u \in Passed \cap Urls(newv) THEN 1 ELSE 0)
        /\ Copies(add, u) + Copies(to_delete, u) = Copies(newv, u)
    BY <2>1, <2>4 DEF Counted
  <2>6. Copies(add, u) \in Nat /\ Copies(newv, u) \in Nat
    BY <2>1, CopiesType
  <2>7. /\ Copies(add, u) = Copies(newv, u)
              - (IF u \in Urls(urlv_current) /\ u \in Urls(newv) THEN 1 ELSE 0)
        /\ Copies(rem, u) = IF u \in Urls(urlv_current) \ Urls(newv) THEN 1 ELSE 0
    BY <2>3, <2>5, <2>6
  <2>. QED
    BY <2>1, <2>7, DeltasOfLists
<1>. QED
  BY <1>1, AlwaysWalkInv, PTL

\* No string that is current has been freed, and none is freed twice.
THEOREM NoStringDangles == Spec => []NothingDangles
<1>1. WalkInv => NothingDangles
  <2>. SUFFICES ASSUME WalkInv PROVE NothingDangles
    OBVIOUS
  <2>1. Strings(urlv_current) \cap freed = {}
    BY DEF WalkInv, CurrentIsAlive
  <2>2. CASE step = "idle"
    BY <2>1, <2>2, NothingInEmpty DEF WalkInv, Ends, NothingDangles
  <2>3. CASE step # "idle"
    BY <2>1, <2>3, WhereFrom DEF NothingDangles, String
  <2>. QED
    BY <2>2, <2>3
<1>. QED
  BY <1>1, AlwaysWalkInv, PTL

\* A round that is adopted leaves what ZConnect says it does: its own URLs, each
\* once and in order, whatever was current (_merge_deltas, _pack_result).
THEOREM TheRoundIsAdopted == Spec => AdoptsTheRound
<1>1. ASSUME WalkInv, [Next]_vars, step = "merge", step' = "idle"
      PROVE  /\ Urls(urlv_current') = Adopted(Urls(urlv_current), Collected)
             /\ Urls(urlv_current') = Urls(newv)
             /\ \A k, l \in DOMAIN urlv_current' :
                   k < l => urlv_current'[k].url < urlv_current'[l].url
  <2>1. Merge
    BY <1>1 DEF Next, vars, Extract, Lost, New, Same, WalkEnds
  <2>2. Adopted(Urls(urlv_current), Collected) = Urls(newv)
    BY <1>1, DeltasOfLists DEF WalkInv
  <2>. QED
    BY <1>1, <2>1, <2>2, MergeAdopts DEF CurrentInOrder
<1>. QED
  BY <1>1, AlwaysWalkInv, PTL DEF Spec, AdoptsTheRound
=============================================================================
