--------------------------- MODULE ZConnectProofs ---------------------------
(***************************************************************************)
(* Theorems about ZConnect, for every set of types, nodes and URLs and any *)
(* number of connection losses.                                            *)
(***************************************************************************)
EXTENDS ZConnect, FiniteSetTheorems, SequenceTheorems, TLAPS

-----------------------------------------------------------------------------
(* The queues: what the operations on them do to Hits, the number of       *)
(* messages of a set K, and so to Count and AsksFor.                       *)

Standing(q, K) == {i \in DOMAIN q : q[i] \in K}

Hits(q, K) == Cardinality(Standing(q, K))

\* What Count and AsksFor count.
Kind(op, t) == {m \in Message : m.op = op /\ m.type = t}

Asks(t, u) == {m \in Kind("get", t) : \E n \in m.names : NodeUrl[n] = u}

\* The messages of a set in a queue are finitely many.
LEMMA HitsType ==
    ASSUME NEW q \in Seq(Message), NEW K
    PROVE  IsFiniteSet(Standing(q, K)) /\ Hits(q, K) \in Nat
<1>1. DOMAIN q = 1..Len(q) /\ Len(q) \in Nat
  BY LenProperties
<1>2. IsFiniteSet(1..Len(q))
  BY <1>1, FS_Interval
<1>3. Standing(q, K) \in SUBSET (1..Len(q))
  BY <1>1 DEF Standing
<1>4. IsFiniteSet(Standing(q, K))
  BY <1>2, <1>3, FS_Subset
<1>. QED
  BY <1>4, FS_CardinalityType DEF Hits

\* A queue without a message of the set counts none.
LEMMA HitsNone ==
    ASSUME NEW q, NEW K, \A m \in Range(q) : m \notin K
    PROVE  Hits(q, K) = 0
<1>1. Standing(q, K) = {}
  BY DEF Standing, Range
<1>. QED
  BY <1>1, FS_EmptySet DEF Hits

\* Appending a message adds one when it is of the set.
LEMMA HitsAppend ==
    ASSUME NEW q \in Seq(Message), NEW m \in Message, NEW K
    PROVE  Hits(Append(q, m), K) = Hits(q, K) + (IF m \in K THEN 1 ELSE 0)
<1>. DEFINE a == Append(q, m)
<1>1. /\ a \in Seq(Message)
      /\ Len(a) = Len(q) + 1
      /\ \A i \in 1..Len(q) : a[i] = q[i]
      /\ a[Len(q) + 1] = m
  BY AppendProperties
<1>2. DOMAIN q = 1..Len(q) /\ Len(q) \in Nat /\ DOMAIN a = 1..(Len(q) + 1)
  BY <1>1, LenProperties
<1>3. IsFiniteSet(Standing(q, K)) /\ Hits(q, K) \in Nat
  BY HitsType
<1>. HIDE DEF a
<1>4. Len(q) + 1 \notin Standing(q, K)
  BY <1>2 DEF Standing
<1>5. CASE m \in K
  <2>1. Standing(a, K) = Standing(q, K) \cup {Len(q) + 1}
    BY <1>1, <1>2, <1>5 DEF Standing
  <2>2. Hits(a, K) = Hits(q, K) + 1
    BY <1>3, <1>4, <2>1, FS_AddElement DEF Hits
  <2>. QED
    BY <1>5, <2>2 DEF a
<1>6. CASE m \notin K
  <2>1. Standing(a, K) = Standing(q, K)
    BY <1>1, <1>2, <1>6 DEF Standing
  <2>2. Hits(a, K) = Hits(q, K) + 0
    BY <1>3, <2>1 DEF Hits
  <2>. QED
    BY <1>6, <2>2 DEF a
<1>. QED
  BY <1>5, <1>6

\* The hits of a concatenation are the sum of the hits.
LEMMA HitsConcat ==
    ASSUME NEW q \in Seq(Message), NEW r \in Seq(Message), NEW K
    PROVE  Hits(q \o r, K) = Hits(q, K) + Hits(r, K)
<1>. DEFINE c == q \o r
            n == Len(q)
            P == Standing(q, K)
            R == Standing(r, K)
            Moved == {i \in Standing(c, K) : i > n}
            shift == [i \in R |-> i + n]
<1>1. /\ c \in Seq(Message)
      /\ Len(c) = n + Len(r)
      /\ \A i \in 1..(n + Len(r)) : c[i] = IF i <= n THEN q[i] ELSE r[i - n]
  BY ConcatProperties
<1>2. /\ DOMAIN q = 1..n /\ n \in Nat
      /\ DOMAIN r = 1..Len(r) /\ Len(r) \in Nat
      /\ DOMAIN c = 1..(n + Len(r))
  BY <1>1, LenProperties
<1>3. /\ IsFiniteSet(P) /\ Hits(q, K) \in Nat
      /\ IsFiniteSet(R) /\ Hits(r, K) \in Nat
  BY HitsType
<1>. HIDE DEF c, n
<1>4. Standing(c, K) = P \cup Moved /\ P \cap Moved = {}
  BY <1>1, <1>2 DEF Standing
<1>5. shift \in Bijection(R, Moved)
  <2>1. shift \in [R -> Moved]
    <3>. SUFFICES ASSUME NEW i \in R PROVE i + n \in Moved
      OBVIOUS
    <3>1. i \in DOMAIN r /\ r[i] \in K
      BY DEF Standing
    <3>2. i + n \in 1..(n + Len(r)) /\ i + n > n /\ (i + n) - n = i
      BY <1>2, <3>1
    <3>3. c[i + n] = r[i]
      BY <1>1, <1>2, <3>1, <3>2
    <3>. QED
      BY <1>2, <3>1, <3>2, <3>3 DEF Standing
  <2>2. \A i, j \in R : shift[i] = shift[j] => i = j
    <3>1. R \subseteq Int
      BY <1>2 DEF Standing
    <3>. QED
      BY <1>2, <3>1
  <2>3. \A k \in Moved : \E i \in R : shift[i] = k
    <3>. SUFFICES ASSUME NEW k \in Moved PROVE \E i \in R : i + n = k
      OBVIOUS
    <3>1. k - n \in DOMAIN r /\ (k - n) + n = k /\ c[k] = r[k - n]
      BY <1>1, <1>2 DEF Standing
    <3>2. k - n \in R
      BY <3>1 DEF Standing
    <3>. QED
      BY <3>1, <3>2
  <2>. QED
    BY <2>1, <2>2, <2>3 DEF Bijection, Injection, Surjection, IsInjective
<1>6. IsFiniteSet(Moved) /\ Cardinality(Moved) = Cardinality(R)
  BY <1>3, <1>5, FS_Bijection DEF ExistsBijection
<1>7. Cardinality(P \cup Moved) = Cardinality(P) + Cardinality(Moved) - Cardinality({})
  BY <1>3, <1>4, <1>6, FS_Union
<1>8. Cardinality(P) = Hits(q, K) /\ Cardinality(R) = Hits(r, K)
  BY DEF Hits
<1>9. Hits(c, K) = Cardinality(P \cup Moved)
  BY <1>4 DEF Hits
<1>. HIDE DEF P, R, Moved
<1>10. Hits(c, K) = Hits(q, K) + Hits(r, K)
  BY <1>3, <1>6, <1>7, <1>8, <1>9, FS_EmptySet
<1>. QED
  BY <1>10 DEF c

\* A queue that starts with m: m counts when it is of the set.
LEMMA HitsCons ==
    ASSUME NEW K, NEW e \in Seq(Message), Hits(e, K) = 0,
           NEW m \in Message, NEW r \in Seq(Message)
    PROVE  Hits(Append(e, m) \o r, K) = Hits(r, K) + (IF m \in K THEN 1 ELSE 0)
<1>. DEFINE h == Append(e, m)
            one == IF m \in K THEN 1 ELSE 0
<1>1. h \in Seq(Message)
  BY AppendProperties
<1>2. Hits(h, K) = Hits(e, K) + one
  BY HitsAppend
<1>3. Hits(r, K) \in Nat /\ one \in Nat
  BY HitsType
<1>. HIDE DEF h, one
<1>4. Hits(h \o r, K) = Hits(h, K) + Hits(r, K)
  BY <1>1, HitsConcat
<1>5. Hits(h \o r, K) = Hits(r, K) + one
  BY <1>2, <1>3, <1>4
<1>. QED
  BY <1>5 DEF h, one

\* Taking the head off a queue takes one off when the head is of the set.
LEMMA HitsTail ==
    ASSUME NEW q \in Seq(Message), q # <<>>
    PROVE  /\ Head(q) \in Message
           /\ Tail(q) \in Seq(Message)
           /\ \A K : Hits(q, K) = Hits(Tail(q), K) + (IF Head(q) \in K THEN 1 ELSE 0)
<1>. DEFINE e == <<>>
            m == Head(q)
            r == Tail(q)
<1>1. m \in Message /\ r \in Seq(Message) /\ e \in Seq(Message)
  BY HeadTailProperties, EmptySeq
<1>2. q = Append(e, m) \o r
  BY <1>1
<1>3. Range(e) = {}
  BY DEF Range
<1>4. \A K : Hits(e, K) = 0
  BY <1>3, HitsNone
<1>. HIDE DEF e, m, r
<1>5. ASSUME NEW K
      PROVE  Hits(Append(e, m) \o r, K) = Hits(r, K) + (IF m \in K THEN 1 ELSE 0)
  <2>1. Hits(e, K) = 0
    BY <1>4
  <2>. QED
    BY <1>1, <2>1, HitsCons
<1>6. \A K : Hits(q, K) = Hits(r, K) + (IF m \in K THEN 1 ELSE 0)
  BY <1>2, <1>5
<1>. QED
  BY <1>1, <1>6 DEF m, r

\* Count counts the messages of one kind.
LEMMA CountHits ==
    ASSUME NEW q \in Seq(Message), NEW op, NEW t
    PROVE  Places(q, op, t) = Standing(q, Kind(op, t)) /\ Count(q, op, t) = Hits(q, Kind(op, t))
<1>1. \A i \in DOMAIN q : q[i] \in Message
  BY ElementOfSeq, LenProperties
<1>2. Places(q, op, t) = Standing(q, Kind(op, t))
  BY <1>1 DEF Places, Standing, Kind
<1>. QED
  BY <1>2 DEF Count, Hits

\* The messages of one kind in a queue are finitely many (ZooKeeper, Count).
LEMMA CountType ==
    ASSUME NEW q \in Seq(Message), NEW op, NEW t
    PROVE  /\ IsFiniteSet(Places(q, op, t))
           /\ Cardinality(Places(q, op, t)) \in Nat
           /\ Count(q, op, t) \in Nat
  BY CountHits, HitsType DEF Count

\* An empty queue counts nothing (ZooKeeper, Count).
LEMMA CountEmpty ==
    ASSUME NEW op, NEW t
    PROVE  Count(<<>>, op, t) = 0
<1>1. Places(<<>>, op, t) = {}
  BY DEF Places
<1>. QED
  BY <1>1, FS_EmptySet DEF Count

\* Appending a message adds one to the count of its own kind only.
LEMMA CountAppend ==
    ASSUME NEW q \in Seq(Message), NEW m \in Message, NEW op, NEW t
    PROVE  Count(Append(q, m), op, t) =
               Count(q, op, t) + (IF m.op = op /\ m.type = t THEN 1 ELSE 0)
<1>1. Append(q, m) \in Seq(Message)
  BY AppendProperties
<1>2. m \in Kind(op, t) <=> m.op = op /\ m.type = t
  BY DEF Kind
<1>. DEFINE K == Kind(op, t)
<1>3. Count(Append(q, m), op, t) = Hits(Append(q, m), K) /\ Count(q, op, t) = Hits(q, K)
  BY <1>1, CountHits
<1>4. Hits(Append(q, m), K) = Hits(q, K) + (IF m \in K THEN 1 ELSE 0)
  BY HitsAppend
<1>. QED
  BY <1>2, <1>3, <1>4

\* The count of a concatenation is the sum of the counts.
LEMMA CountConcat ==
    ASSUME NEW q \in Seq(Message), NEW r \in Seq(Message), NEW op, NEW t
    PROVE  Count(q \o r, op, t) = Count(q, op, t) + Count(r, op, t)
<1>. DEFINE K == Kind(op, t)
<1>1. q \o r \in Seq(Message)
  BY ConcatProperties
<1>2. /\ Count(q \o r, op, t) = Hits(q \o r, K)
      /\ Count(q, op, t) = Hits(q, K) /\ Count(r, op, t) = Hits(r, K)
  BY <1>1, CountHits
<1>3. Hits(q \o r, K) = Hits(q, K) + Hits(r, K)
  BY HitsConcat
<1>. QED
  BY <1>2, <1>3

\* Taking the head off a queue takes one off the count of its own kind only.
LEMMA CountTail ==
    ASSUME NEW q \in Seq(Message), q # <<>>
    PROVE  /\ Head(q) \in Message
           /\ Tail(q) \in Seq(Message)
           /\ \A op, t : Count(q, op, t) =
                  Count(Tail(q), op, t)
                    + (IF Head(q).op = op /\ Head(q).type = t THEN 1 ELSE 0)
<1>1. /\ Head(q) \in Message /\ Tail(q) \in Seq(Message)
      /\ \A K : Hits(q, K) = Hits(Tail(q), K) + (IF Head(q) \in K THEN 1 ELSE 0)
  BY HitsTail
<1>2. ASSUME NEW op, NEW t
      PROVE  Count(q, op, t) = Count(Tail(q), op, t)
               + (IF Head(q).op = op /\ Head(q).type = t THEN 1 ELSE 0)
  <2>. DEFINE K == Kind(op, t)
  <2>1. Head(q) \in K <=> Head(q).op = op /\ Head(q).type = t
    BY <1>1 DEF Kind
  <2>2. Count(q, op, t) = Hits(q, K) /\ Count(Tail(q), op, t) = Hits(Tail(q), K)
    BY <1>1, CountHits
  <2>3. Hits(q, K) = Hits(Tail(q), K) + (IF Head(q) \in K THEN 1 ELSE 0)
    BY <1>1
  <2>. QED
    BY <2>1, <2>2, <2>3
<1>. QED
  BY <1>1, <1>2

\* A list of the types of a set, in any order: one list request for each.
LEMMA ListsCount ==
    ASSUME NEW T \in SUBSET Type, IsFiniteSet(Type), NEW order \in Orders(T)
    PROVE  /\ Lists(order) \in Seq(Message)
           /\ \A t \in Type :
                 /\ Count(Lists(order), "list", t) = IF t \in T THEN 1 ELSE 0
                 /\ Count(Lists(order), "get", t) = 0
<1>. DEFINE n == Cardinality(T)
            l == Lists(order)
<1>1. IsFiniteSet(T) /\ n \in Nat
  BY FS_Subset, FS_CardinalityType
<1>. HIDE DEF n
<1>2. /\ order \in [1..n -> T]
      /\ \A i, j \in 1..n : order[i] = order[j] => i = j
      /\ \A t \in T : \E i \in 1..n : order[i] = t
  BY DEF Orders, Bijection, Injection, Surjection, IsInjective, n
<1>3. l = [i \in 1..n |-> Msg("list", order[i], {})]
  BY <1>2 DEF Lists
<1>4. \A i \in 1..n : /\ l[i] \in Message
                       /\ l[i].op = "list"
                       /\ l[i].type = order[i]
  BY <1>2, <1>3 DEF Msg, Message
<1>5. l \in [1..n -> Message]
  BY <1>3, <1>4
<1>6. l \in Seq(Message)
  BY <1>1, <1>5, SeqDef
<1>7. DOMAIN l = 1..n
  BY <1>3
<1>. HIDE DEF l
<1>8. ASSUME NEW t \in Type
      PROVE  /\ Count(l, "list", t) = IF t \in T THEN 1 ELSE 0
             /\ Count(l, "get", t) = 0
  <2>1. Places(l, "get", t) = {}
    BY <1>4, <1>7 DEF Places
  <2>2. CASE t \in T
    <3>1. PICK i \in 1..n : order[i] = t
      BY <1>2, <2>2
    <3>2. Places(l, "list", t) = {i}
      BY <1>2, <1>4, <1>7, <3>1 DEF Places
    <3>. QED
      BY <2>1, <2>2, <3>2, FS_Singleton, FS_EmptySet DEF Count
  <2>3. CASE t \notin T
    <3>1. Places(l, "list", t) = {}
      BY <1>2, <1>4, <1>7, <2>3 DEF Places
    <3>. QED
      BY <2>1, <2>3, <3>1, FS_EmptySet DEF Count
  <2>. QED
    BY <2>2, <2>3
<1>. QED
  BY <1>6, <1>8 DEF l

\* The gets of a set of nodes, in any order: as many as there are nodes.
LEMMA GetsCount ==
    ASSUME NEW S \in SUBSET Node, IsFiniteSet(Node), NEW order \in Orders(S),
           NEW k \in Type
    PROVE  /\ Gets(k, order) \in Seq(Message)
           /\ \A t \in Type :
                 /\ Count(Gets(k, order), "get", t) =
                        IF t = k THEN Cardinality(S) ELSE 0
                 /\ Count(Gets(k, order), "list", t) = 0
<1>. DEFINE n == Cardinality(S)
            g == Gets(k, order)
<1>1. IsFiniteSet(S) /\ n \in Nat
  BY FS_Subset, FS_CardinalityType
<1>. HIDE DEF n
<1>2. order \in [1..n -> S]
  BY DEF Orders, Bijection, Injection, n
<1>3. g = [i \in 1..n |-> Msg("get", k, {order[i]})]
  BY <1>2 DEF Gets
<1>4. \A i \in 1..n : g[i] \in Message /\ g[i].op = "get" /\ g[i].type = k
  BY <1>2, <1>3 DEF Msg, Message
<1>5. g \in [1..n -> Message]
  BY <1>3, <1>4
<1>6. g \in Seq(Message)
  BY <1>1, <1>5, SeqDef
<1>7. DOMAIN g = 1..n
  BY <1>3
<1>. HIDE DEF g
<1>8. ASSUME NEW t \in Type
      PROVE  /\ Count(g, "get", t) = IF t = k THEN n ELSE 0
             /\ Count(g, "list", t) = 0
  <2>1. Places(g, "list", t) = {}
    BY <1>4, <1>7 DEF Places
  <2>2. CASE t = k
    <3>1. Places(g, "get", t) = 1..n
      BY <1>4, <1>7, <2>2 DEF Places
    <3>. QED
      <4>1. Cardinality(1..n) = n
        BY <1>1, FS_Interval
      <4>. QED
        BY <2>1, <2>2, <3>1, <4>1, FS_EmptySet DEF Count
  <2>3. CASE t # k
    <3>1. Places(g, "get", t) = {}
      BY <1>4, <1>7, <2>3 DEF Places
    <3>. QED
      BY <2>1, <2>3, <3>1, FS_EmptySet DEF Count
  <2>. QED
    BY <2>2, <2>3
<1>. QED
  BY <1>6, <1>8 DEF g, n

\* Losing what is in flight turns every list and get into an error completion
\* of the same kind: none appears, none disappears.
LEMMA LostCount ==
    ASSUME NEW q \in Seq(Message)
    PROVE  /\ AllLost(q) \in Seq(Message)
           /\ \A t : /\ Count(AllLost(q), "list", t) = Count(q, "list", t)
                     /\ Count(AllLost(q), "get", t) = Count(q, "get", t)
<1>. DEFINE r == AllLost(q)
<1>1. /\ DOMAIN q = 1..Len(q) /\ Len(q) \in Nat
      /\ \A i \in 1..Len(q) : q[i] \in Message
  BY LenProperties, ElementOfSeq
<1>2. DOMAIN r = DOMAIN q
  BY DEF AllLost
<1>3. \A m \in Message : /\ Lost(m) \in Message
                         /\ Lost(m).type = m.type
                         /\ Lost(m).op = IF m.op = "watch" THEN "blank" ELSE m.op
  BY DEF Lost, Message
<1>4. \A i \in 1..Len(q) : r[i] = Lost(q[i])
  BY <1>1 DEF AllLost
<1>. HIDE DEF r
<1>5. r \in [1..Len(q) -> Message]
  <2>1. r = [i \in DOMAIN q |-> r[i]]
    BY DEF r, AllLost
  <2>. QED
    BY <1>1, <1>3, <1>4, <2>1
<1>6. r \in Seq(Message)
  BY <1>1, <1>5, SeqDef
<1>7. ASSUME NEW t
      PROVE  /\ Places(r, "list", t) = Places(q, "list", t)
             /\ Places(r, "get", t) = Places(q, "get", t)
  <2>1. ASSUME NEW i \in 1..Len(q)
        PROVE  /\ r[i].type = q[i].type
               /\ r[i].op = "list" <=> q[i].op = "list"
               /\ r[i].op = "get" <=> q[i].op = "get"
    BY <1>1, <1>3, <1>4
  <2>. QED
    BY <1>1, <1>2, <2>1 DEF Places
<1>8. \A t : /\ Count(r, "list", t) = Count(q, "list", t)
            /\ Count(r, "get", t) = Count(q, "get", t)
  BY <1>7 DEF Count
<1>. QED
  BY <1>6, <1>8 DEF r

\* Watch events are neither lists nor gets.
LEMMA EventsCount ==
    ASSUME NEW T \in SUBSET Type, IsFiniteSet(Type), NEW order \in Orders(T)
    PROVE  /\ Events(order) \in Seq(Message)
           /\ \A t \in Type : /\ Count(Events(order), "list", t) = 0
                             /\ Count(Events(order), "get", t) = 0
<1>. DEFINE n == Cardinality(T)
            e == Events(order)
<1>1. n \in Nat
  BY FS_Subset, FS_CardinalityType
<1>. HIDE DEF n
<1>2. order \in [1..n -> T]
  BY DEF Orders, Bijection, Injection, n
<1>3. e = [i \in 1..n |-> Msg("watch", order[i], {})]
  BY <1>2 DEF Events
<1>4. \A i \in 1..n : e[i] \in Message /\ e[i].op = "watch"
  BY <1>2, <1>3 DEF Msg, Message
<1>5. e \in [1..n -> Message]
  BY <1>3, <1>4
<1>6. e \in Seq(Message)
  BY <1>1, <1>5, SeqDef
<1>7. DOMAIN e = 1..n
  BY <1>3
<1>. HIDE DEF e
<1>8. \A t \in Type : Places(e, "list", t) = {} /\ Places(e, "get", t) = {}
  BY <1>4, <1>7 DEF Places
<1>9. \A t \in Type : Count(e, "list", t) = 0 /\ Count(e, "get", t) = 0
  BY <1>8, FS_EmptySet DEF Count
<1>. QED
  BY <1>6, <1>9 DEF e

-----------------------------------------------------------------------------
(* The discovery. *)

USE ZooKeeperAssumption, ZConnectAssumption

\* maybe_relist consumes list_wanted only where it is set.
LEMMA ConsumedType ==
    ASSUME NEW S, NEW T \in SUBSET S, S \subseteq Type,
           NEW wanted \in [Type -> Nat], NEW lists, NEW gets,
           T = Relisted(S, wanted, lists, gets)
    PROVE  Consumed(T, wanted) \in [Type -> Nat]
  BY DEF Consumed, Relisted

\* Sending one list per type of T, in any order.
LEMMA SendLists ==
    ASSUME NEW T \in SUBSET Type, NEW order \in Orders(T),
           NEW q \in Seq(Message)
    PROVE  /\ q \o Lists(order) \in Seq(Message)
           /\ \A t \in Type :
                /\ Count(q \o Lists(order), "list", t) =
                      Count(q, "list", t) + (IF t \in T THEN 1 ELSE 0)
                /\ Count(q \o Lists(order), "get", t) = Count(q, "get", t)
<1>. DEFINE l == Lists(order)
<1>1. /\ l \in Seq(Message)
      /\ \A t \in Type : /\ Count(l, "list", t) = IF t \in T THEN 1 ELSE 0
                         /\ Count(l, "get", t) = 0
  BY ListsCount
<1>. HIDE DEF l
<1>3. q \o l \in Seq(Message)
  BY <1>1, ConcatProperties
<1>4. \A op, t : Count(q \o l, op, t) = Count(q, op, t) + Count(l, op, t)
  BY <1>1, CountConcat
<1>5. \A op, t : Count(q, op, t) \in Nat
  BY CountType
<1>6. /\ q \o l \in Seq(Message)
      /\ \A t \in Type :
            /\ Count(q \o l, "list", t) = Count(q, "list", t) + (IF t \in T THEN 1 ELSE 0)
            /\ Count(q \o l, "get", t) = Count(q, "get", t)
  BY <1>1, <1>3, <1>4, <1>5
<1>. QED
  BY <1>6 DEF l

\* Sending two batches of requests.
LEMMA SendBoth ==
    ASSUME NEW q \in Seq(Message), NEW g \in Seq(Message), NEW l \in Seq(Message)
    PROVE  /\ q \o (g \o l) \in Seq(Message)
           /\ \A op, t : Count(q \o (g \o l), op, t) =
                 Count(q, op, t) + Count(g, op, t) + Count(l, op, t)
<1>. DEFINE both == g \o l
<1>1. both \in Seq(Message)
  BY ConcatProperties
<1>2. \A op, t : Count(both, op, t) = Count(g, op, t) + Count(l, op, t)
  BY CountConcat
<1>. HIDE DEF both
<1>3. q \o both \in Seq(Message)
  BY <1>1, ConcatProperties
<1>4. \A op, t : Count(q \o both, op, t) = Count(q, op, t) + Count(both, op, t)
  BY <1>1, CountConcat
<1>5. \A op, t : /\ Count(q, op, t) \in Nat /\ Count(g, op, t) \in Nat
                 /\ Count(l, op, t) \in Nat
  BY CountType
<1>6. \A op, t : Count(q \o both, op, t) =
         Count(q, op, t) + Count(g, op, t) + Count(l, op, t)
  BY <1>2, <1>4, <1>5
<1>. QED
  BY <1>3, <1>6 DEF both

\* What the handler of a watcher call leaves behind.
LEMMA ChangeStep ==
    ASSUME ZsTypeOK, NEW T \in SUBSET Type, NEW accepted \in BOOLEAN,
           on_list_change(T, accepted)
    PROVE  /\ ZsTypeOK'
           /\ Changed(T) \subseteq T
           /\ get_pending' = get_pending
           /\ \A t \in Type : list_pending'[t] =
                 IF t \in Changed(T) /\ accepted THEN list_pending[t] + 1
                                                 ELSE list_pending[t]
<1>. DEFINE C == Changed(T)
            W == Wanting(T)
<1>1. C \subseteq T /\ C = Relisted(T, W, list_pending, get_pending)
  BY DEF Changed, Relisted
<1>2. W \in [Type -> Nat]
  BY DEF Wanting, ZsTypeOK
<1>3. /\ list_wanted' = Consumed(C, W)
      /\ restart_list(C, list_pending, urlv_new, accepted)
      /\ UNCHANGED <<registered, get_pending, peerVars>>
  BY DEF on_list_change
<1>. HIDE DEF C, W
<1>4. list_wanted' \in [Type -> Nat]
  BY <1>1, <1>2, <1>3, ConsumedType
<1>5. /\ list_pending' \in [Type -> Nat]
      /\ urlv_new' \in [Type -> [Url -> Nat]]
      /\ \A t \in Type : list_pending'[t] =
            IF t \in C /\ accepted THEN list_pending[t] + 1 ELSE list_pending[t]
  <2>1. C \in SUBSET Type
    BY <1>1
  <2>2. list_pending \in [Type -> Nat] /\ urlv_new \in [Type -> [Url -> Nat]]
    BY DEF ZsTypeOK
  <2>3. restart_list(C, list_pending, urlv_new, accepted)
    BY <1>3
  <2>. QED
    BY <2>1, <2>2, <2>3 DEF restart_list, NoUrls
<1>6. ZsTypeOK'
  BY <1>3, <1>4, <1>5 DEF ZsTypeOK, peerVars
<1>. QED
  BY <1>1, <1>3, <1>5, <1>6 DEF C

\* What adopting the URLs of a round leaves behind: adopted URLs keep an entry.
LEMMA ReconnectStep ==
    ASSUME NEW t \in Type, NEW new \in [Url -> Nat],
           urlv_current \in [Type -> SUBSET Url], connect_real \in [Url -> Nat],
           links \subseteq Url, zco_reconnect(t, new)
    PROVE  /\ urlv_current' \in [Type -> SUBSET Url]
           /\ connect_real' \in [Url -> Nat]
           /\ links' \subseteq Url
<1>1. CASE new = NoUrls
  BY <1>1 DEF zco_reconnect, peerVars
<1>2. CASE new # NoUrls
  <2>. DEFINE add == Added(urlv_current[t], new)
              rem == Removed(urlv_current[t], new)
  <2>1. add \in [Url -> Nat] /\ rem \subseteq Url
    BY DEF Added, Removed
  <2>2. /\ ApplyDelta(add, rem)
        /\ urlv_current' = [urlv_current EXCEPT
               ![t] = (@ \cup {u \in Url : add[u] > 0}) \ rem]
    BY <1>2 DEF zco_reconnect, Adopted
  <2>. HIDE DEF add, rem
  <2>3. connect_real' \in [Url -> Nat] /\ links' \subseteq Url
    BY <2>1, <2>2 DEF ApplyDelta
  <2>. QED
    BY <2>1, <2>2, <2>3
<1>. QED
  BY <1>1, <1>2

-----------------------------------------------------------------------------
(* Type correctness needs to know that no completion comes unannounced, so *)
(* the two are proved together.                                            *)

TypeAndPending == TypeOK /\ PendingMatchesInFlight

\* A fresh handle and a fresh socket: nothing counted, nothing in flight.
LEMMA InitTypeAndPending == Init => TypeAndPending
<1>. SUFFICES ASSUME Init PROVE TypeAndPending
  OBVIOUS
<1>1. ZkTypeOK
  BY DEF Init, ZkInit, ZkTypeOK
<1>2. ZsTypeOK
  BY DEF Init, ZsTypeOK, NoUrls
<1>3. PendingMatchesInFlight
  BY CountEmpty DEF Init, ZkInit, PendingMatchesInFlight
<1>. QED
  BY <1>1, <1>2, <1>3 DEF TypeAndPending, TypeOK

\* The environment never touches the counts of lists and gets in flight.
LEMMA EnvironmentStep ==
    ASSUME TypeAndPending, Environment
    PROVE  TypeAndPending'
<1>. USE DEF TypeAndPending
<1>1. ZsTypeOK' /\ list_pending' = list_pending /\ get_pending' = get_pending
  BY DEF Environment, zsVars, peerVars, TypeOK, ZsTypeOK
<1>2. ASSUME NEW t \in Type, CreateType(t)
      PROVE  ZkTypeOK' /\ PendingMatchesInFlight'
  BY <1>1, <1>2 DEF CreateType, TypeOK, ZkTypeOK, PendingMatchesInFlight
<1>3. ASSUME NEW k \in Type, FireWatch(k)
      PROVE  /\ watching' \subseteq Type
             /\ replies' \in Seq(Message)
             /\ \A t \in Type : /\ Count(replies', "list", t) = Count(replies, "list", t)
                               /\ Count(replies', "get", t) = Count(replies, "get", t)
  <2>. DEFINE w == Msg("watch", k, {})
  <2>1. w \in Message /\ w.op = "watch"
    BY DEF Msg, Message
  <2>2. watching \subseteq Type /\ replies \in Seq(Message)
    BY DEF TypeOK, ZkTypeOK
  <2>3. /\ watching' = watching \ {k}
        /\ replies' = Append(replies, w) \/ replies' = replies
    BY <1>3 DEF FireWatch
  <2>. HIDE DEF w
  <2>4. Append(replies, w) \in Seq(Message)
    BY <2>1, <2>2, AppendProperties
  <2>5. \A op, t : Count(Append(replies, w), op, t) =
            Count(replies, op, t) + (IF w.op = op /\ w.type = t THEN 1 ELSE 0)
    BY <2>1, <2>2, CountAppend
  <2>6. \A op, t : Count(replies, op, t) \in Nat
    BY <2>2, CountType
  <2>7. ASSUME NEW t \in Type
        PROVE  /\ Count(Append(replies, w), "list", t) = Count(replies, "list", t)
               /\ Count(Append(replies, w), "get", t) = Count(replies, "get", t)
    <3>1. /\ Count(Append(replies, w), "list", t) = Count(replies, "list", t) + 0
          /\ Count(Append(replies, w), "get", t) = Count(replies, "get", t) + 0
      BY <2>1, <2>5
    <3>. QED
      BY <2>6, <3>1
  <2>. QED
    BY <2>2, <2>3, <2>4, <2>7
<1>4. ASSUME NEW n \in Node, Publish(n) \/ Expire(n)
      PROVE  ZkTypeOK' /\ PendingMatchesInFlight'
  <2>1. NodeType[n] \in Type /\ FireWatch(NodeType[n]) /\ requests' = requests
    BY <1>4 DEF Publish, Expire
  <2>2. PendingMatchesInFlight'
    BY <1>1, <1>3, <2>1 DEF PendingMatchesInFlight
  <2>3. ZkTypeOK'
    BY <1>3, <1>4, <2>1 DEF Publish, Expire, TypeOK, ZkTypeOK
  <2>. QED
    BY <2>2, <2>3
<1>5. ASSUME ServerAnswer
      PROVE  ZkTypeOK' /\ PendingMatchesInFlight'
  <2>. DEFINE m == Head(requests)
              a == Answer(m)
              r == Tail(requests)
  <2>1. requests \in Seq(Message) /\ requests # <<>> /\ replies \in Seq(Message)
    BY <1>5 DEF ServerAnswer, TypeOK, ZkTypeOK
  <2>2. /\ m \in Message /\ r \in Seq(Message)
        /\ \A op, t : Count(requests, op, t) =
               Count(r, op, t) + (IF m.op = op /\ m.type = t THEN 1 ELSE 0)
    BY <2>1, CountTail
  <2>3. replies' = Append(replies, a) /\ requests' = r
    BY <1>5 DEF ServerAnswer
  <2>4. watching' \subseteq Type
    BY <1>5, <2>2 DEF ServerAnswer, TypeOK, ZkTypeOK, Message
  <2>. HIDE DEF m, r
  <2>5. a \in Message /\ a.op = m.op /\ a.type = m.type
    BY <2>2 DEF Answer, Message, LiveNodes
  <2>. HIDE DEF a
  <2>6. Append(replies, a) \in Seq(Message)
    BY <2>1, <2>5, AppendProperties
  <2>7. \A op, t : Count(Append(replies, a), op, t) =
            Count(replies, op, t) + (IF a.op = op /\ a.type = t THEN 1 ELSE 0)
    BY <2>1, <2>5, CountAppend
  <2>8. \A op, t : Count(replies, op, t) \in Nat /\ Count(r, op, t) \in Nat
    BY <2>1, <2>2, CountType
  <2>9. \A op, t : Count(requests', op, t) + Count(replies', op, t)
                     = Count(requests, op, t) + Count(replies, op, t)
    <3>. SUFFICES ASSUME NEW op, NEW t
                  PROVE  Count(requests', op, t) + Count(replies', op, t)
                           = Count(requests, op, t) + Count(replies, op, t)
      OBVIOUS
    <3>. DEFINE one == IF m.op = op /\ m.type = t THEN 1 ELSE 0
    <3>1. one \in Nat
      OBVIOUS
    <3>2. /\ Count(requests, op, t) = Count(r, op, t) + one
          /\ Count(Append(replies, a), op, t) = Count(replies, op, t) + one
      BY <2>2, <2>5, <2>7
    <3>. HIDE DEF one
    <3>. QED
      BY <2>3, <2>8, <3>1, <3>2
  <2>10. PendingMatchesInFlight'
    BY <1>1, <2>9 DEF PendingMatchesInFlight
  <2>11. ZkTypeOK'
    BY <1>5, <2>2, <2>3, <2>4, <2>6 DEF ServerAnswer, TypeOK, ZkTypeOK
  <2>. QED
    BY <2>10, <2>11
<1>. QED
  BY <1>1, <1>2, <1>4, <1>5 DEF Environment, TypeOK

\* Taking a message off the queue of replies.
LEMMA ReceiveStep ==
    ASSUME ZkTypeOK, NEW op, Receive(op)
    PROVE  /\ Head(replies) \in Message
           /\ Head(replies).op = op
           /\ replies' \in Seq(Message)
           /\ \A t \in Type :
                /\ Count(replies, "list", t) = Count(replies', "list", t)
                     + (IF op = "list" /\ Head(replies).type = t THEN 1 ELSE 0)
                /\ Count(replies, "get", t) = Count(replies', "get", t)
                     + (IF op = "get" /\ Head(replies).type = t THEN 1 ELSE 0)
<1>1. replies \in Seq(Message) /\ replies # <<>>
  BY DEF Receive, ZkTypeOK
<1>2. replies' = Tail(replies) /\ Head(replies).op = op
  BY DEF Receive
<1>3. /\ Head(replies) \in Message
      /\ Tail(replies) \in Seq(Message)
      /\ \A o, t : Count(replies, o, t) = Count(Tail(replies), o, t)
            + (IF Head(replies).op = o /\ Head(replies).type = t THEN 1 ELSE 0)
  BY <1>1, CountTail
<1>. QED
  BY <1>2, <1>3

\* Registration lists every type once and counts every list.
LEMMA RegisterStep ==
    ASSUME TypeAndPending, Register
    PROVE  TypeAndPending'
<1>. USE DEF TypeAndPending, TypeOK
<1>1. PICK order \in Orders(Type) : requests' = requests \o Lists(order)
  BY DEF Register, Send
<1>2. requests \in Seq(Message)
  BY DEF ZkTypeOK
<1>3. /\ requests' \in Seq(Message)
      /\ \A t \in Type : /\ Count(requests', "list", t) = Count(requests, "list", t) + 1
                         /\ Count(requests', "get", t) = Count(requests, "get", t)
  <2>. DEFINE T == Type
  <2>1. T \in SUBSET Type /\ order \in Orders(T)
    OBVIOUS
  <2>. HIDE DEF T
  <2>2. /\ requests' \in Seq(Message)
        /\ \A t \in Type :
             /\ Count(requests', "list", t) =
                   Count(requests, "list", t) + (IF t \in T THEN 1 ELSE 0)
             /\ Count(requests', "get", t) = Count(requests, "get", t)
    BY <1>1, <1>2, <2>1, SendLists
  <2>. QED
    BY <2>2 DEF T
<1>4. /\ list_pending' = [t \in Type |-> list_pending[t] + 1]
      /\ urlv_new' = [t \in Type |-> NoUrls]
      /\ get_pending' = get_pending /\ replies' = replies
  BY DEF Register, restart_list
<1>5. ZsTypeOK'
  BY <1>4 DEF Register, ZsTypeOK, NoUrls, peerVars
<1>6. ZkTypeOK'
  BY <1>3 DEF Register, ZkTypeOK
<1>7. replies \in Seq(Message)
  BY DEF ZkTypeOK
<1>8. \A op, t : Count(requests, op, t) \in Nat /\ Count(replies, op, t) \in Nat
  BY <1>2, <1>7, CountType
<1>9. PendingMatchesInFlight'
  BY <1>3, <1>4, <1>8 DEF PendingMatchesInFlight
<1>. QED
  BY <1>5, <1>6, <1>9

\* on_list_completion takes one list off and counts one get per child it asks for.
LEMMA DeliverListStep ==
    ASSUME TypeAndPending, DeliverList
    PROVE  TypeAndPending'
<1>. USE DEF TypeAndPending, TypeOK
<1>. DEFINE m == Head(replies)
            k == m.type
            children == IF m.rc = "ZOK" THEN m.names ELSE {}
            lists == [list_pending EXCEPT ![k] = @ - 1]
            gets == [get_pending EXCEPT ![k] = @ + Cardinality(children)]
            again == Relisted({k}, list_wanted, lists, gets)
<1>1. /\ Receive("list")
      /\ armed' = IF m.rc = "ZOK" THEN armed \cup {k} ELSE armed
      /\ get_pending' = gets
      /\ list_wanted' = Consumed(again, list_wanted)
      /\ restart_list(again, lists, urlv_new, TRUE)
      /\ \E corder \in Orders(children), order \in Orders(again) :
            Send(Gets(k, corder) \o Lists(order))
      /\ UNCHANGED <<registered, peerVars>>
  BY DEF DeliverList
<1>2. /\ m \in Message
      /\ replies' \in Seq(Message)
      /\ \A t \in Type :
            /\ Count(replies, "list", t) =
                  Count(replies', "list", t) + (IF k = t THEN 1 ELSE 0)
            /\ Count(replies, "get", t) = Count(replies', "get", t)
  <2>1. /\ m \in Message
        /\ replies' \in Seq(Message)
        /\ \A t \in Type :
            /\ Count(replies, "list", t) = Count(replies', "list", t)
                  + (IF "list" = "list" /\ k = t THEN 1 ELSE 0)
            /\ Count(replies, "get", t) = Count(replies', "get", t)
                  + (IF "list" = "get" /\ k = t THEN 1 ELSE 0)
    BY <1>1, ReceiveStep
  <2>2. \A t \in Type : Count(replies', "get", t) \in Nat
    BY <2>1, CountType
  <2>. QED
    BY <2>1, <2>2
<1>3. k \in Type /\ children \in SUBSET Node
  BY <1>2 DEF Message
<1>4. Cardinality(children) \in Nat
  BY <1>3, FS_Subset, FS_CardinalityType
<1>5. /\ requests \in Seq(Message) /\ replies \in Seq(Message)
      /\ list_pending \in [Type -> Nat] /\ get_pending \in [Type -> Nat]
      /\ list_wanted \in [Type -> Nat] /\ urlv_new \in [Type -> [Url -> Nat]]
  BY DEF ZkTypeOK, ZsTypeOK
<1>6. \A op, t : Count(requests, op, t) \in Nat /\ Count(replies', op, t) \in Nat
  BY <1>2, <1>5, CountType
<1>7. \A t \in Type :
        /\ list_pending[t] = Count(requests, "list", t) + Count(replies, "list", t)
        /\ get_pending[t] = Count(requests, "get", t) + Count(replies, "get", t)
  BY DEF PendingMatchesInFlight
<1>. HIDE DEF m, k, children
<1>8. lists \in [Type -> Nat] /\ gets \in [Type -> Nat]
  <2>1. list_pending[k] = Count(requests, "list", k) + Count(replies', "list", k) + 1
    BY <1>2, <1>3, <1>6, <1>7
  <2>2. list_pending[k] - 1 \in Nat
    BY <1>3, <1>6, <2>1
  <2>3. get_pending[k] + Cardinality(children) \in Nat
    BY <1>3, <1>4, <1>5
  <2>. QED
    BY <1>5, <2>2, <2>3
<1>9. \A t \in Type :
        /\ lists[t] = Count(requests, "list", t) + Count(replies', "list", t)
        /\ gets[t] = Count(requests, "get", t) + Count(replies', "get", t)
                       + (IF t = k THEN Cardinality(children) ELSE 0)
  <2>. TAKE t \in Type
  <2>1. CASE t = k
    <3>1. lists[t] = list_pending[t] - 1 /\ gets[t] = get_pending[t] + Cardinality(children)
      BY <1>5, <2>1
    <3>2. /\ Count(replies, "list", t) = Count(replies', "list", t) + 1
          /\ Count(replies, "get", t) = Count(replies', "get", t)
      BY <1>2, <2>1
    <3>. QED
      BY <1>4, <1>6, <1>7, <2>1, <3>1, <3>2
  <2>2. CASE t # k
    <3>1. lists[t] = list_pending[t] /\ gets[t] = get_pending[t]
      BY <1>5, <2>2
    <3>2. /\ Count(replies, "list", t) = Count(replies', "list", t) + 0
          /\ Count(replies, "get", t) = Count(replies', "get", t)
      BY <1>2, <2>2
    <3>. QED
      BY <1>6, <1>7, <2>2, <3>1, <3>2
  <2>. QED
    BY <2>1, <2>2
<1>. HIDE DEF lists, gets
<1>10. again \subseteq {k} /\ again \in SUBSET Type
  BY <1>3 DEF Relisted
<1>11. Consumed(again, list_wanted) \in [Type -> Nat]
  BY <1>3, <1>5 DEF Consumed, Relisted
<1>. HIDE DEF again
<1>12. /\ list_pending' \in [Type -> Nat]
       /\ urlv_new' \in [Type -> [Url -> Nat]]
       /\ \A t \in Type : list_pending'[t] = lists[t] + (IF t \in again THEN 1 ELSE 0)
  BY <1>1, <1>5, <1>8 DEF restart_list, NoUrls
<1>13. PICK corder \in Orders(children), order \in Orders(again) :
          requests' = requests \o (Gets(k, corder) \o Lists(order))
  BY <1>1 DEF Send
<1>14. /\ requests' \in Seq(Message)
       /\ \A t \in Type :
             /\ Count(requests', "list", t) =
                   Count(requests, "list", t) + (IF t \in again THEN 1 ELSE 0)
             /\ Count(requests', "get", t) =
                   Count(requests, "get", t) + (IF t = k THEN Cardinality(children) ELSE 0)
  <2>. DEFINE g == Gets(k, corder)
              l == Lists(order)
  <2>1. /\ g \in Seq(Message)
        /\ \A t \in Type : /\ Count(g, "get", t) =
                                 IF t = k THEN Cardinality(children) ELSE 0
                           /\ Count(g, "list", t) = 0
    BY <1>3, GetsCount
  <2>2. /\ l \in Seq(Message)
        /\ \A t \in Type : /\ Count(l, "list", t) = IF t \in again THEN 1 ELSE 0
                           /\ Count(l, "get", t) = 0
    BY <1>10, ListsCount
  <2>3. requests' = requests \o (g \o l)
    BY <1>13
  <2>. HIDE DEF g, l
  <2>4. /\ requests \o (g \o l) \in Seq(Message)
        /\ \A op, t : Count(requests \o (g \o l), op, t) =
              Count(requests, op, t) + Count(g, op, t) + Count(l, op, t)
    BY <1>5, <2>1, <2>2, SendBoth
  <2>5. \A t \in Type :
          /\ Count(requests', "list", t) =
                Count(requests, "list", t) + 0 + Count(l, "list", t)
          /\ Count(requests', "get", t) =
                Count(requests, "get", t) + Count(g, "get", t) + 0
    BY <2>1, <2>2, <2>3, <2>4
  <2>6. \A t \in Type : /\ Count(g, "get", t) \in Nat /\ Count(l, "list", t) \in Nat
    BY <2>1, <2>2, CountType
  <2>. QED
    BY <1>6, <2>1, <2>2, <2>3, <2>4, <2>5, <2>6
<1>15. ZsTypeOK'
  BY <1>1, <1>8, <1>11, <1>12 DEF ZsTypeOK, peerVars
<1>16. ZkTypeOK'
  BY <1>1, <1>2, <1>3, <1>14 DEF ZkTypeOK, Receive
<1>17. PendingMatchesInFlight'
  <2>. SUFFICES ASSUME NEW t \in Type
       PROVE  /\ list_pending'[t] = Count(requests', "list", t) + Count(replies', "list", t)
              /\ get_pending'[t] = Count(requests', "get", t) + Count(replies', "get", t)
    BY DEF PendingMatchesInFlight
  <2>. DEFINE relisted == IF t \in again THEN 1 ELSE 0
              got == IF t = k THEN Cardinality(children) ELSE 0
  <2>1. relisted \in Nat /\ got \in Nat
    BY <1>4
  <2>2. /\ list_pending'[t] = lists[t] + relisted
        /\ Count(requests', "list", t) = Count(requests, "list", t) + relisted
    BY <1>12, <1>14
  <2>3. /\ get_pending'[t] = Count(requests, "get", t) + Count(replies', "get", t) + got
        /\ Count(requests', "get", t) = Count(requests, "get", t) + got
    BY <1>1, <1>9, <1>14
  <2>4. lists[t] = Count(requests, "list", t) + Count(replies', "list", t)
    BY <1>9
  <2>. HIDE DEF relisted, got
  <2>. QED
    BY <1>6, <2>1, <2>2, <2>3, <2>4
<1>. QED
  BY <1>15, <1>16, <1>17

\* on_get takes one get off, and counts the list it may start.
LEMMA DeliverGetStep ==
    ASSUME TypeAndPending, DeliverGet
    PROVE  TypeAndPending'
<1>. USE DEF TypeAndPending, TypeOK
<1>. DEFINE m == Head(replies)
            k == m.type
            gets == [get_pending EXCEPT ![k] = @ - 1]
            kept == {n \in m.names : m.rc = "ZOK" /\ Compatible(n)}
            new == [urlv_new EXCEPT ![k] = [u \in Url |->
                      IF \E n \in kept : NodeUrl[n] = u THEN @[u] + 1 ELSE @[u]]]
            over == RoundOver(k, list_wanted, list_pending, gets)
            again == Relisted({k}, list_wanted, list_pending, gets)
            left == IF over THEN [new EXCEPT ![k] = NoUrls] ELSE new
<1>1. /\ Receive("get")
      /\ get_pending' = gets
      /\ IF over THEN zco_reconnect(k, new[k]) ELSE UNCHANGED peerVars
      /\ list_wanted' = Consumed(again, list_wanted)
      /\ restart_list(again, list_pending, left, TRUE)
      /\ \E order \in Orders(again) : Send(Lists(order))
      /\ UNCHANGED <<armed, registered>>
  BY DEF DeliverGet
<1>2. /\ m \in Message
      /\ replies' \in Seq(Message)
      /\ \A t \in Type :
            /\ Count(replies, "list", t) = Count(replies', "list", t)
            /\ Count(replies, "get", t) =
                  Count(replies', "get", t) + (IF k = t THEN 1 ELSE 0)
  <2>1. /\ m \in Message
        /\ replies' \in Seq(Message)
        /\ \A t \in Type :
            /\ Count(replies, "list", t) = Count(replies', "list", t)
                  + (IF "get" = "list" /\ k = t THEN 1 ELSE 0)
            /\ Count(replies, "get", t) = Count(replies', "get", t)
                  + (IF "get" = "get" /\ k = t THEN 1 ELSE 0)
    BY <1>1, ReceiveStep
  <2>2. \A t \in Type : Count(replies', "list", t) \in Nat
    BY <2>1, CountType
  <2>. QED
    BY <2>1, <2>2
<1>3. k \in Type
  BY <1>2 DEF Message
<1>4. /\ requests \in Seq(Message)
      /\ list_pending \in [Type -> Nat] /\ get_pending \in [Type -> Nat]
      /\ list_wanted \in [Type -> Nat] /\ urlv_new \in [Type -> [Url -> Nat]]
  BY DEF ZkTypeOK, ZsTypeOK
<1>5. \A op, t : Count(requests, op, t) \in Nat /\ Count(replies', op, t) \in Nat
  BY <1>2, <1>4, CountType
<1>6. \A t \in Type :
        /\ list_pending[t] = Count(requests, "list", t) + Count(replies, "list", t)
        /\ get_pending[t] = Count(requests, "get", t) + Count(replies, "get", t)
  BY DEF PendingMatchesInFlight
<1>7. new \in [Type -> [Url -> Nat]] /\ left \in [Type -> [Url -> Nat]]
  <2>. HIDE DEF kept, k, over
  <2>1. new \in [Type -> [Url -> Nat]]
    BY <1>3, <1>4
  <2>. HIDE DEF new
  <2>. QED
    BY <1>3, <2>1 DEF NoUrls
<1>. HIDE DEF m, k, kept, new, left
<1>8. gets \in [Type -> Nat]
  <2>1. get_pending[k] = Count(requests, "get", k) + Count(replies', "get", k) + 1
    BY <1>2, <1>3, <1>5, <1>6
  <2>2. get_pending[k] - 1 \in Nat
    BY <1>3, <1>5, <2>1
  <2>. QED
    BY <1>4, <2>2
<1>9. \A t \in Type :
        gets[t] = Count(requests, "get", t) + Count(replies', "get", t)
  <2>. TAKE t \in Type
  <2>1. CASE t = k
    <3>1. gets[t] = get_pending[t] - 1
      BY <1>4, <2>1
    <3>2. Count(replies, "get", t) = Count(replies', "get", t) + 1
      BY <1>2, <2>1
    <3>. QED
      BY <1>5, <1>6, <3>1, <3>2
  <2>2. CASE t # k
    <3>1. gets[t] = get_pending[t]
      BY <1>4, <2>2
    <3>2. Count(replies, "get", t) = Count(replies', "get", t) + 0
      BY <1>2, <2>2
    <3>. QED
      BY <1>5, <1>6, <3>1, <3>2
  <2>. QED
    BY <2>1, <2>2
<1>. HIDE DEF gets, over
<1>10. again \in SUBSET Type
  BY <1>3 DEF Relisted
<1>11. Consumed(again, list_wanted) \in [Type -> Nat]
  BY <1>3, <1>4 DEF Consumed, Relisted
<1>. HIDE DEF again
<1>12. /\ list_pending' \in [Type -> Nat]
       /\ urlv_new' \in [Type -> [Url -> Nat]]
       /\ \A t \in Type :
             list_pending'[t] = list_pending[t] + (IF t \in again THEN 1 ELSE 0)
  BY <1>1, <1>4, <1>7 DEF restart_list, NoUrls
<1>13. PICK order \in Orders(again) : requests' = requests \o Lists(order)
  BY <1>1 DEF Send
<1>14. /\ requests' \in Seq(Message)
       /\ \A t \in Type :
             /\ Count(requests', "list", t) =
                   Count(requests, "list", t) + (IF t \in again THEN 1 ELSE 0)
             /\ Count(requests', "get", t) = Count(requests, "get", t)
  <2>1. requests \in Seq(Message)
    BY <1>4
  <2>2. /\ requests \o Lists(order) \in Seq(Message)
        /\ \A t \in Type :
             /\ Count(requests \o Lists(order), "list", t) =
                   Count(requests, "list", t) + (IF t \in again THEN 1 ELSE 0)
             /\ Count(requests \o Lists(order), "get", t) = Count(requests, "get", t)
    BY <1>10, <2>1, SendLists
  <2>. QED
    BY <1>13, <2>2
<1>15. /\ urlv_current' \in [Type -> SUBSET Url]
       /\ connect_real' \in [Url -> Nat]
       /\ links' \subseteq Url
  <2>1. /\ urlv_current \in [Type -> SUBSET Url]
        /\ connect_real \in [Url -> Nat]
        /\ links \subseteq Url
    BY DEF ZsTypeOK
  <2>2. new[k] \in [Url -> Nat]
    BY <1>3, <1>7
  <2>3. CASE over
    <3>. DEFINE collected == new[k]
    <3>1. zco_reconnect(k, collected) /\ collected \in [Url -> Nat]
      BY <1>1, <2>2, <2>3
    <3>. HIDE DEF collected
    <3>. QED
      BY <1>3, <2>1, <3>1, ReconnectStep
  <2>4. CASE ~over
    BY <1>1, <2>1, <2>4 DEF peerVars
  <2>. QED
    BY <2>3, <2>4
<1>16. ZsTypeOK'
  BY <1>1, <1>8, <1>11, <1>12, <1>15 DEF ZsTypeOK
<1>17. ZkTypeOK'
  BY <1>1, <1>2, <1>14 DEF ZkTypeOK, Receive
<1>18. PendingMatchesInFlight'
  <2>. SUFFICES ASSUME NEW t \in Type
       PROVE  /\ list_pending'[t] = Count(requests', "list", t) + Count(replies', "list", t)
              /\ get_pending'[t] = Count(requests', "get", t) + Count(replies', "get", t)
    BY DEF PendingMatchesInFlight
  <2>. DEFINE relisted == IF t \in again THEN 1 ELSE 0
  <2>1. relisted \in Nat
    OBVIOUS
  <2>2. /\ list_pending'[t] = list_pending[t] + relisted
        /\ Count(requests', "list", t) = Count(requests, "list", t) + relisted
    BY <1>12, <1>14
  <2>3. list_pending[t] = Count(requests, "list", t) + Count(replies', "list", t)
    BY <1>2, <1>6
  <2>4. get_pending'[t] = Count(requests', "get", t) + Count(replies', "get", t)
    BY <1>1, <1>9, <1>14
  <2>. HIDE DEF relisted
  <2>. QED
    BY <1>5, <2>1, <2>2, <2>3, <2>4
<1>. QED
  BY <1>16, <1>17, <1>18

\* A watcher call adds to list_pending what it adds to the requests.
LEMMA ChangeSends ==
    ASSUME ZkTypeOK, ZsTypeOK, NEW T \in SUBSET Type, on_list_change(T, TRUE),
           NEW order \in Orders(Changed(T))
    PROVE  /\ ZsTypeOK'
           /\ get_pending' = get_pending
           /\ Lists(order) \in Seq(Message)
           /\ \A t \in Type :
                /\ list_pending'[t] = list_pending[t] + Count(Lists(order), "list", t)
                /\ Count(Lists(order), "get", t) = 0
<1>. DEFINE C == Changed(T)
            l == Lists(order)
<1>1. TRUE \in BOOLEAN
  OBVIOUS
<1>2. /\ ZsTypeOK'
      /\ C \subseteq T
      /\ get_pending' = get_pending
      /\ \A t \in Type : list_pending'[t] =
            IF t \in C /\ TRUE THEN list_pending[t] + 1 ELSE list_pending[t]
  BY <1>1, ChangeStep
<1>3. C \in SUBSET Type /\ order \in Orders(C)
  BY <1>2
<1>. HIDE DEF C
<1>4. /\ l \in Seq(Message)
      /\ \A t \in Type : /\ Count(l, "list", t) = IF t \in C THEN 1 ELSE 0
                         /\ Count(l, "get", t) = 0
  BY <1>3, ListsCount
<1>5. list_pending \in [Type -> Nat]
  BY DEF ZsTypeOK
<1>. HIDE DEF l
<1>6. \A t \in Type : list_pending'[t] = list_pending[t] + Count(l, "list", t)
  <2>. TAKE t \in Type
  <2>1. CASE t \in C
    BY <1>2, <1>4, <1>5, <2>1
  <2>2. CASE t \notin C
    BY <1>2, <1>4, <1>5, <2>2
  <2>. QED
    BY <2>1, <2>2
<1>. QED
  BY <1>2, <1>4, <1>6 DEF l

\* A watch event consumes a reply that is neither a list nor a get.
LEMMA DeliverWatchStep ==
    ASSUME TypeAndPending, DeliverWatch
    PROVE  TypeAndPending'
<1>. USE DEF TypeAndPending, TypeOK
<1>. DEFINE k == Head(replies).type
            T == {k}
<1>1. /\ Receive("watch")
      /\ armed' = armed \ T
      /\ on_list_change(T, TRUE)
      /\ \E order \in Orders(Changed(T)) : requests' = requests \o Lists(order)
  BY DEF DeliverWatch, Send
<1>2. /\ k \in Type
      /\ replies' \in Seq(Message)
      /\ \A t \in Type :
            /\ Count(replies, "list", t) = Count(replies', "list", t)
            /\ Count(replies, "get", t) = Count(replies', "get", t)
  <2>1. /\ Head(replies) \in Message
        /\ replies' \in Seq(Message)
        /\ \A t \in Type :
            /\ Count(replies, "list", t) = Count(replies', "list", t)
                  + (IF "watch" = "list" /\ k = t THEN 1 ELSE 0)
            /\ Count(replies, "get", t) = Count(replies', "get", t)
                  + (IF "watch" = "get" /\ k = t THEN 1 ELSE 0)
    BY <1>1, ReceiveStep
  <2>2. \A op, t : Count(replies', op, t) \in Nat
    BY <2>1, CountType
  <2>. QED
    BY <2>1, <2>2 DEF Message
<1>3. T \in SUBSET Type
  BY <1>2
<1>. HIDE DEF k, T
<1>4. PICK order \in Orders(Changed(T)) : requests' = requests \o Lists(order)
  BY <1>1
<1>. DEFINE l == Lists(order)
<1>5. /\ ZsTypeOK'
      /\ get_pending' = get_pending
      /\ l \in Seq(Message)
      /\ \A t \in Type : /\ list_pending'[t] = list_pending[t] + Count(l, "list", t)
                         /\ Count(l, "get", t) = 0
  BY <1>1, <1>3, ChangeSends
<1>6. requests \in Seq(Message) /\ replies \in Seq(Message)
  BY DEF ZkTypeOK
<1>7. requests' = requests \o l
  BY <1>4
<1>. HIDE DEF l
<1>8. requests \o l \in Seq(Message)
  BY <1>5, <1>6, ConcatProperties
<1>9. \A op, t : Count(requests \o l, op, t) = Count(requests, op, t) + Count(l, op, t)
  BY <1>5, <1>6, CountConcat
<1>10. \A op, t : /\ Count(requests, op, t) \in Nat /\ Count(replies, op, t) \in Nat
                  /\ Count(l, op, t) \in Nat
  BY <1>5, <1>6, CountType
<1>11. PendingMatchesInFlight'
  <2>. SUFFICES ASSUME NEW t \in Type
       PROVE  /\ list_pending'[t] = Count(requests', "list", t) + Count(replies', "list", t)
              /\ get_pending'[t] = Count(requests', "get", t) + Count(replies', "get", t)
    BY DEF PendingMatchesInFlight
  <2>1. /\ list_pending[t] = Count(requests, "list", t) + Count(replies, "list", t)
        /\ get_pending[t] = Count(requests, "get", t) + Count(replies, "get", t)
    BY DEF PendingMatchesInFlight
  <2>2. /\ Count(requests', "list", t) = Count(requests, "list", t) + Count(l, "list", t)
        /\ Count(requests', "get", t) = Count(requests, "get", t) + 0
    BY <1>5, <1>7, <1>9
  <2>3. /\ list_pending'[t] = list_pending[t] + Count(l, "list", t)
        /\ get_pending'[t] = get_pending[t]
    BY <1>5
  <2>4. /\ Count(replies, "list", t) = Count(replies', "list", t)
        /\ Count(replies, "get", t) = Count(replies', "get", t)
    BY <1>2
  <2>. QED
    BY <1>10, <2>1, <2>2, <2>3, <2>4
<1>12. ZkTypeOK'
  BY <1>1, <1>2, <1>7, <1>8 DEF ZkTypeOK, Receive
<1>. QED
  BY <1>5, <1>11, <1>12

\* A lost watch event is neither a list nor a get.
LEMMA SkipLostStep ==
    ASSUME TypeAndPending, SkipLost
    PROVE  TypeAndPending'
<1>. USE DEF TypeAndPending, TypeOK
<1>1. Receive("blank") /\ UNCHANGED <<armed, requests, zsVars>>
  BY DEF SkipLost
<1>2. /\ replies' \in Seq(Message)
      /\ \A t \in Type :
            /\ Count(replies, "list", t) = Count(replies', "list", t)
            /\ Count(replies, "get", t) = Count(replies', "get", t)
  <2>1. /\ replies' \in Seq(Message)
        /\ \A t \in Type :
            /\ Count(replies, "list", t) = Count(replies', "list", t)
                  + (IF "blank" = "list" /\ Head(replies).type = t THEN 1 ELSE 0)
            /\ Count(replies, "get", t) = Count(replies', "get", t)
                  + (IF "blank" = "get" /\ Head(replies).type = t THEN 1 ELSE 0)
    BY <1>1, ReceiveStep
  <2>2. \A op, t : Count(replies', op, t) \in Nat
    BY <2>1, CountType
  <2>. QED
    BY <2>1, <2>2
<1>3. ZkTypeOK'
  BY <1>1, <1>2 DEF ZkTypeOK, Receive
<1>4. ZsTypeOK'
  BY <1>1 DEF ZsTypeOK, zsVars
<1>5. PendingMatchesInFlight'
  BY <1>1, <1>2 DEF PendingMatchesInFlight, zsVars
<1>. QED
  BY <1>3, <1>4, <1>5

\* A loss turns what is in flight, the watchers' lists included, into errors.
LEMMA DisconnectStep ==
    ASSUME TypeAndPending, Disconnect
    PROVE  TypeAndPending'
<1>. USE DEF TypeAndPending, TypeOK
<1>. DEFINE T == IF session = "connected" THEN armed ELSE {}
<1>1. /\ on_list_change(T, TRUE)
      /\ \E order \in Orders(Changed(T)) : LoseConnection(Lists(order))
  BY DEF Disconnect
<1>2. T \in SUBSET Type
  BY DEF ZkTypeOK
<1>. HIDE DEF T
<1>3. PICK order \in Orders(Changed(T)) : LoseConnection(Lists(order))
  BY <1>1
<1>. DEFINE l == Lists(order)
            all == replies \o (requests \o l)
<1>4. /\ ZsTypeOK'
      /\ get_pending' = get_pending
      /\ l \in Seq(Message)
      /\ \A t \in Type : /\ list_pending'[t] = list_pending[t] + Count(l, "list", t)
                         /\ Count(l, "get", t) = 0
  BY <1>1, <1>2, ChangeSends
<1>5. requests \in Seq(Message) /\ replies \in Seq(Message)
  BY DEF ZkTypeOK
<1>6. requests' = <<>> /\ replies' = AllLost(all)
  BY <1>3 DEF LoseConnection
<1>. HIDE DEF l
<1>7. /\ all \in Seq(Message)
      /\ \A op, t : Count(all, op, t) =
            Count(replies, op, t) + Count(requests, op, t) + Count(l, op, t)
  BY <1>4, <1>5, SendBoth
<1>8. \A op, t : /\ Count(requests, op, t) \in Nat /\ Count(replies, op, t) \in Nat
                 /\ Count(l, op, t) \in Nat
  BY <1>4, <1>5, CountType
<1>. HIDE DEF all
<1>9. /\ replies' \in Seq(Message)
      /\ \A t : /\ Count(replies', "list", t) = Count(all, "list", t)
                /\ Count(replies', "get", t) = Count(all, "get", t)
  BY <1>6, <1>7, LostCount
<1>10. \A op, t : Count(requests', op, t) = 0
  BY <1>6, CountEmpty
<1>11. PendingMatchesInFlight'
  <2>. SUFFICES ASSUME NEW t \in Type
       PROVE  /\ list_pending'[t] = Count(requests', "list", t) + Count(replies', "list", t)
              /\ get_pending'[t] = Count(requests', "get", t) + Count(replies', "get", t)
    BY DEF PendingMatchesInFlight
  <2>1. /\ list_pending[t] = Count(requests, "list", t) + Count(replies, "list", t)
        /\ get_pending[t] = Count(requests, "get", t) + Count(replies, "get", t)
    BY DEF PendingMatchesInFlight
  <2>. QED
    BY <1>4, <1>7, <1>8, <1>9, <1>10, <2>1
<1>12. ZkTypeOK'
  <2>1. requests' \in Seq(Message)
    BY <1>6, EmptySeq
  <2>2. drops' \in 0..MaxDrops
    BY <1>3 DEF LoseConnection, ZkTypeOK
  <2>. QED
    BY <1>3, <1>9, <2>1, <2>2 DEF LoseConnection, ZkTypeOK
<1>. QED
  BY <1>4, <1>11, <1>12

\* A new session adds watch events and the lists of the watchers it wakes.
LEMMA ReconnectSessionStep ==
    ASSUME TypeAndPending, Reconnect
    PROVE  TypeAndPending'
<1>. USE DEF TypeAndPending, TypeOK
<1>1. PICK order \in Orders(Changed(armed)) : ResumeSession(Lists(order))
  BY DEF Reconnect
<1>. DEFINE l == Lists(order)
            T == armed \ watching
<1>2. /\ armed \in SUBSET Type /\ T \in SUBSET Type
      /\ requests \in Seq(Message) /\ replies \in Seq(Message)
  BY DEF ZkTypeOK
<1>3. /\ ZsTypeOK'
      /\ get_pending' = get_pending
      /\ l \in Seq(Message)
      /\ \A t \in Type : /\ list_pending'[t] = list_pending[t] + Count(l, "list", t)
                         /\ Count(l, "get", t) = 0
  BY <1>2, ChangeSends DEF Reconnect
<1>4. PICK sent \in Orders(T) : replies' = Events(sent)
  BY <1>1 DEF ResumeSession
<1>5. replies = <<>> /\ requests' = requests \o l
  BY <1>1 DEF ResumeSession, Send
<1>. HIDE DEF l, T
<1>6. /\ replies' \in Seq(Message)
      /\ \A t \in Type : /\ Count(replies', "list", t) = 0
                         /\ Count(replies', "get", t) = 0
  BY <1>2, <1>4, EventsCount
<1>7. \A op, t : Count(replies, op, t) = 0
  BY <1>5, CountEmpty
<1>8. requests \o l \in Seq(Message)
  BY <1>2, <1>3, ConcatProperties
<1>9. \A op, t : Count(requests \o l, op, t) = Count(requests, op, t) + Count(l, op, t)
  BY <1>2, <1>3, CountConcat
<1>10. \A op, t : Count(requests, op, t) \in Nat /\ Count(l, op, t) \in Nat
  BY <1>2, <1>3, CountType
<1>11. PendingMatchesInFlight'
  <2>. SUFFICES ASSUME NEW t \in Type
       PROVE  /\ list_pending'[t] = Count(requests', "list", t) + Count(replies', "list", t)
              /\ get_pending'[t] = Count(requests', "get", t) + Count(replies', "get", t)
    BY DEF PendingMatchesInFlight
  <2>1. /\ list_pending[t] = Count(requests, "list", t) + Count(replies, "list", t)
        /\ get_pending[t] = Count(requests, "get", t) + Count(replies, "get", t)
    BY DEF PendingMatchesInFlight
  <2>. QED
    BY <1>3, <1>5, <1>6, <1>7, <1>9, <1>10, <2>1
<1>12. ZkTypeOK'
  BY <1>1, <1>5, <1>6, <1>8 DEF ResumeSession, ZkTypeOK
<1>. QED
  BY <1>3, <1>11, <1>12

\* Once the session has expired the lists are refused and none is counted.
LEMMA SessionExpiredStep ==
    ASSUME TypeAndPending, SessionExpired
    PROVE  TypeAndPending'
<1>. USE DEF TypeAndPending, TypeOK
<1>1. EndSession /\ on_list_change(armed, FALSE)
  BY DEF SessionExpired
<1>2. armed \in SUBSET Type /\ FALSE \in BOOLEAN
  BY DEF ZkTypeOK
<1>3. /\ ZsTypeOK'
      /\ get_pending' = get_pending
      /\ \A t \in Type : list_pending'[t] =
            IF t \in Changed(armed) /\ FALSE THEN list_pending[t] + 1
                                              ELSE list_pending[t]
  BY <1>1, <1>2, ChangeStep
<1>4. ZkTypeOK'
  BY <1>1 DEF EndSession, ZkTypeOK
<1>5. PendingMatchesInFlight'
  BY <1>1, <1>3 DEF EndSession, PendingMatchesInFlight
<1>. QED
  BY <1>3, <1>4, <1>5

\* The inductive step, by cases on the action.
LEMMA NextTypeAndPending == TypeAndPending /\ [Next]_vars => TypeAndPending'
<1>. SUFFICES ASSUME TypeAndPending, [Next]_vars PROVE TypeAndPending'
  OBVIOUS
<1>1. CASE Environment
  BY <1>1, EnvironmentStep
<1>2. CASE Register
  BY <1>2, RegisterStep
<1>3. CASE Deliver
  BY <1>3, DeliverListStep, DeliverGetStep, DeliverWatchStep, SkipLostStep DEF Deliver
<1>4. CASE Disconnect
  BY <1>4, DisconnectStep
<1>5. CASE Reconnect
  BY <1>5, ReconnectSessionStep
<1>6. CASE SessionExpired
  BY <1>6, SessionExpiredStep
<1>7. CASE UNCHANGED vars
  BY <1>7 DEF vars, zkVars, zsVars, peerVars, TypeAndPending, TypeOK, ZkTypeOK,
              ZsTypeOK, PendingMatchesInFlight
<1>. QED
  BY <1>1, <1>2, <1>3, <1>4, <1>5, <1>6, <1>7 DEF Next

\* The counters agree with what is in flight in every reachable state.
LEMMA TypeAndPendingHolds == Spec => []TypeAndPending
  BY InitTypeAndPending, NextTypeAndPending, PTL DEF Spec

\* Every variable keeps its type, so no guint counter of zconnect_s wraps.
THEOREM TypeCorrect == Spec => []TypeOK
<1>1. TypeAndPending => TypeOK
  BY DEF TypeAndPending
<1>. QED
  BY <1>1, TypeAndPendingHolds, PTL

\* The counters of zconnect_s are what is in flight (restart_list, on_get and
\* on_list_completion, through every loss and refusal).
THEOREM PendingIsInFlight == Spec => []PendingMatchesInFlight
<1>1. TypeAndPending => PendingMatchesInFlight
  BY DEF TypeAndPending
<1>. QED
  BY <1>1, TypeAndPendingHolds, PTL

-----------------------------------------------------------------------------
(* Rounds. Before the registration nothing is asked and nothing is known.  *)

Unregistered ==
    ~registered =>
        /\ requests = <<>> /\ replies = <<>>
        /\ armed = {} /\ watching = {}
        /\ \A t \in Type : list_wanted[t] = 0 /\ list_pending[t] = 0 /\ get_pending[t] = 0

\* No type to list, no request.
LEMMA NothingToList ==
    ASSUME NEW order \in Orders({})
    PROVE  Lists(order) = <<>>
<1>1. Cardinality({}) = 0
  BY FS_EmptySet
<1>2. order \in [1..0 -> {}]
  BY <1>1 DEF Orders, Bijection, Injection
<1>3. Lists(order) = [i \in 1..0 |-> Msg("list", order[i], {})]
  BY <1>2 DEF Lists
<1>4. Lists(order) \in [1..0 -> Message]
  BY <1>3
<1>5. Lists(order) \in Seq(Message) /\ Len(Lists(order)) = 0
  BY <1>3, <1>4, SeqDef
<1>. QED
  BY <1>5, EmptySeq

\* Before its registration the socket has asked for nothing.
LEMMA InitUnregistered == Init => Unregistered
  BY DEF Init, ZkInit, Unregistered

\* Nothing but Register happens to a socket that is not registered.
LEMMA NextUnregistered == Unregistered /\ [Next]_vars => Unregistered'
<1>. SUFFICES ASSUME Unregistered, [Next]_vars, ~registered'
              PROVE  Unregistered'
  BY DEF Unregistered
<1>1. CASE Environment
  <2>1. registered' = registered /\ UNCHANGED zsVars
    BY <1>1 DEF Environment, zsVars
  <2>2. /\ requests = <<>> /\ replies = <<>> /\ armed = {} /\ watching = {}
    BY <2>1 DEF Unregistered
  <2>3. requests' = requests /\ replies' = replies /\ armed' = armed /\ watching' = watching
    <3>1. ASSUME NEW t \in Type, FireWatch(t)
          PROVE  watching' = watching /\ replies' = replies
      BY <2>2, <3>1 DEF FireWatch
    <3>2. ASSUME NEW n \in Node, Publish(n) \/ Expire(n)
          PROVE  requests' = requests /\ replies' = replies /\ armed' = armed
                   /\ watching' = watching
      <4>1. NodeType[n] \in Type /\ FireWatch(NodeType[n])
        BY <3>2 DEF Publish, Expire
      <4>. QED
        BY <3>1, <3>2, <4>1 DEF Publish, Expire
    <3>3. ~ServerAnswer
      BY <2>2 DEF ServerAnswer
    <3>. QED
      BY <1>1, <3>2, <3>3 DEF Environment, CreateType
  <2>. QED
    BY <2>1, <2>3 DEF Unregistered, zsVars
<1>2. ~Register
  BY DEF Register
<1>3. CASE Deliver
  <2>1. registered' = registered
    BY <1>3 DEF Deliver, DeliverList, DeliverGet, DeliverWatch, SkipLost, on_list_change,
                zsVars
  <2>2. replies = <<>>
    BY <2>1 DEF Unregistered
  <2>. QED
    BY <1>3, <2>2 DEF Deliver, DeliverList, DeliverGet, DeliverWatch, SkipLost, Receive
<1>4. ASSUME NEW T, T = {}, NEW accepted, on_list_change(T, accepted)
      PROVE  /\ registered' = registered
             /\ Changed(T) = {}
             /\ \A t \in Type : /\ list_wanted'[t] = list_wanted[t]
                               /\ list_pending'[t] = list_pending[t]
                               /\ get_pending'[t] = get_pending[t]
  <2>1. Changed(T) = {}
    BY <1>4 DEF Changed, Relisted
  <2>2. Wanting(T) = [t \in Type |-> list_wanted[t]]
    BY <1>4 DEF Wanting
  <2>3. /\ list_wanted' = Consumed(Changed(T), Wanting(T))
        /\ restart_list(Changed(T), list_pending, urlv_new, accepted)
        /\ registered' = registered /\ get_pending' = get_pending
    BY <1>4 DEF on_list_change
  <2>. QED
    BY <2>1, <2>2, <2>3 DEF Consumed, restart_list
<1>5. CASE Disconnect
  <2>. DEFINE T == IF session = "connected" THEN armed ELSE {}
  <2>1. on_list_change(T, TRUE)
    BY <1>5 DEF Disconnect
  <2>2. registered' = registered
    BY <2>1 DEF on_list_change
  <2>3. /\ T = {} /\ requests = <<>> /\ replies = <<>> /\ armed = {} /\ watching = {}
    BY <2>2 DEF Unregistered
  <2>4. /\ Changed(T) = {}
        /\ \A t \in Type : /\ list_wanted'[t] = list_wanted[t]
                          /\ list_pending'[t] = list_pending[t]
                          /\ get_pending'[t] = get_pending[t]
    BY <1>4, <2>1, <2>3
  <2>5. PICK order \in Orders({}) : LoseConnection(Lists(order))
    BY <1>5, <2>4 DEF Disconnect
  <2>6. Lists(order) = <<>>
    BY <2>5, NothingToList
  <2>7. AllLost(<<>>) = <<>>
    BY DEF AllLost
  <2>8. replies \o (requests \o Lists(order)) = <<>>
    BY <2>3, <2>6
  <2>9. requests' = <<>> /\ replies' = <<>> /\ armed' = {} /\ watching' = {}
    BY <2>3, <2>5, <2>7, <2>8 DEF LoseConnection
  <2>. QED
    BY <2>2, <2>4, <2>9 DEF Unregistered
<1>6. CASE Reconnect
  <2>1. on_list_change(armed, TRUE)
    BY <1>6 DEF Reconnect
  <2>2. registered' = registered
    BY <2>1 DEF on_list_change
  <2>3. /\ requests = <<>> /\ replies = <<>> /\ armed = {} /\ watching = {}
    BY <2>2 DEF Unregistered
  <2>4. /\ Changed(armed) = {}
        /\ \A t \in Type : /\ list_wanted'[t] = list_wanted[t]
                          /\ list_pending'[t] = list_pending[t]
                          /\ get_pending'[t] = get_pending[t]
    BY <1>4, <2>1, <2>3
  <2>5. PICK order \in Orders({}) : ResumeSession(Lists(order))
    BY <1>6, <2>4 DEF Reconnect
  <2>6. Lists(order) = <<>>
    BY <2>5, NothingToList
  <2>7. armed \ watching = {}
    BY <2>3
  <2>8. PICK sent \in Orders({}) : replies' = Events(sent)
    BY <2>5, <2>7 DEF ResumeSession
  <2>9. Events(sent) = <<>>
    <3>1. sent \in [1..0 -> {}]
      BY FS_EmptySet DEF Orders, Bijection, Injection
    <3>2. Events(sent) = [i \in 1..0 |-> Msg("watch", sent[i], {})]
      BY <3>1 DEF Events
    <3>. QED
      BY <3>2
  <2>10. requests' = <<>> /\ armed' = {} /\ watching' = {}
    BY <2>3, <2>5, <2>6 DEF ResumeSession, Send
  <2>. QED
    BY <2>2, <2>4, <2>8, <2>9, <2>10 DEF Unregistered
<1>7. CASE SessionExpired
  <2>1. on_list_change(armed, FALSE) /\ EndSession
    BY <1>7 DEF SessionExpired
  <2>2. registered' = registered
    BY <2>1 DEF on_list_change
  <2>3. /\ requests = <<>> /\ replies = <<>> /\ armed = {} /\ watching = {}
    BY <2>2 DEF Unregistered
  <2>4. \A t \in Type : /\ list_wanted'[t] = list_wanted[t]
                        /\ list_pending'[t] = list_pending[t]
                        /\ get_pending'[t] = get_pending[t]
    BY <1>4, <2>1, <2>3
  <2>. QED
    BY <2>1, <2>2, <2>4 DEF EndSession, Unregistered
<1>8. CASE UNCHANGED vars
  BY <1>8 DEF vars, zkVars, zsVars, Unregistered
<1>. QED
  BY <1>1, <1>2, <1>3, <1>5, <1>6, <1>7, <1>8 DEF Next

\* One round at a time, and a change noticed is a change to be looked at.
Rounds == OneRoundAtATime /\ NoLostWakeup

\* A watcher call keeps the rounds in order, whether its list is accepted or not.
LEMMA ChangeRounds ==
    ASSUME ZsTypeOK, Rounds, NEW T \in SUBSET Type, NEW accepted \in BOOLEAN,
           on_list_change(T, accepted)
    PROVE  Rounds'
<1>. SUFFICES ASSUME NEW t \in Type
     PROVE  /\ list_pending'[t] <= 1
            /\ list_pending'[t] = 1 => get_pending'[t] = 0
            /\ list_wanted'[t] > 0 => list_pending'[t] + get_pending'[t] > 0
  BY DEF Rounds, OneRoundAtATime, NoLostWakeup
<1>1. /\ list_wanted[t] \in Nat /\ list_pending[t] \in Nat /\ get_pending[t] \in Nat
      /\ list_pending[t] <= 1
      /\ list_pending[t] = 1 => get_pending[t] = 0
      /\ list_wanted[t] > 0 => list_pending[t] + get_pending[t] > 0
  BY DEF ZsTypeOK, Rounds, OneRoundAtATime, NoLostWakeup
<1>. DEFINE C == Changed(T)
            w == IF t \in T THEN list_wanted[t] + 1 ELSE list_wanted[t]
<1>2. /\ list_wanted' = Consumed(C, Wanting(T))
      /\ restart_list(C, list_pending, urlv_new, accepted)
      /\ get_pending' = get_pending
  BY DEF on_list_change
<1>3. Wanting(T)[t] = w
  BY DEF Wanting
<1>4. t \in C <=> (t \in T /\ get_pending[t] = 0 /\ list_pending[t] = 0 /\ w > 0)
  BY <1>3 DEF Changed, Relisted
<1>5. list_wanted'[t] = IF t \in C THEN w - 1 ELSE w
  BY <1>2, <1>3 DEF Consumed
<1>6. list_pending'[t] = IF t \in C /\ accepted THEN list_pending[t] + 1
                                                ELSE list_pending[t]
  BY <1>2 DEF restart_list
<1>. HIDE DEF C
<1>7. CASE t \in C
  BY <1>1, <1>2, <1>4, <1>5, <1>6, <1>7
<1>8. CASE t \notin C
  BY <1>1, <1>2, <1>4, <1>5, <1>6, <1>8
<1>. QED
  BY <1>7, <1>8

\* A completion is never one too many for its counter.
LEMMA HeadIsPending ==
    ASSUME TypeAndPending, NEW op, Receive(op)
    PROVE  LET k == Head(replies).type
           IN  /\ k \in Type
               /\ op = "list" => list_pending[k] > 0
               /\ op = "get" => get_pending[k] > 0
<1>. DEFINE k == Head(replies).type
<1>1. ZkTypeOK
  BY DEF TypeAndPending, TypeOK
<1>2. /\ Head(replies) \in Message
      /\ replies' \in Seq(Message)
      /\ \A t \in Type :
            /\ Count(replies, "list", t) = Count(replies', "list", t)
                 + (IF op = "list" /\ k = t THEN 1 ELSE 0)
            /\ Count(replies, "get", t) = Count(replies', "get", t)
                 + (IF op = "get" /\ k = t THEN 1 ELSE 0)
  BY <1>1, ReceiveStep
<1>3. k \in Type
  BY <1>2 DEF Message
<1>. HIDE DEF k
<1>4. requests \in Seq(Message)
  BY <1>1 DEF ZkTypeOK
<1>5. \A o, t : Count(requests, o, t) \in Nat /\ Count(replies', o, t) \in Nat
  BY <1>2, <1>4, CountType
<1>6. /\ list_pending[k] = Count(requests, "list", k) + Count(replies, "list", k)
      /\ get_pending[k] = Count(requests, "get", k) + Count(replies, "get", k)
  BY <1>3 DEF TypeAndPending, PendingMatchesInFlight
<1>7. CASE op = "list"
  <2>1. Count(replies, "list", k) = Count(replies', "list", k) + 1
    BY <1>2, <1>3, <1>7
  <2>. QED
    BY <1>3, <1>5, <1>6, <1>7, <2>1 DEF k
<1>8. CASE op = "get"
  <2>1. Count(replies, "get", k) = Count(replies', "get", k) + 1
    BY <1>2, <1>3, <1>8
  <2>. QED
    BY <1>3, <1>5, <1>6, <1>8, <2>1 DEF k
<1>9. CASE op # "list" /\ op # "get"
  BY <1>3, <1>9 DEF k
<1>. QED
  BY <1>7, <1>8, <1>9

\* No round is under way and no relist is wanted at the start.
LEMMA InitRounds == Init => Rounds
  BY DEF Init, Rounds, OneRoundAtATime, NoLostWakeup

\* The inductive step of Rounds, by cases on the action.
LEMMA NextRounds ==
    TypeAndPending /\ Unregistered /\ Rounds /\ [Next]_vars => Rounds'
<1>. SUFFICES ASSUME TypeAndPending, Unregistered, Rounds, [Next]_vars
              PROVE  Rounds'
  OBVIOUS
<1>1. ZsTypeOK /\ ZkTypeOK
  BY DEF TypeAndPending, TypeOK
<1>2. \A t \in Type :
        /\ list_wanted[t] \in Nat /\ list_pending[t] \in Nat /\ get_pending[t] \in Nat
        /\ list_pending[t] <= 1
        /\ list_pending[t] = 1 => get_pending[t] = 0
        /\ list_wanted[t] > 0 => list_pending[t] + get_pending[t] > 0
  BY <1>1 DEF ZsTypeOK, Rounds, OneRoundAtATime, NoLostWakeup
<1>3. CASE UNCHANGED <<list_wanted, list_pending, get_pending>>
  BY <1>3 DEF Rounds, OneRoundAtATime, NoLostWakeup
<1>4. CASE Environment \/ SkipLost \/ UNCHANGED vars
  BY <1>3, <1>4 DEF Environment, SkipLost, vars, zsVars
<1>5. CASE Register
  <2>1. \A t \in Type : list_wanted[t] = 0 /\ list_pending[t] = 0 /\ get_pending[t] = 0
    BY <1>5 DEF Register, Unregistered
  <2>2. /\ list_pending' = [t \in Type |-> list_pending[t] + 1]
        /\ list_wanted' = list_wanted /\ get_pending' = get_pending
    BY <1>5 DEF Register, restart_list
  <2>. QED
    BY <2>1, <2>2 DEF Rounds, OneRoundAtATime, NoLostWakeup
<1>6. CASE DeliverList
  <2>. DEFINE m == Head(replies)
              k == m.type
              children == IF m.rc = "ZOK" THEN m.names ELSE {}
              lists == [list_pending EXCEPT ![k] = @ - 1]
              gets == [get_pending EXCEPT ![k] = @ + Cardinality(children)]
              again == Relisted({k}, list_wanted, lists, gets)
  <2>1. /\ Receive("list")
        /\ get_pending' = gets
        /\ list_wanted' = Consumed(again, list_wanted)
        /\ restart_list(again, lists, urlv_new, TRUE)
    BY <1>6 DEF DeliverList
  <2>2. k \in Type /\ list_pending[k] > 0
    BY <2>1, HeadIsPending
  <2>3. m \in Message
    BY <1>1, <2>1, ReceiveStep
  <2>4. Cardinality(children) \in Nat
    <3>1. children \in SUBSET Node
      BY <2>3 DEF Message
    <3>. QED
      BY <3>1, FS_Subset, FS_CardinalityType
  <2>. HIDE DEF m, k, children
  <2>5. list_pending \in [Type -> Nat] /\ get_pending \in [Type -> Nat]
    BY <1>1 DEF ZsTypeOK
  <2>6. /\ list_pending[k] = 1 /\ get_pending[k] = 0
        /\ lists[k] = 0 /\ gets[k] = Cardinality(children)
    BY <1>2, <2>2, <2>4, <2>5
  <2>7. \A t \in Type \ {k} : lists[t] = list_pending[t] /\ gets[t] = get_pending[t]
    BY <2>5
  <2>. HIDE DEF lists, gets
  <2>8. again \subseteq {k} /\ (k \in again <=> gets[k] = 0 /\ lists[k] = 0 /\ list_wanted[k] > 0)
    BY DEF Relisted
  <2>. HIDE DEF again
  <2>9. \A t \in Type :
          /\ list_wanted'[t] = IF t \in again THEN list_wanted[t] - 1 ELSE list_wanted[t]
          /\ list_pending'[t] = IF t \in again THEN lists[t] + 1 ELSE lists[t]
          /\ get_pending'[t] = gets[t]
    BY <2>1 DEF Consumed, restart_list
  <2>. SUFFICES ASSUME NEW t \in Type
       PROVE  /\ list_pending'[t] <= 1
              /\ list_pending'[t] = 1 => get_pending'[t] = 0
              /\ list_wanted'[t] > 0 => list_pending'[t] + get_pending'[t] > 0
    BY DEF Rounds, OneRoundAtATime, NoLostWakeup
  <2>10. CASE t # k
    <3>1. /\ list_wanted'[t] = list_wanted[t] /\ list_pending'[t] = list_pending[t]
          /\ get_pending'[t] = get_pending[t]
      BY <2>7, <2>8, <2>9, <2>10
    <3>. QED
      BY <1>2, <3>1
  <2>11. CASE t = k
    BY <1>2, <2>4, <2>6, <2>8, <2>9, <2>11
  <2>. QED
    BY <2>10, <2>11
<1>7. CASE DeliverGet
  <2>. DEFINE k == Head(replies).type
              gets == [get_pending EXCEPT ![k] = @ - 1]
              again == Relisted({k}, list_wanted, list_pending, gets)
  <2>1. /\ Receive("get")
        /\ get_pending' = gets
        /\ list_wanted' = Consumed(again, list_wanted)
        /\ \A t \in Type : list_pending'[t] =
              IF t \in again THEN list_pending[t] + 1 ELSE list_pending[t]
    BY <1>7 DEF DeliverGet, restart_list
  <2>2. k \in Type /\ get_pending[k] > 0
    BY <2>1, HeadIsPending
  <2>. HIDE DEF k
  <2>3. list_pending[k] = 0 /\ gets[k] = get_pending[k] - 1
    <3>1. get_pending \in [Type -> Nat]
      BY <1>1 DEF ZsTypeOK
    <3>2. gets[k] = get_pending[k] - 1
      BY <2>2, <3>1
    <3>3. list_pending[k] = 0
      <4>1. list_pending[k] \in Nat /\ list_pending[k] <= 1 /\ list_pending[k] # 1
        BY <1>2, <2>2
      <4>. QED
        BY <4>1
    <3>. QED
      BY <3>2, <3>3
  <2>4. \A t \in Type \ {k} : gets[t] = get_pending[t]
    BY <1>1 DEF ZsTypeOK
  <2>. HIDE DEF gets
  <2>5. again \subseteq {k} /\ (k \in again <=>
           gets[k] = 0 /\ list_pending[k] = 0 /\ list_wanted[k] > 0)
    BY DEF Relisted
  <2>. HIDE DEF again
  <2>6. \A t \in Type :
          list_wanted'[t] = IF t \in again THEN list_wanted[t] - 1 ELSE list_wanted[t]
    BY <2>1 DEF Consumed
  <2>. SUFFICES ASSUME NEW t \in Type
       PROVE  /\ list_pending'[t] <= 1
              /\ list_pending'[t] = 1 => get_pending'[t] = 0
              /\ list_wanted'[t] > 0 => list_pending'[t] + get_pending'[t] > 0
    BY DEF Rounds, OneRoundAtATime, NoLostWakeup
  <2>7. CASE t # k
    <3>1. /\ list_wanted'[t] = list_wanted[t] /\ list_pending'[t] = list_pending[t]
          /\ get_pending'[t] = get_pending[t]
      BY <2>1, <2>4, <2>5, <2>6, <2>7
    <3>. QED
      BY <1>2, <3>1
  <2>8. CASE t = k
    BY <1>2, <2>1, <2>2, <2>3, <2>5, <2>6, <2>8
  <2>. QED
    BY <2>7, <2>8
<1>8. CASE DeliverWatch
  <2>. DEFINE T == {Head(replies).type}
  <2>1. Receive("watch") /\ on_list_change(T, TRUE)
    BY <1>8 DEF DeliverWatch
  <2>2. T \in SUBSET Type /\ TRUE \in BOOLEAN
    BY <2>1, HeadIsPending
  <2>. HIDE DEF T
  <2>. QED
    BY <1>1, <2>1, <2>2, ChangeRounds
<1>9. CASE Disconnect
  <2>. DEFINE T == IF session = "connected" THEN armed ELSE {}
  <2>1. T \in SUBSET Type /\ TRUE \in BOOLEAN
    BY <1>1 DEF ZkTypeOK
  <2>2. on_list_change(T, TRUE)
    BY <1>9 DEF Disconnect
  <2>. HIDE DEF T
  <2>. QED
    BY <1>1, <2>1, <2>2, ChangeRounds
<1>10. CASE Reconnect \/ SessionExpired
  <2>1. armed \in SUBSET Type /\ TRUE \in BOOLEAN /\ FALSE \in BOOLEAN
    BY <1>1 DEF ZkTypeOK
  <2>2. on_list_change(armed, TRUE) \/ on_list_change(armed, FALSE)
    BY <1>10 DEF Reconnect, SessionExpired
  <2>. QED
    BY <1>1, <2>1, <2>2, ChangeRounds
<1>. QED
  BY <1>4, <1>5, <1>6, <1>7, <1>8, <1>9, <1>10 DEF Next, Deliver

\* Rounds never overlap and wakeups are kept, in every reachable state.
LEMMA RoundsHold == Spec => []Rounds
  BY InitTypeAndPending, NextTypeAndPending, InitUnregistered, NextUnregistered,
     InitRounds, NextRounds, PTL DEF Spec

\* A type never has two lists, or a list and gets, under way: on_get and
\* on_list_completion never see an answer of another round (maybe_relist).
THEOREM RoundsNeverOverlap == Spec => []OneRoundAtATime
<1>1. Rounds => OneRoundAtATime
  BY DEF Rounds
<1>. QED
  BY <1>1, RoundsHold, PTL

\* A change noticed by on_list_change is never forgotten: maybe_relist will be
\* called again while list_wanted is set.
THEOREM WakeupsAreKept == Spec => []NoLostWakeup
<1>1. Rounds => NoLostWakeup
  BY DEF Rounds
<1>. QED
  BY <1>1, RoundsHold, PTL

-----------------------------------------------------------------------------
(* References: the entries of connect_real against the adopted URLs.       *)

Claims(u) == {t \in Type : u \in urlv_current[t]}

\* Adopting a round keeps an entry for every adopted URL.
LEMMA ReconnectKeepsRefs ==
    ASSUME ZsTypeOK, RefsCoverClaims, NEW k \in Type, NEW new \in [Url -> Nat],
           zco_reconnect(k, new)
    PROVE  RefsCoverClaims'
<1>1. /\ urlv_current \in [Type -> SUBSET Url]
      /\ connect_real \in [Url -> Nat]
      /\ links \subseteq Url
  BY DEF ZsTypeOK
<1>2. CASE new = NoUrls
  BY <1>2 DEF zco_reconnect, peerVars, RefsCoverClaims
<1>3. CASE new # NoUrls
  <2>. DEFINE add == Added(urlv_current[k], new)
              rem == Removed(urlv_current[k], new)
              dropped == {u \in rem : connect_real[u] > 0}
  <2>1. /\ add \in [Url -> Nat]
        /\ rem \subseteq urlv_current[k]
        /\ \A u \in rem : add[u] = 0
        /\ \A u \in Url : add[u] = 0 /\ u \notin rem
              => (u \in urlv_current[k]) \/ new[u] = 0
    BY <1>1 DEF Added, Removed
  <2>2. /\ connect_real' = [u \in Url |-> connect_real[u] + add[u]
                                      - (IF u \in dropped THEN 1 ELSE 0)]
        /\ links' = (links \cup {u \in Url : add[u] > 0 /\ connect_real[u] = 0})
                    \ dropped
        /\ urlv_current' = [urlv_current EXCEPT
               ![k] = (@ \cup {u \in Url : add[u] > 0}) \ rem]
    BY <1>3 DEF zco_reconnect, ApplyDelta, Adopted
  <2>. HIDE DEF add, rem
  <2>. SUFFICES ASSUME NEW u \in Url
       PROVE  /\ connect_real'[u] >= Cardinality(Claims(u)')
              /\ u \in links' => connect_real'[u] > 0
    BY DEF RefsCoverClaims, Claims
  <2>3. /\ connect_real[u] \in Nat /\ add[u] \in Nat
        /\ connect_real[u] >= Cardinality(Claims(u))
        /\ u \in links => connect_real[u] > 0
    BY <1>1, <2>1 DEF RefsCoverClaims, Claims
  <2>4. IsFiniteSet(Claims(u)) /\ Cardinality(Claims(u)) \in Nat
    <3>1. Claims(u) \in SUBSET Type
      BY DEF Claims
    <3>. QED
      BY <3>1, FS_Subset, FS_CardinalityType
  <2>5. CASE u \in rem
    <3>1. k \in Claims(u) /\ Claims(u)' = Claims(u) \ {k}
      BY <1>1, <2>1, <2>2, <2>5 DEF Claims
    <3>2. Cardinality(Claims(u)') = Cardinality(Claims(u)) - 1
      BY <2>4, <3>1, FS_RemoveElement
    <3>3. Cardinality(Claims(u)) > 0
      BY <2>4, <3>1, FS_EmptySet
    <3>4. u \in dropped
      BY <2>3, <2>4, <2>5, <3>3
    <3>5. connect_real'[u] = connect_real[u] - 1 /\ u \notin links'
      BY <2>1, <2>2, <2>3, <2>5, <3>4
    <3>. QED
      BY <2>3, <2>4, <3>2, <3>5
  <2>6. CASE u \notin rem /\ add[u] > 0
    <3>1. Claims(u)' = Claims(u) \cup {k}
      BY <1>1, <2>2, <2>6 DEF Claims
    <3>2. Cardinality(Claims(u)') <= Cardinality(Claims(u)) + 1
      <4>1. Cardinality(Claims(u) \cup {k}) =
              IF k \in Claims(u) THEN Cardinality(Claims(u)) ELSE Cardinality(Claims(u)) + 1
        BY <2>4, FS_AddElement
      <4>. QED
        BY <2>4, <3>1, <4>1
    <3>3. Cardinality(Claims(u)') \in Nat
      BY <2>4, <3>1, FS_AddElement, FS_CardinalityType
    <3>4. connect_real'[u] = connect_real[u] + add[u]
      BY <2>2, <2>3, <2>6
    <3>. QED
      BY <2>3, <2>4, <2>6, <3>2, <3>3, <3>4
  <2>7. CASE u \notin rem /\ add[u] = 0
    <3>1. Claims(u)' = Claims(u)
      BY <1>1, <2>2, <2>7 DEF Claims
    <3>2. connect_real'[u] = connect_real[u] /\ (u \in links' => u \in links)
      BY <2>2, <2>3, <2>7
    <3>. QED
      BY <2>3, <3>1, <3>2
  <2>. QED
    BY <2>3, <2>5, <2>6, <2>7
<1>. QED
  BY <1>2, <1>3

\* The inductive step: only on_get touches the connections.
LEMMA NextRefs == TypeAndPending /\ RefsCoverClaims /\ [Next]_vars => RefsCoverClaims'
<1>. SUFFICES ASSUME TypeAndPending, RefsCoverClaims, [Next]_vars
              PROVE  RefsCoverClaims'
  OBVIOUS
<1>1. ZsTypeOK
  BY DEF TypeAndPending, TypeOK
<1>2. CASE UNCHANGED peerVars
  BY <1>2 DEF peerVars, RefsCoverClaims
<1>3. CASE ~DeliverGet
  <2>1. UNCHANGED peerVars
    BY <1>3 DEF Next, Environment, Register, Deliver, DeliverList, DeliverWatch, SkipLost,
                Disconnect, Reconnect, SessionExpired, on_list_change, vars, zsVars,
                peerVars
  <2>. QED
    BY <1>2, <2>1
<1>4. CASE DeliverGet
  <2>. DEFINE m == Head(replies)
              k == m.type
              kept == {n \in m.names : m.rc = "ZOK" /\ Compatible(n)}
              new == [urlv_new EXCEPT ![k] = [u \in Url |->
                        IF \E n \in kept : NodeUrl[n] = u THEN @[u] + 1 ELSE @[u]]]
              collected == new[k]
  <2>1. Receive("get")
    BY <1>4 DEF DeliverGet
  <2>2. k \in Type
    BY <2>1, HeadIsPending
  <2>3. zco_reconnect(k, collected) \/ UNCHANGED peerVars
    BY <1>4 DEF DeliverGet
  <2>. HIDE DEF k, kept
  <2>4. collected \in [Url -> Nat]
    BY <1>1, <2>2 DEF ZsTypeOK
  <2>. HIDE DEF collected
  <2>. QED
    BY <1>1, <1>2, <2>2, <2>3, <2>4, ReconnectKeepsRefs
<1>. QED
  BY <1>3, <1>4

\* A connection entry outlives its adopters and no connection outlives its
\* entry (_zsock_real_connect, _zsock_real_disconnect).
THEOREM RefsAreKept == Spec => []RefsCoverClaims
<1>1. Init => RefsCoverClaims
  <2>. SUFFICES ASSUME Init, NEW u \in Url
       PROVE  connect_real[u] >= Cardinality({t \in Type : u \in urlv_current[t]})
                /\ u \notin links
    BY DEF RefsCoverClaims
  <2>1. {t \in Type : u \in urlv_current[t]} = {}
    BY DEF Init
  <2>2. Cardinality({t \in Type : u \in urlv_current[t]}) = 0
    BY <2>1, FS_EmptySet
  <2>3. connect_real[u] = 0 /\ u \notin links
    BY DEF Init, NoUrls
  <2>. QED
    BY <2>2, <2>3
<1>. QED
  BY <1>1, InitTypeAndPending, NextTypeAndPending, NextRefs, PTL DEF Spec
=============================================================================
