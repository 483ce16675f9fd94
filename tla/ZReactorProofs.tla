--------------------------- MODULE ZReactorProofs ---------------------------
(* Lemmas on the loop of the reactor, for the modules that extend it.      *)
EXTENDS ZReactor, FiniteSetsExt, WellFoundedInduction, SequenceTheorems, TLAPS

\* The least element of a set of naturals, as Min picks it.
LEMMA MinIsLeast ==
    ASSUME NEW S \in SUBSET Nat, S # {}
    PROVE  Min(S) \in S /\ \A y \in S : Min(S) <= y
<1>1. PICK x \in S : \A y \in S : ~(<<y, x>> \in OpToRel(<, Nat))
  BY NatLessThanWellFounded, WFMin
<1>2. ASSUME NEW y \in S, y < x
      PROVE  FALSE
  <2>1. <<y, x>> \in {ss \in Nat \X Nat : ss[1] < ss[2]}
    BY <1>2
  <2>2. <<y, x>> \in OpToRel(<, Nat)
    BY <2>1 DEF OpToRel
  <2>. QED
    BY <1>1, <2>2
<1>3. \A y \in S : x <= y
  BY <1>2
<1>. QED
  BY <1>3 DEF Min

\* The loop goes from an item to the next one of its pass, or polls.
LEMMA NextPlaceKeeps ==
    ASSUME LoopTypeOK, phase \in {"dispatch", "handler"}, NextPlace,
           running' \in BOOLEAN, monitors' \in Seq(Monitor),
           Len(monitors') >= Len(monitors)
    PROVE  LoopTypeOK' /\ phase' \in {"poll", "dispatch"}
<1>1. /\ Len(monitors) \in Nat /\ Len(monitors') \in Nat
      /\ max \in 0..Len(monitors) /\ at \in 1..max
  BY LenProperties DEF LoopTypeOK
<1>2. max' = max /\ revents' = revents
  BY DEF NextPlace
<1>3. max' \in 0..Len(monitors')
  BY <1>1, <1>2
<1>4. /\ at' \in 0..max'
      /\ phase' \in {"poll", "dispatch"}
      /\ phase' = "dispatch" => at' > 0
  BY <1>1, <1>2 DEF NextPlace
<1>. QED
  BY <1>2, <1>3, <1>4 DEF LoopTypeOK

\* A pass starts at its first item, when there is one.
LEMMA PollKeepsLoop ==
    ASSUME LoopTypeOK, monitors # <<>>, NEW fired \in [Monitor -> SUBSET Event],
           Poll(fired)
    PROVE  LoopTypeOK' /\ phase' = "dispatch"
<1>1. Len(monitors) \in Nat /\ Len(monitors) > 0
  BY EmptySeq, LenProperties DEF LoopTypeOK
<1>. QED
  BY <1>1 DEF Poll, LoopTypeOK
=============================================================================
