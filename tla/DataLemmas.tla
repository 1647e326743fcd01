----------------------------- MODULE DataLemmas -----------------------------
(***************************************************************************)
(* What the proofs about loops over data rest on: the words of a hash, the *)
(* groups of a text, the entries of the table of verbs.                    *)
(*                                                                         *)
(* Induction over the natural numbers is stated of a set instead of a      *)
(* predicate: to prove something of every number, show that the numbers of *)
(* which it holds are a set as in AllNaturals or AllUpTo.                  *)
(***************************************************************************)
EXTENDS Naturals, Sequences, SequencesExt, FiniteSetsExt, WellFoundedInduction, TLAPS

Less == {z \in Nat \X Nat : z[1] < z[2]}

LEMMA LessIsWellFounded == IsWellFoundedOn(Less, Nat)
  BY NatLessThanWellFounded DEF OpToRel, Less

(* A set of natural numbers that has 0 and the successor of each of its    *)
(* members has them all.                                                   *)
LEMMA AllNaturals ==
    ASSUME NEW S \in SUBSET Nat, 0 \in S, \A n \in S : n + 1 \in S
    PROVE  S = Nat
  <1> DEFINE Missing == Nat \ S
  <1> SUFFICES ASSUME Missing # {} PROVE FALSE
    OBVIOUS
  <1>1. PICK x \in Missing : \A y \in Missing : ~ (<<y, x>> \in Less)
    <2>1. Missing \subseteq Nat
      OBVIOUS
    <2> HIDE DEF Missing
    <2> QED
      BY <2>1, WFMin, LessIsWellFounded
  <1>2. x \in Nat /\ x # 0 /\ x - 1 \in Nat
    BY <1>1
  <1>3. <<x - 1, x>> \in Less
    BY <1>2 DEF Less
  <1>4. x - 1 \in S
    BY <1>1, <1>2, <1>3
  <1> QED
    BY <1>1, <1>2, <1>4

(* The same for the numbers up to n.                                       *)
LEMMA AllUpTo ==
    ASSUME NEW n \in Nat, NEW S \in SUBSET Nat, 0 \in S,
           \A k \in S : k < n => k + 1 \in S
    PROVE  0 .. n \subseteq S
  <1> DEFINE T == {k \in Nat : k <= n => k \in S}
  <1>1. 0 \in T /\ \A k \in T : k + 1 \in T
    OBVIOUS
  <1>2. T \in SUBSET Nat
    OBVIOUS
  <1> HIDE DEF T
  <1>3. T = Nat
    BY <1>1, <1>2, AllNaturals
  <1> QED
    BY <1>3 DEF T

-----------------------------------------------------------------------------
(* The element that a fold over a sequence starts from.                    *)

LEMMA MaxIsGreatest ==
    ASSUME NEW s \in SUBSET Nat, NEW x \in s, \A y \in s : x >= y
    PROVE  Max(s) = x
  <1>1. Max(s) \in s /\ \A y \in s : Max(s) >= y
    BY DEF Max
  <1>2. Max(s) \in Nat /\ x \in Nat /\ Max(s) >= x /\ x >= Max(s)
    BY <1>1
  <1> QED
    BY <1>2

(* The least element of a set, which SelectInSeq looks for.                *)
LEMMA LeastExists ==
    ASSUME NEW I \in SUBSET Nat, I # {}
    PROVE  Min(I) \in I /\ \A i \in I : Min(I) <= i
  <1>1. PICK x \in I : \A y \in I : ~ (<<y, x>> \in Less)
    BY WFMin, LessIsWellFounded
  <1>2. ASSUME NEW y \in I PROVE x <= y
    <2>1. x \in Nat /\ y \in Nat
      OBVIOUS
    <2>2. ~ (y < x)
      BY <1>1, <2>1 DEF Less
    <2> QED
      BY <2>1, <2>2
  <1> QED
    BY <1>2 DEF Min

-----------------------------------------------------------------------------
(* Parts of a sequence.                                                    *)

LEMMA Part ==
    ASSUME NEW S, NEW t \in Seq(S), NEW m \in Nat, NEW n \in Nat, m <= n, n <= Len(t)
    PROVE  /\ SubSeq(t, m + 1, n) \in Seq(S)
           /\ Len(SubSeq(t, m + 1, n)) = n - m
           /\ \A i \in 1 .. (n - m) : SubSeq(t, m + 1, n)[i] = t[m + i]
  <1> DEFINE part == SubSeq(t, m + 1, n)
  <1>1. part = [i \in 1 .. (n - m) |-> t[i + m]]
    OBVIOUS
  <1>2. n - m \in Nat
    OBVIOUS
  <1>3. \A i \in 1 .. (n - m) : t[i + m] \in S
    OBVIOUS
  <1> HIDE DEF part
  <1>4. Len(part) = n - m /\ part \in Seq(S)
    BY <1>1, <1>2, <1>3
  <1>5. \A i \in 1 .. (n - m) : part[i] = t[m + i]
    BY <1>1
  <1> QED
    BY <1>4, <1>5 DEF part

LEMMA FirstPart ==
    ASSUME NEW S, NEW t \in Seq(S), NEW n \in 0 .. Len(t)
    PROVE  /\ SubSeq(t, 1, n) \in Seq(S)
           /\ Len(SubSeq(t, 1, n)) = n
           /\ \A i \in 1 .. n : SubSeq(t, 1, n)[i] = t[i]
  <1> DEFINE part == SubSeq(t, 1, n)
  <1>1. Len(t) \in Nat /\ n \in Nat /\ \A i \in 1 .. n : t[i] \in S
    OBVIOUS
  <1>2. part = [i \in 1 .. n |-> t[i]]
    OBVIOUS
  <1> HIDE DEF part
  <1>3. part \in Seq(S) /\ Len(part) = n
    BY <1>1, <1>2
  <1>4. \A i \in 1 .. n : part[i] = t[i]
    BY <1>2
  <1> QED
    BY <1>3, <1>4 DEF part

LEMMA WholePart ==
    ASSUME NEW S, NEW t \in Seq(S)
    PROVE  SubSeq(t, 1, Len(t)) = t
  <1>1. Len(t) \in Nat /\ Len(t) \in 0 .. Len(t)
    OBVIOUS
  <1> DEFINE part == SubSeq(t, 1, Len(t))
  <1>2. /\ part \in Seq(S) /\ Len(part) = Len(t)
        /\ \A i \in 1 .. Len(t) : part[i] = t[i]
    BY <1>1, FirstPart
  <1> HIDE DEF part
  <1>3. part = t
    BY <1>2
  <1> QED
    BY <1>3 DEF part

-----------------------------------------------------------------------------
(* Sequences that grow and shrink at their end.                            *)

(* One more element at the end of a sequence.                              *)
LEMMA Appended ==
    ASSUME NEW S, NEW s \in Seq(S), NEW x \in S
    PROVE  /\ Append(s, x) \in Seq(S) /\ Len(Append(s, x)) = Len(s) + 1
           /\ Append(s, x)[Len(s) + 1] = x
           /\ \A i \in 1 .. Len(s) : Append(s, x)[i] = s[i]
           /\ Append(s, x) # <<>>
  OBVIOUS

(* A sequence of one element, and of four and five.                        *)
LEMMA Single ==
    ASSUME NEW S, NEW x \in S
    PROVE  <<x>> \in Seq(S) /\ <<>> \in Seq(S)
  OBVIOUS

LEMMA Four ==
    ASSUME NEW S, NEW a \in S, NEW b \in S, NEW c \in S, NEW d \in S
    PROVE  <<a, b, c, d>> \in Seq(S)
  OBVIOUS

LEMMA Five ==
    ASSUME NEW S, NEW a \in S, NEW b \in S, NEW c \in S, NEW d \in S, NEW e \in S
    PROVE  <<a, b, c, d, e>> \in Seq(S)
  OBVIOUS

(* All of a sequence but its last element.                                 *)
LEMMA FrontOf ==
    ASSUME NEW S, NEW s \in Seq(S)
    PROVE  /\ Front(s) \in Seq(S)
           /\ \A open \in Seq(S), x \in S : s = Append(open, x) => Front(s) = open
  <1>1. Len(s) \in Nat
    OBVIOUS
  <1>2. Front(s) \in Seq(S)
    <2>1. CASE Len(s) = 0
      <3>1. Front(s) = <<>>
        BY <2>1 DEF Front
      <3> QED
        BY <3>1
    <2>2. CASE Len(s) # 0
      <3>1. Len(s) - 1 \in 0 .. Len(s)
        BY <1>1, <2>2
      <3> QED
        BY <3>1, FirstPart DEF Front
    <2> QED
      BY <2>1, <2>2
  <1>3. ASSUME NEW open \in Seq(S), NEW x \in S, s = Append(open, x) PROVE Front(s) = open
    <2>1. /\ Len(s) = Len(open) + 1 /\ Len(open) \in Nat
          /\ \A i \in 1 .. Len(open) : s[i] = open[i]
      BY <1>3, Appended
    <2>2. Len(s) - 1 \in 0 .. Len(s) /\ Len(s) - 1 = Len(open)
      BY <2>1
    <2>3. /\ Front(s) \in Seq(S) /\ Len(Front(s)) = Len(open)
          /\ \A i \in 1 .. Len(open) : Front(s)[i] = s[i]
      BY <2>2, FirstPart DEF Front
    <2> HIDE DEF Front
    <2> QED
      BY <2>1, <2>3
  <1> QED
    BY <1>2, <1>3

LEMMA FrontAppend ==
    ASSUME NEW S, NEW s \in Seq(S), NEW x \in S
    PROVE  Front(Append(s, x)) = s
  <1>1. Append(s, x) \in Seq(S)
    BY Appended
  <1> QED
    BY <1>1, FrontOf

(* A sequence over a set is one over a larger set.                         *)
LEMMA SeqLarger ==
    ASSUME NEW S, NEW T, S \subseteq T, NEW s \in Seq(S)
    PROVE  s \in Seq(T)
  OBVIOUS
=============================================================================
