----------------------------- MODULE VerbProofs -----------------------------
(***************************************************************************)
(* Proofs about the command line for lines of any length and any           *)
(* characters, and for every table of verbs that TableAssumption describes *)
(* (TLC evaluates it for the table of verb_context.h).                     *)
(***************************************************************************)
EXTENDS MCVerbs, DataLemmas

Size == Len(default_context)

LEMMA TableIs ==
    /\ Size \in Nat /\ DOMAIN default_context = 1 .. Size
    /\ \A i \in 1 .. Size : default_context[i] \in Seq(VerbCharacters)
  BY VerbAssumption DEF Size

-----------------------------------------------------------------------------
(***************************************************************************)
(* Prefixes.                                                               *)
(***************************************************************************)
(* IsPrefix, said of the beginning of the longer text alone.               *)
LEMMA PrefixIs ==
    ASSUME NEW S, NEW T, NEW s \in Seq(S), NEW t \in Seq(T)
    PROVE  IsPrefix(s, t) <=> Len(s) <= Len(t) /\ SubSeq(t, 1, Len(s)) = s
  BY WholePart DEF IsPrefix

LEMMA UpperIs ==
    ASSUME NEW S, NEW t \in Seq(S)
    PROVE  \E T : Upper(t) \in Seq(T) /\ Len(Upper(t)) = Len(t)
  <1> DEFINE up == Upper(t)
             T == {up[i] : i \in DOMAIN t}
  <1>1. DOMAIN t = 1 .. Len(t) /\ Len(t) \in Nat
    OBVIOUS
  <1>2. DOMAIN up = 1 .. Len(t) /\ up = [i \in 1 .. Len(t) |-> up[i]]
    BY <1>1 DEF Upper
  <1>3. \A i \in 1 .. Len(t) : up[i] \in T
    BY <1>1
  <1> HIDE DEF up, T
  <1>4. up \in Seq(T) /\ Len(up) = Len(t)
    BY <1>1, <1>2, <1>3
  <1> QED
    BY <1>4 DEF up

(* The abbreviations are the beginnings of the verbs.                      *)
LEMMA AbbreviationIs ==
    ASSUME NEW S, NEW p \in Seq(S)
    PROVE  p \in Abbreviations <=> \E i \in 1 .. Size : IsPrefix(p, default_context[i])
  <1>1. ASSUME NEW i \in 1 .. Size
        PROVE  p \in Prefixes(default_context[i]) <=> IsPrefix(p, default_context[i])
    <2> DEFINE v == default_context[i]
    <2>1. v \in Seq(VerbCharacters)
      BY TableIs
    <2> HIDE DEF v
    <2>2. Len(v) \in Nat /\ Len(p) \in Nat
      BY <2>1
    <2>3. IsPrefix(p, v) <=> Len(p) <= Len(v) /\ SubSeq(v, 1, Len(p)) = p
      BY <2>1, PrefixIs
    <2>4. ASSUME p \in Prefixes(v) PROVE IsPrefix(p, v)
      <3>1. PICK l \in 0 .. Len(v) : p = SubSeq(v, 1, l)
        BY <2>4 DEF Prefixes
      <3>2. Len(p) = l
        BY <2>1, <3>1, FirstPart
      <3> QED
        BY <2>2, <2>3, <3>1, <3>2
    <2>5. ASSUME IsPrefix(p, v) PROVE p \in Prefixes(v)
      <3>1. Len(p) \in 0 .. Len(v) /\ SubSeq(v, 1, Len(p)) = p
        BY <2>2, <2>3, <2>5
      <3> QED
        BY <3>1 DEF Prefixes
    <2> QED
      BY <2>4, <2>5 DEF v
  <1> QED
    BY <1>1, TableIs DEF Abbreviations

-----------------------------------------------------------------------------
(***************************************************************************)
(* The first verb that a text abbreviates.                                 *)
(***************************************************************************)
IsFirst(p, k) ==
    /\ k \in 1 .. Size
    /\ IsPrefix(p, default_context[k])
    /\ \A i \in 1 .. (k - 1) : ~IsPrefix(p, default_context[i])

LEMMA FirstExists ==
    ASSUME NEW p, NEW i \in 1 .. Size, IsPrefix(p, default_context[i])
    PROVE  \E k : IsFirst(p, k)
  <1> DEFINE I == {j \in 1 .. Size : IsPrefix(p, default_context[j])}
  <1>1. I \in SUBSET Nat /\ I # {}
    OBVIOUS
  <1> DEFINE k == Min(I)
  <1>2. k \in I /\ \A j \in I : k <= j
    <2> HIDE DEF I
    <2> QED
      BY <1>1, LeastExists
  <1> HIDE DEF k
  <1>3. k \in 1 .. Size /\ IsPrefix(p, default_context[k])
    BY <1>2
  <1>4. ASSUME NEW j \in 1 .. (k - 1) PROVE ~IsPrefix(p, default_context[j])
    <2>1. j \in 1 .. Size /\ ~ (k <= j)
      BY <1>3, TableIs
    <2> QED
      BY <1>2, <2>1
  <1> QED
    BY <1>3, <1>4 DEF IsFirst

LEMMA FirstMatchIs ==
    ASSUME NEW p, NEW k, IsFirst(p, k)
    PROVE  FirstMatch(p) = k
  <1>1. k \in DOMAIN default_context /\ k \in Nat
    BY TableIs DEF IsFirst
  <1>2. IsFirst(p, FirstMatch(p))
    BY <1>1, TableIs DEF IsFirst, FirstMatch
  <1> DEFINE m == FirstMatch(p)
  <1>3. /\ m \in 1 .. Size /\ IsPrefix(p, default_context[m])
        /\ \A i \in 1 .. (m - 1) : ~IsPrefix(p, default_context[i])
    BY <1>2 DEF IsFirst
  <1>4. /\ k \in 1 .. Size /\ IsPrefix(p, default_context[k])
        /\ \A i \in 1 .. (k - 1) : ~IsPrefix(p, default_context[i])
    BY DEF IsFirst
  <1> HIDE DEF m
  <1>5. ~ (m < k)
    <2>1. m < k => m \in 1 .. (k - 1)
      BY <1>3, <1>4
    <2> QED
      BY <1>3, <1>4, <2>1
  <1>6. ~ (k < m)
    <2>1. k < m => k \in 1 .. (m - 1)
      BY <1>3, <1>4
    <2> QED
      BY <1>3, <1>4, <2>1
  <1>7. m = k
    BY <1>3, <1>4, <1>5, <1>6, TableIs
  <1> QED
    BY <1>7 DEF m

-----------------------------------------------------------------------------
(***************************************************************************)
(* The loop of CapitalizeVerb, which overwrites the word *s and goes on:   *)
(* one entry of the table, and the fold over all of them.                  *)
(***************************************************************************)
Shorter(a, b) == IF Len(a) > Len(b) THEN Len(b) ELSE Len(a)

Matched(p, s, entry) == IF SubSeq(entry, 1, Shorter(entry, s)) = p THEN entry ELSE s

Expanding(f, p, word, D) ==
    f = [s \in SUBSET D |->
            IF s = {} THEN word ELSE Matched(p, f[s \ {Max(s)}], default_context[Max(s)])]

LEMMA ExpansionIsChosen ==
    ASSUME NEW word, Upper(word) \notin DOMAIN Shorthand
    PROVE  CapitalizeVerb(word)
             = (CHOOSE f : Expanding(f, Upper(word), word, DOMAIN default_context))
                  [DOMAIN default_context]
  BY DEF CapitalizeVerb, FoldLeft, MapThenFoldSet, Expanding, Matched, Shorter

LEMMA ExpansionExists ==
    ASSUME NEW p, NEW word, NEW n \in Nat
    PROVE  \E f : Expanding(f, p, word, 1 .. n)
  <1> DEFINE S == {k \in Nat : \E f : Expanding(f, p, word, 1 .. k)}
  <1>1. 0 \in S
    <2> DEFINE f == [s \in SUBSET {} |-> word]
    <2>1. Expanding(f, p, word, {})
      BY DEF Expanding
    <2> HIDE DEF f
    <2>2. 1 .. 0 = {}
      OBVIOUS
    <2> QED
      BY <2>1, <2>2
  <1>2. ASSUME NEW k \in S PROVE k + 1 \in S
    <2>1. PICK f : Expanding(f, p, word, 1 .. k)
      BY <1>2
    <2> DEFINE g == [s \in SUBSET (1 .. (k + 1)) |->
                        IF k + 1 \in s THEN Matched(p, f[s \ {k + 1}], default_context[k + 1])
                        ELSE f[s]]
    <2>2. k \in Nat
      BY <1>2
    <2>3. ASSUME NEW s \in SUBSET (1 .. (k + 1))
          PROVE  g[s] = IF s = {} THEN word
                        ELSE Matched(p, g[s \ {Max(s)}], default_context[Max(s)])
      <3>1. CASE k + 1 \in s
        <4>1. Max(s) = k + 1
          <5>1. s \in SUBSET Nat /\ \A y \in s : k + 1 >= y
            BY <2>2
          <5> QED
            BY <3>1, <5>1, MaxIsGreatest
        <4>2. s \ {k + 1} \in SUBSET (1 .. k)
          BY <2>2
        <4>3. g[s \ {k + 1}] = f[s \ {k + 1}]
          BY <2>2, <4>2
        <4> QED
          BY <3>1, <4>1, <4>3
      <3>2. CASE k + 1 \notin s
        <4>1. s \in SUBSET (1 .. k)
          BY <2>2, <3>2
        <4>2. f[s] = IF s = {} THEN word
                     ELSE Matched(p, f[s \ {Max(s)}], default_context[Max(s)])
          BY <2>1, <4>1 DEF Expanding
        <4>3. CASE s = {}
          BY <3>2, <4>2, <4>3
        <4>4. CASE s # {}
          <5>1. g[s \ {Max(s)}] = f[s \ {Max(s)}]
            BY <3>2
          <5> QED
            BY <3>2, <4>2, <4>4, <5>1
        <4> QED
          BY <4>3, <4>4
      <3> QED
        BY <3>1, <3>2
    <2>4. g = [s \in SUBSET (1 .. (k + 1)) |-> g[s]]
      OBVIOUS
    <2> HIDE DEF g
    <2>5. Expanding(g, p, word, 1 .. (k + 1))
      BY <2>3, <2>4 DEF Expanding
    <2> QED
      BY <2>2, <2>5
  <1>3. S \in SUBSET Nat
    OBVIOUS
  <1> HIDE DEF S
  <1>4. S = Nat
    BY <1>1, <1>2, <1>3, AllNaturals
  <1> QED
    BY <1>4 DEF S

(* g[i] is *s after the first i entries of the table.                      *)
LEMMA ExpansionStepwise ==
    ASSUME NEW word, Upper(word) \notin DOMAIN Shorthand
    PROVE  \E g : /\ g[0] = word
                  /\ \A i \in 1 .. Size :
                        g[i] = Matched(Upper(word), g[i - 1], default_context[i])
                  /\ CapitalizeVerb(word) = g[Size]
  <1> DEFINE n == Size
             p == Upper(word)
             f == CHOOSE h : Expanding(h, p, word, 1 .. n)
             g == [i \in 0 .. n |-> f[1 .. i]]
  <1>1. n \in Nat /\ DOMAIN default_context = 1 .. n
    BY TableIs
  <1>2. Expanding(f, p, word, 1 .. n)
    BY <1>1, ExpansionExists
  <1>3. CapitalizeVerb(word) = f[1 .. n]
    BY <1>1, ExpansionIsChosen
  <1> HIDE DEF f, n, p
  <1>4. g[0] = word
    <2>1. f[{}] = word
      BY <1>2 DEF Expanding
    <2>2. 1 .. 0 = {}
      OBVIOUS
    <2> QED
      BY <1>1, <2>1, <2>2
  <1>5. ASSUME NEW i \in 1 .. n PROVE g[i] = Matched(p, g[i - 1], default_context[i])
    <2>1. 1 .. i # {} /\ (1 .. i) \ {i} = 1 .. (i - 1) /\ 1 .. i \in SUBSET (1 .. n)
      BY <1>1
    <2>2. Max(1 .. i) = i
      <3>1. 1 .. i \in SUBSET Nat /\ i \in 1 .. i /\ \A y \in 1 .. i : i >= y
        BY <1>1
      <3> QED
        BY <3>1, MaxIsGreatest
    <2>3. f[1 .. i] = Matched(p, f[(1 .. i) \ {Max(1 .. i)}], default_context[Max(1 .. i)])
      BY <1>2, <2>1 DEF Expanding
    <2>4. g[i] = f[1 .. i] /\ g[i - 1] = f[1 .. (i - 1)]
      BY <1>1
    <2> QED
      BY <2>1, <2>2, <2>3, <2>4
  <1>6. g[n] = f[1 .. n]
    BY <1>1
  <1> HIDE DEF g
  <1>7. \A i \in 1 .. n : g[i] = Matched(p, g[i - 1], default_context[i])
    BY <1>5
  <1> QED
    BY <1>3, <1>4, <1>6, <1>7 DEF n, p

(* An entry overwrites the word as it was typed if the word abbreviates it *)
(* (client.cpp:389-397).                                                   *)
LEMMA MatchedWord ==
    ASSUME NEW S, NEW T, NEW p \in Seq(S), NEW word \in Seq(T), Len(p) = Len(word),
           NEW i \in 1 .. Size
    PROVE  Matched(p, word, default_context[i])
             = IF IsPrefix(p, default_context[i]) THEN default_context[i] ELSE word
  <1> DEFINE v == default_context[i]
             len == Shorter(v, word)
  <1>1. v \in Seq(VerbCharacters)
    BY TableIs
  <1> HIDE DEF v
  <1>2. Len(v) \in Nat /\ Len(word) \in Nat
    BY <1>1
  <1>3. len \in 0 .. Len(v) /\ (Len(word) <= Len(v) => len = Len(word))
    BY <1>2 DEF Shorter
  <1> HIDE DEF len
  <1>4. IsPrefix(p, v) <=> Len(p) <= Len(v) /\ SubSeq(v, 1, Len(p)) = p
    BY <1>1, PrefixIs
  <1>5. Len(SubSeq(v, 1, len)) = len
    BY <1>1, <1>3, FirstPart
  <1>6. SubSeq(v, 1, len) = p <=> IsPrefix(p, v)
    <2>1. ASSUME SubSeq(v, 1, len) = p PROVE IsPrefix(p, v)
      <3>1. Len(p) = len
        BY <1>5, <2>1
      <3> QED
        BY <1>2, <1>3, <1>4, <2>1, <3>1
    <2>2. ASSUME IsPrefix(p, v) PROVE SubSeq(v, 1, len) = p
      BY <1>3, <1>4, <2>2
    <2> QED
      BY <2>1, <2>2
  <1> QED
    BY <1>6 DEF Matched, len, v

(* Once the word is a verb that p abbreviates, no other entry matches: a   *)
(* match would make one of the two begin the other.                        *)
LEMMA MatchedVerb ==
    ASSUME NEW S, NEW p \in Seq(S), NEW k \in 1 .. Size, NEW j \in 1 .. Size, k # j,
           IsPrefix(p, default_context[k])
    PROVE  Matched(p, default_context[k], default_context[j]) = default_context[k]
  <1> DEFINE s == default_context[k]
             v == default_context[j]
             len == Shorter(v, s)
  <1>1. s \in Seq(VerbCharacters) /\ v \in Seq(VerbCharacters)
    BY TableIs
  <1>2. ~IsPrefix(s, v) /\ ~IsPrefix(v, s)
    BY TableAssumption, TableIs
  <1>3. IsPrefix(p, s)
    OBVIOUS
  <1> HIDE DEF s, v
  <1>4. Len(s) \in Nat /\ Len(v) \in Nat
    BY <1>1
  <1>5. len \in 0 .. Len(v) /\ len <= Len(s) /\ (len = Len(v) \/ len = Len(s))
    BY <1>4 DEF Shorter
  <1> HIDE DEF len
  <1>6. SubSeq(v, 1, len) # p
    <2> SUFFICES ASSUME SubSeq(v, 1, len) = p PROVE FALSE
      OBVIOUS
    <2>1. Len(p) = len
      BY <1>1, <1>5, FirstPart
    <2>2. CASE len = Len(v)
      <3>1. p = v
        BY <1>1, <2>2, WholePart
      <3> QED
        BY <1>2, <1>3, <3>1
    <2>3. CASE len = Len(s)
      <3>1. SubSeq(s, 1, Len(p)) = p
        BY <1>1, <1>3, PrefixIs
      <3>2. p = s
        BY <1>1, <2>1, <2>3, <3>1, WholePart
      <3>3. Len(s) <= Len(v) /\ SubSeq(v, 1, Len(s)) = s
        BY <1>4, <1>5, <2>3, <3>2
      <3>4. IsPrefix(s, v)
        BY <1>1, <3>3, PrefixIs
      <3> QED
        BY <1>2, <3>4
    <2> QED
      BY <1>5, <2>2, <2>3
  <1> QED
    BY <1>6 DEF Matched, len, s, v

(***************************************************************************)
(* Although the loop goes on after a match, a word of any length that is   *)
(* no shorthand becomes the first verb of the table that it abbreviates,   *)
(* or stays as it was typed (client.cpp:354-400).                          *)
(***************************************************************************)
THEOREM ExpandsToFirst ==
    ASSUME NEW T, NEW word \in Seq(T), Upper(word) \notin DOMAIN Shorthand
    PROVE  CapitalizeVerb(word) =
               IF Upper(word) \in Abbreviations THEN default_context[FirstMatch(Upper(word))]
               ELSE word
  <1> DEFINE p == Upper(word)
  <1>1. PICK S : p \in Seq(S) /\ Len(p) = Len(word)
    BY UpperIs
  <1>2. PICK g : /\ g[0] = word
                 /\ \A i \in 1 .. Size : g[i] = Matched(p, g[i - 1], default_context[i])
                 /\ CapitalizeVerb(word) = g[Size]
    BY ExpansionStepwise
  <1> HIDE DEF p
  <1>3. Size \in Nat
    BY TableIs
  <1>4. CASE \E k : IsFirst(p, k)
    <2>1. PICK k : IsFirst(p, k)
      BY <1>4
    <2>2. /\ k \in 1 .. Size /\ IsPrefix(p, default_context[k])
          /\ \A i \in 1 .. (k - 1) : ~IsPrefix(p, default_context[i])
      BY <2>1 DEF IsFirst
    <2> DEFINE Done == {m \in 0 .. Size : g[m] = IF m < k THEN word ELSE default_context[k]}
    <2>3. ASSUME NEW m \in Done, m < Size PROVE m + 1 \in Done
      <3>1. m \in Nat /\ m + 1 \in 1 .. Size /\ m + 1 \in 0 .. Size /\ (m + 1) - 1 = m
        BY <1>3, <2>3
      <3>2. g[m + 1] = Matched(p, g[m], default_context[m + 1])
        BY <1>2, <3>1
      <3>3. g[m] = IF m < k THEN word ELSE default_context[k]
        OBVIOUS
      <3>4. CASE m < k
        <4>1. g[m + 1] = IF IsPrefix(p, default_context[m + 1]) THEN default_context[m + 1]
                         ELSE word
          BY <1>1, <3>1, <3>2, <3>3, <3>4, MatchedWord
        <4>2. CASE m + 1 = k
          BY <2>2, <3>1, <4>1, <4>2
        <4>3. CASE m + 1 # k
          <5>1. m + 1 \in 1 .. (k - 1) /\ m + 1 < k
            BY <2>2, <3>1, <3>4, <4>3
          <5> QED
            BY <2>2, <3>1, <4>1, <5>1
        <4> QED
          BY <4>2, <4>3
      <3>5. CASE ~ (m < k)
        <4>1. k # m + 1 /\ ~ (m + 1 < k)
          BY <2>2, <3>1, <3>5
        <4>2. g[m + 1] = default_context[k]
          BY <1>1, <2>2, <3>1, <3>2, <3>3, <3>5, <4>1, MatchedVerb
        <4> QED
          BY <3>1, <4>1, <4>2
      <3> QED
        BY <3>4, <3>5
    <2>4. Done \in SUBSET Nat /\ 0 \in Done
      BY <1>2, <1>3, <2>2
    <2> HIDE DEF Done
    <2>5. 0 .. Size \subseteq Done
      BY <1>3, <2>3, <2>4, AllUpTo
    <2>6. Size \in Done
      BY <1>3, <2>5
    <2>7. g[Size] = default_context[k]
      BY <1>3, <2>2, <2>6 DEF Done
    <2>8. p \in Abbreviations
      BY <1>1, <2>2, AbbreviationIs
    <2>9. FirstMatch(p) = k
      BY <2>1, FirstMatchIs
    <2> QED
      BY <1>2, <2>7, <2>8, <2>9 DEF p
  <1>5. CASE ~ \E k : IsFirst(p, k)
    <2>1. \A i \in 1 .. Size : ~IsPrefix(p, default_context[i])
      BY <1>5, FirstExists
    <2> DEFINE Done == {m \in 0 .. Size : g[m] = word}
    <2>2. ASSUME NEW m \in Done, m < Size PROVE m + 1 \in Done
      <3>1. m \in Nat /\ m + 1 \in 1 .. Size /\ m + 1 \in 0 .. Size /\ (m + 1) - 1 = m
        BY <1>3, <2>2
      <3>2. g[m + 1] = Matched(p, word, default_context[m + 1])
        BY <1>2, <3>1
      <3>3. g[m + 1] = word
        BY <1>1, <2>1, <3>1, <3>2, MatchedWord
      <3> QED
        BY <3>1, <3>3
    <2>3. Done \in SUBSET Nat /\ 0 \in Done
      BY <1>2, <1>3
    <2> HIDE DEF Done
    <2>4. 0 .. Size \subseteq Done
      BY <1>3, <2>2, <2>3, AllUpTo
    <2>5. g[Size] = word
      BY <1>3, <2>4 DEF Done
    <2>6. p \notin Abbreviations
      BY <1>1, <2>1, AbbreviationIs
    <2> QED
      BY <1>2, <2>5, <2>6 DEF p
  <1> QED
    BY <1>4, <1>5

-----------------------------------------------------------------------------
(***************************************************************************)
(* The search for the verb in the first word, TAB, and the first word.     *)
(***************************************************************************)

(* In a verb of the table, that verb is what Enter finds first.            *)
LEMMA VerbFindsItself ==
    ASSUME NEW i \in 1 .. Size
    PROVE  FirstVerb(default_context[i]) = default_context[i]
  <1> DEFINE v == default_context[i]
             I == {j \in 1 .. Size : Holds(v, default_context[j])}
             m == Min(I)
  <1>1. v \in Seq(VerbCharacters) /\ Len(default_context) = Size
    BY TableIs DEF Size
  <1>2. i \in I
    <2>1. Holds(v, v)
      <3> HIDE DEF v
      <3>1. Len(v) \in Nat /\ 0 \in 0 .. Len(v) /\ Len(v) \in 0 .. Len(v) /\ 0 + 1 = 1
        BY <1>1
      <3>2. SubSeq(v, 0 + 1, Len(v)) = v
        BY <1>1, <3>1, WholePart
      <3> QED
        BY <3>1, <3>2 DEF Holds, SubSeqs
    <2> QED
      BY <2>1
  <1>3. FirstVerb(v) = LET k == IF I # {} THEN m ELSE 0
                       IN  IF k = 0 THEN <<>> ELSE default_context[k]
    <2> HIDE DEF v
    <2> QED
      BY <1>1 DEF FirstVerb, SelectInSeq
  <1>4. m \in I /\ \A j \in I : m <= j
    <2>1. I \in SUBSET Nat
      OBVIOUS
    <2> HIDE DEF I
    <2> QED
      BY <1>2, <2>1, LeastExists
  <1>5. I # {} /\ I \subseteq 1 .. Size
    BY <1>2
  <1>6. \A j \in I : Holds(v, default_context[j])
    OBVIOUS
  <1> HIDE DEF m, I
  <1>7. m \in 1 .. Size /\ m <= i
    BY <1>2, <1>4, <1>5
  <1>8. ~ (m < i)
    <2>1. m < i => ~Holds(default_context[i], default_context[m])
      BY <1>7, TableIs, TableAssumption
    <2> QED
      BY <1>4, <1>6, <2>1
  <1>9. m = i /\ m # 0
    BY <1>7, <1>8
  <1> QED
    BY <1>3, <1>5, <1>9

(* TAB finds the first verb that the line abbreviates, if there is one.    *)
LEMMA CompletionIs ==
    ASSUME NEW text
    PROVE  \/ Completion(text) = <<>>
           \/ \E k : IsFirst(Upper(text), k) /\ Completion(text) = default_context[k]
  <1> DEFINE p == Upper(text)
             I == {i \in 1 .. Size : IsPrefix(p, default_context[i])}
             m == Min(I)
  <1>1. Len(default_context) = Size
    BY DEF Size
  <1>2. Completion(text) = LET k == IF I # {} THEN m ELSE 0
                           IN  IF k = 0 THEN <<>> ELSE default_context[k]
    BY <1>1 DEF Completion, SelectInSeq
  <1>3. CASE I = {}
    BY <1>2, <1>3
  <1>4. CASE I # {}
    <2>1. m \in I /\ \A j \in I : m <= j
      <3>1. I \in SUBSET Nat
        OBVIOUS
      <3> HIDE DEF I
      <3> QED
        BY <1>4, <3>1, LeastExists
    <2>2. m \in 1 .. Size /\ IsPrefix(p, default_context[m])
      <3> HIDE DEF m
      <3> QED
        BY <2>1
    <2>3. ASSUME NEW j \in 1 .. (m - 1) PROVE ~IsPrefix(p, default_context[j])
      <3> HIDE DEF m
      <3>1. j \in 1 .. Size /\ ~ (m <= j)
        BY <2>2, TableIs
      <3> QED
        BY <2>1, <3>1
    <2> HIDE DEF m, I
    <2>4. IsFirst(p, m)
      BY <2>2, <2>3 DEF IsFirst
    <2>5. m # 0
      BY <2>2
    <2> QED
      BY <1>2, <1>4, <2>4, <2>5
  <1> QED
    BY <1>3, <1>4

LEMMA FirstWordIs ==
    ASSUME NEW S, NEW text \in Seq(S)
    PROVE  FirstWord(text) \in Seq(S) /\ (Space \notin ToSet(text) => FirstWord(text) = text)
  <1> DEFINE I == {i \in 1 .. Len(text) : text[i] = Space}
             m == Min(I)
  <1>1. FirstWord(text) = LET space == IF I # {} THEN m ELSE 0
                          IN  IF space = 0 THEN text ELSE SubSeq(text, 1, space - 1)
    BY DEF FirstWord, SelectInSeq
  <1>2. CASE I = {}
    BY <1>1, <1>2
  <1>3. CASE I # {}
    <2>1. m \in I
      <3>1. I \in SUBSET Nat
        OBVIOUS
      <3> HIDE DEF I
      <3> QED
        BY <1>3, <3>1, LeastExists
    <2>2. Space \in ToSet(text)
      BY <1>3 DEF ToSet
    <2>3. m \in 1 .. Len(text)
      <3> HIDE DEF m
      <3> QED
        BY <2>1
    <2> HIDE DEF m, I
    <2>4. m - 1 \in 0 .. Len(text) /\ m # 0 /\ Len(text) \in Nat
      BY <2>3
    <2>5. SubSeq(text, 1, m - 1) \in Seq(S)
      BY <2>4, FirstPart
    <2> QED
      BY <1>1, <1>3, <2>2, <2>4, <2>5
  <1> QED
    BY <1>2, <1>3

-----------------------------------------------------------------------------
(***************************************************************************)
(* The results.                                                            *)
(***************************************************************************)
Typed == VerbCharacters \cup Letters \cup DOMAIN MCToUpper

LEMMA AbbreviationTyped ==
    ASSUME NEW text \in Abbreviations
    PROVE  text \in Seq(Typed) /\ ToLower(text) \in Seq(Typed)
  <1>1. PICK i \in 1 .. Size : text \in Prefixes(default_context[i])
    BY TableIs DEF Abbreviations
  <1> DEFINE v == default_context[i]
  <1>2. v \in Seq(VerbCharacters)
    BY TableIs
  <1>3. PICK l \in 0 .. Len(v) : text = SubSeq(v, 1, l)
    BY <1>1 DEF Prefixes
  <1>4. text \in Seq(VerbCharacters)
    <2> HIDE DEF v
    <2> QED
      BY <1>2, <1>3, FirstPart
  <1>5. text \in Seq(Typed) /\ DOMAIN text = 1 .. Len(text) /\ Len(text) \in Nat
    BY <1>4 DEF Typed
  <1>6. ToLower(text) \in Seq(Typed)
    <2> DEFINE t == ToLower(text)
    <2>1. t = [j \in 1 .. Len(text) |-> t[j]]
      BY <1>5 DEF ToLower
    <2>2. ASSUME NEW j \in 1 .. Len(text) PROVE t[j] \in Typed
      <3>1. CASE \E c \in DOMAIN MCToUpper : MCToUpper[c] = text[j]
        <4>1. t[j] = CHOOSE c \in DOMAIN MCToUpper : MCToUpper[c] = text[j]
          BY <1>5, <3>1 DEF ToLower
        <4>2. t[j] \in DOMAIN MCToUpper
          BY <3>1, <4>1
        <4> QED
          BY <4>2 DEF Typed
      <3>2. CASE ~ \E c \in DOMAIN MCToUpper : MCToUpper[c] = text[j]
        <4>1. t[j] = text[j]
          BY <1>5, <3>2 DEF ToLower
        <4> QED
          BY <1>5, <4>1
      <3> QED
        BY <3>1, <3>2
    <2> HIDE DEF t
    <2>3. t \in Seq(Typed)
      BY <1>5, <2>1, <2>2
    <2> QED
      BY <2>3 DEF t
  <1> QED
    BY <1>5, <1>6

LineTyped == line \in Seq(Typed)

LEMMA LineIsText == Spec => []LineTyped
  <1>1. Init => LineTyped
    BY AbbreviationTyped DEF Init, LineTyped
  <1>2. LineTyped /\ [Next]_line => LineTyped'
    BY DEF Next, Type, Typed, LineTyped
  <1> QED
    BY <1>1, <1>2, PTL DEF Spec

(* The first match wins, for every line that can be typed.                 *)
THEOREM FirstMatchCorrect == Spec => []FirstMatchWins
  <1>1. LineTyped => FirstMatchWins
    <2> SUFFICES ASSUME LineTyped PROVE FirstMatchWins
      OBVIOUS
    <2>1. FirstWord(line) \in Seq(Typed)
      BY FirstWordIs DEF LineTyped
    <2> QED
      BY <2>1, ExpandsToFirst DEF FirstMatchWins
  <1> QED
    BY <1>1, LineIsText, PTL

(* Enter finds the verb that the first word was expanded to.               *)
THEOREM ExpansionFoundCorrect == Spec => []ExpansionFound
  <1>1. ExpansionFound
    <2> SUFFICES ASSUME CapitalizeVerb(FirstWord(line)) \in Verbs
                 PROVE  LineContext(line).verb = CapitalizeVerb(FirstWord(line))
      BY DEF ExpansionFound
    <2>1. PICK i \in 1 .. Size : CapitalizeVerb(FirstWord(line)) = default_context[i]
      BY TableIs DEF Verbs, ToSet
    <2>2. LineContext(line).verb = FirstVerb(CapitalizeVerb(FirstWord(line)))
      BY DEF LineContext
    <2> QED
      BY <2>1, <2>2, VerbFindsItself
  <1> QED
    BY <1>1, PTL

(* TAB and Enter read an abbreviation alike, but for the "S".              *)
THEOREM TabAgreesCorrect == Spec => []TabAgreesWithEnter
  <1>1. LineTyped => TabAgreesWithEnter
    <2> SUFFICES ASSUME LineTyped PROVE TabAgreesWithEnter
      OBVIOUS
    <2>0. line \in Seq(Typed)
      BY DEF LineTyped
    <2> SUFFICES ASSUME Space \notin ToSet(line), Upper(line) # Chars("S"), Completion(line) # <<>>
                 PROVE  LineContext(line).verb = Completion(line)
      BY DEF TabAgreesWithEnter
    <2> DEFINE p == Upper(line)
    <2>1. FirstWord(line) = line
      BY <2>0, FirstWordIs
    <2>2. PICK k : IsFirst(p, k) /\ Completion(line) = default_context[k]
      BY CompletionIs
    <2>3. k \in 1 .. Size /\ IsPrefix(p, default_context[k]) /\ FirstMatch(p) = k
      BY <2>2, FirstMatchIs DEF IsFirst
    <2>4. CapitalizeVerb(line) = default_context[k]
      <3>1. CASE p \in DOMAIN Shorthand
        <4>1. Shorthand[p] = default_context[FirstMatch(p)]
          BY <3>1, TableAssumption
        <4>2. CapitalizeVerb(line) = Shorthand[p]
          BY <3>1 DEF CapitalizeVerb
        <4> QED
          BY <2>3, <4>1, <4>2
      <3>2. CASE p \notin DOMAIN Shorthand
        <4>1. p \in Abbreviations
          <5>1. PICK S : p \in Seq(S)
            BY <2>0, UpperIs
          <5> QED
            BY <2>3, <5>1, AbbreviationIs
        <4> QED
          BY <2>0, <2>3, <3>2, <4>1, ExpandsToFirst
      <3> QED
        BY <3>1, <3>2
    <2>5. LineContext(line).verb = FirstVerb(CapitalizeVerb(FirstWord(line)))
      BY DEF LineContext
    <2> QED
      BY <2>1, <2>2, <2>3, <2>4, <2>5, VerbFindsItself
  <1> QED
    BY <1>1, LineIsText, PTL
=============================================================================
