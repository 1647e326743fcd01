---------------------------- MODULE SpongeProofs ----------------------------
(***************************************************************************)
(* Proofs about Sponge, for words and blocks of every size and messages of *)
(* every length: what keccakf is given is the padded message, however      *)
(* sha3_Update got it, and no two messages are given to it alike.          *)
(***************************************************************************)
EXTENDS Sponge, DataLemmas

-----------------------------------------------------------------------------
(* Where byte j of word i of block b stands in the message; blocks are     *)
(* counted from 0 here.                                                    *)

WordAt(b, i) == b * Rate + i

Pos(b, i, j) == WordAt(b, i) * WordBytes + j + 1

LEMMA Times ==
    ASSUME NEW a \in Nat, NEW b \in Nat, NEW w \in Nat, a <= b
    PROVE  a * w \in Nat /\ b * w \in Nat /\ a * w <= b * w
  <1>1. PICK d \in Nat : b = a + d
    <2>1. b - a \in Nat /\ b = a + (b - a)
      OBVIOUS
    <2> QED
      BY <2>1
  <1>2. b * w = a * w + d * w
    BY <1>1
  <1>3. a * w \in Nat /\ d * w \in Nat
    BY <1>1
  <1> QED
    BY <1>2, <1>3

LEMMA PosType ==
    ASSUME NEW b \in Nat, NEW i \in Nat, NEW j \in Nat
    PROVE  WordAt(b, i) \in Nat /\ Pos(b, i, j) \in Nat /\ Pos(b, i, j) >= 1
  <1>1. b * Rate \in Nat
    BY SpongeAssumption
  <1>2. WordAt(b, i) \in Nat
    BY <1>1 DEF WordAt
  <1>3. WordAt(b, i) * WordBytes \in Nat
    BY <1>2, SpongeAssumption
  <1> QED
    BY <1>2, <1>3 DEF Pos

LEMMA PosByte ==
    ASSUME NEW b \in Nat, NEW i \in Nat, NEW j \in Nat, NEW k \in Nat
    PROVE  Pos(b, i, j + k) = Pos(b, i, j) + k
  <1>1. WordAt(b, i) \in Nat /\ WordAt(b, i) * WordBytes \in Nat
    BY PosType, SpongeAssumption
  <1> QED
    BY <1>1 DEF Pos

LEMMA PosWord ==
    ASSUME NEW b \in Nat, NEW i \in Nat
    PROVE  Pos(b, i, WordBytes) = Pos(b, i + 1, 0)
  <1>1. WordAt(b, i) \in Nat /\ WordAt(b, i) * WordBytes \in Nat /\ WordBytes \in Nat
    BY PosType, SpongeAssumption
  <1>2. WordAt(b, i + 1) = WordAt(b, i) + 1
    <2>1. b * Rate \in Nat
      BY SpongeAssumption
    <2> QED
      BY <2>1 DEF WordAt
  <1>3. (WordAt(b, i) + 1) * WordBytes = WordAt(b, i) * WordBytes + WordBytes
    BY <1>1
  <1> QED
    BY <1>1, <1>2, <1>3 DEF Pos

LEMMA PosBlock ==
    ASSUME NEW b \in Nat, NEW j \in Nat
    PROVE  Pos(b, Rate, j) = Pos(b + 1, 0, j)
  <1>1. WordAt(b, Rate) = WordAt(b + 1, 0)
    BY SpongeAssumption DEF WordAt
  <1> QED
    BY <1>1 DEF Pos

(* Words and blocks follow one another.                                    *)
LEMMA PosOrder ==
    ASSUME NEW b \in Nat, NEW i \in 0 .. (Rate - 1), NEW j \in InWord,
           NEW c \in Nat, NEW k \in Nat, NEW l \in Nat,
           b < c \/ (b = c /\ i < k) \/ (b = c /\ i = k /\ j < l)
    PROVE  Pos(b, i, j) < Pos(c, k, l)
  <1>1. /\ Rate \in Nat /\ WordBytes \in Nat /\ i \in Nat /\ j \in Nat
        /\ i < Rate /\ j < WordBytes
    BY SpongeAssumption DEF InWord
  <1>2. b * Rate \in Nat /\ c * Rate \in Nat
    BY <1>1
  <1>3. /\ WordAt(b, i) \in Nat /\ WordAt(c, k) \in Nat
        /\ WordAt(b, i) * WordBytes \in Nat /\ WordAt(c, k) * WordBytes \in Nat
    <2>1. WordAt(b, i) \in Nat /\ WordAt(c, k) \in Nat
      BY <1>1, PosType
    <2> QED
      BY <1>1, <2>1
  <1>4. CASE b = c /\ i = k /\ j < l
    BY <1>1, <1>3, <1>4 DEF Pos
  <1>5. CASE b < c \/ (b = c /\ i < k)
    <2>1. WordAt(b, i) + 1 <= WordAt(c, k)
      <3>1. CASE b = c
        BY <1>1, <1>2, <1>5, <3>1 DEF WordAt
      <3>2. CASE b < c
        <4>1. (b + 1) * Rate <= c * Rate
          BY <1>1, <3>2, Times
        <4>2. (b + 1) * Rate = b * Rate + Rate
          BY <1>1
        <4> QED
          BY <1>1, <1>2, <4>1, <4>2 DEF WordAt
      <3> QED
        BY <1>5, <3>1, <3>2
    <2>2. (WordAt(b, i) + 1) * WordBytes <= WordAt(c, k) * WordBytes
      BY <1>1, <1>3, <2>1, Times
    <2>3. (WordAt(b, i) + 1) * WordBytes = WordAt(b, i) * WordBytes + WordBytes
      BY <1>1, <1>3
    <2> QED
      BY <1>1, <1>3, <2>2, <2>3 DEF Pos
  <1> QED
    BY <1>4, <1>5

(* Every number is a multiple and a rest.                                  *)
LEMMA Division ==
    ASSUME NEW n \in Nat, NEW d \in Nat \ {0}
    PROVE  \E q \in Nat : \E r \in 0 .. (d - 1) : n = q * d + r
  <1>1. n \div d \in Nat /\ n % d \in 0 .. (d - 1) /\ n = (n \div d) * d + (n % d)
    OBVIOUS
  <1> QED
    BY <1>1

LEMMA Quotient ==
    ASSUME NEW q \in Nat, NEW d \in Nat \ {0}, NEW r \in 0 .. (d - 1)
    PROVE  (q * d + r) \div d = q /\ (q * d + r) % d = r
  OBVIOUS

-----------------------------------------------------------------------------
(* The fold over the words of a buffer, one word at a time.                *)

Folding(f, c, words, D) ==
    f = [s \in SUBSET D |->
            IF s = {} THEN c ELSE AbsorbWord(f[s \ {Max(s)}], words[Max(s)])]

Folded(c, words) == FoldLeft(AbsorbWord, c, words)

LEMMA FoldIsChosen ==
    ASSUME NEW c, NEW words
    PROVE  Folded(c, words)
             = (CHOOSE f : Folding(f, c, words, DOMAIN words))[DOMAIN words]
  BY DEF Folded, FoldLeft, MapThenFoldSet, Folding

LEMMA FoldExists ==
    ASSUME NEW c, NEW words, NEW n \in Nat
    PROVE  \E f : Folding(f, c, words, 1 .. n)
  <1> DEFINE S == {k \in Nat : \E f : Folding(f, c, words, 1 .. k)}
  <1>1. 0 \in S
    <2> DEFINE f == [s \in SUBSET {} |-> c]
    <2>1. Folding(f, c, words, {})
      BY DEF Folding
    <2> HIDE DEF f
    <2>2. 1 .. 0 = {}
      OBVIOUS
    <2> QED
      BY <2>1, <2>2
  <1>2. ASSUME NEW k \in S PROVE k + 1 \in S
    <2>1. PICK f : Folding(f, c, words, 1 .. k)
      BY <1>2
    <2> DEFINE g == [s \in SUBSET (1 .. (k + 1)) |->
                        IF k + 1 \in s THEN AbsorbWord(f[s \ {k + 1}], words[k + 1]) ELSE f[s]]
    <2>2. k \in Nat
      BY <1>2
    <2>3. ASSUME NEW s \in SUBSET (1 .. (k + 1))
          PROVE  g[s] = IF s = {} THEN c ELSE AbsorbWord(g[s \ {Max(s)}], words[Max(s)])
      <3>1. CASE k + 1 \in s
        <4>1. Max(s) = k + 1
          <5>1. s \in SUBSET Nat /\ \A y \in s : k + 1 >= y
            BY <2>2
          <5> QED
            BY <3>1, <5>1, MaxIsGreatest
        <4>2. s \ {k + 1} \in SUBSET (1 .. k)
          BY <2>2
        <4>3. g[s \ {k + 1}] = f[s \ {k + 1}]
          BY <2>2, <4>2
        <4> QED
          BY <3>1, <4>1, <4>3
      <3>2. CASE k + 1 \notin s
        <4>1. s \in SUBSET (1 .. k)
          BY <2>2, <3>2
        <4>2. f[s] = IF s = {} THEN c ELSE AbsorbWord(f[s \ {Max(s)}], words[Max(s)])
          BY <2>1, <4>1 DEF Folding
        <4>3. CASE s = {}
          BY <3>2, <4>2, <4>3
        <4>4. CASE s # {}
          <5>1. g[s \ {Max(s)}] = f[s \ {Max(s)}]
            BY <3>2
          <5> QED
            BY <3>2, <4>2, <4>4, <5>1
        <4> QED
          BY <4>3, <4>4
      <3> QED
        BY <3>1, <3>2
    <2>4. g = [s \in SUBSET (1 .. (k + 1)) |-> g[s]]
      OBVIOUS
    <2> HIDE DEF g
    <2>5. Folding(g, c, words, 1 .. (k + 1))
      BY <2>3, <2>4 DEF Folding
    <2> QED
      BY <2>2, <2>5
  <1>3. S \in SUBSET Nat
    OBVIOUS
  <1> HIDE DEF S
  <1>4. S = Nat
    BY <1>1, <1>2, <1>3, AllNaturals
  <1> QED
    BY <1>4 DEF S

LEMMA FoldStepwise ==
    ASSUME NEW c, NEW S, NEW words \in Seq(S)
    PROVE  \E g : /\ g[0] = c
                  /\ \A i \in 1 .. Len(words) : g[i] = AbsorbWord(g[i - 1], words[i])
                  /\ Folded(c, words) = g[Len(words)]
  <1> DEFINE n == Len(words)
             f == CHOOSE h : Folding(h, c, words, 1 .. n)
             g == [i \in 0 .. n |-> f[1 .. i]]
  <1>1. n \in Nat /\ DOMAIN words = 1 .. n
    OBVIOUS
  <1>2. Folding(f, c, words, 1 .. n)
    BY <1>1, FoldExists
  <1>3. Folded(c, words) = f[1 .. n]
    BY <1>1, FoldIsChosen
  <1> HIDE DEF f, n
  <1>4. g[0] = c
    <2>1. f[{}] = c
      BY <1>2 DEF Folding
    <2>2. 1 .. 0 = {}
      OBVIOUS
    <2> QED
      BY <1>1, <2>1, <2>2
  <1>5. ASSUME NEW i \in 1 .. n PROVE g[i] = AbsorbWord(g[i - 1], words[i])
    <2>1. 1 .. i # {} /\ (1 .. i) \ {i} = 1 .. (i - 1) /\ 1 .. i \in SUBSET (1 .. n)
      BY <1>1
    <2>2. Max(1 .. i) = i
      <3>1. 1 .. i \in SUBSET Nat /\ i \in 1 .. i /\ \A y \in 1 .. i : i >= y
        BY <1>1
      <3> QED
        BY <3>1, MaxIsGreatest
    <2>3. f[1 .. i] = AbsorbWord(f[(1 .. i) \ {Max(1 .. i)}], words[Max(1 .. i)])
      BY <1>2, <2>1 DEF Folding
    <2>4. g[i] = f[1 .. i] /\ g[i - 1] = f[1 .. (i - 1)]
      BY <1>1
    <2> QED
      BY <2>1, <2>2, <2>3, <2>4
  <1>6. g[n] = f[1 .. n]
    BY <1>1
  <1> HIDE DEF g
  <1>7. \A i \in 1 .. n : g[i] = AbsorbWord(g[i - 1], words[i])
    BY <1>5
  <1> QED
    BY <1>3, <1>4, <1>6, <1>7 DEF n

-----------------------------------------------------------------------------
(***************************************************************************)
(* What the context has of the message m once len bytes of it are hashed:  *)
(* the bytes of the full blocks in what was permuted, those of the words   *)
(* since then in the state, and the rest in saved; nothing else is in the  *)
(* state or in saved.                                                      *)
(***************************************************************************)
Blocks == [0 .. (Rate - 1) -> Words]

Contexts ==
    [s : Blocks, permuted : Seq(Blocks), saved : Words,
     byteIndex : 0 .. WordBytes, wordIndex : 0 .. (Rate - 1), keccak : BOOLEAN]

Reached(c, len) == len + 1 = Pos(Len(c.permuted), c.wordIndex, c.byteIndex)

PermutedIs(c, m) ==
    \A b \in 1 .. Len(c.permuted), i \in 0 .. (Rate - 1), j \in InWord :
        c.permuted[b][i][j] = m[Pos(b - 1, i, j)]

StateIs(c, m) ==
    \A i \in 0 .. (Rate - 1), j \in InWord :
        c.s[i][j] = IF i < c.wordIndex THEN m[Pos(Len(c.permuted), i, j)] ELSE {}

SavedIs(c, m) ==
    \A j \in InWord :
        c.saved[j] = IF j < c.byteIndex THEN m[Pos(Len(c.permuted), c.wordIndex, j)] ELSE {}

Holds(c, m, len) == Reached(c, len) /\ PermutedIs(c, m) /\ StateIs(c, m) /\ SavedIs(c, m)

LEMMA Constants ==
    /\ Rate \in Nat /\ Rate >= 1 /\ Rate - 1 \in 0 .. (Rate - 1) /\ 0 \in 0 .. (Rate - 1)
    /\ WordBytes \in Nat /\ WordBytes >= 1 /\ WordBytes - 1 \in InWord /\ 0 \in InWord
    /\ InWord \subseteq Nat /\ \A j \in InWord : j < WordBytes
    /\ Zero \in Words /\ \A j \in InWord : Zero[j] = {}
    /\ EmptyState \in Blocks /\ \A i \in 0 .. (Rate - 1) : EmptyState[i] = Zero
  <1>1. Rate \in Nat /\ Rate >= 1 /\ WordBytes \in Nat /\ WordBytes >= 1
    BY SpongeAssumption
  <1>2. Zero \in Words /\ \A j \in InWord : Zero[j] = {}
    BY DEF Zero, Words
  <1>3. EmptyState \in Blocks /\ \A i \in 0 .. (Rate - 1) : EmptyState[i] = Zero
    BY <1>2 DEF EmptyState, Blocks
  <1> QED
    BY <1>1, <1>2, <1>3 DEF InWord

LEMMA XorType ==
    ASSUME NEW v \in Words, NEW w \in Words
    PROVE  /\ Xor(v, w) \in Words
           /\ \A j \in InWord : Xor(v, w)[j] = SymDiff(v[j], w[j])
  BY DEF Xor, Words, SymDiff

(* What each operation leaves in the fields of the context.                *)
LEMMA XorAtFields ==
    ASSUME NEW c \in Contexts, NEW i \in 0 .. (Rate - 1), NEW word \in Words
    PROVE  LET d == XorAt(c, i, word)
           IN  /\ d \in Contexts
               /\ d.s = [c.s EXCEPT ![i] = Xor(c.s[i], word)]
               /\ d.permuted = c.permuted /\ d.saved = c.saved /\ d.keccak = c.keccak
               /\ d.byteIndex = c.byteIndex /\ d.wordIndex = c.wordIndex
  <1>1. c.s \in Blocks /\ Xor(c.s[i], word) \in Words
    BY XorType DEF Contexts, Blocks
  <1> QED
    BY <1>1 DEF XorAt, Contexts, Blocks

LEMMA KeccakfFields ==
    ASSUME NEW c \in Contexts
    PROVE  LET d == Keccakf(c)
           IN  /\ d \in Contexts
               /\ d.s = EmptyState /\ d.permuted = Append(c.permuted, c.s)
               /\ d.saved = c.saved /\ d.keccak = c.keccak
               /\ d.byteIndex = c.byteIndex /\ d.wordIndex = c.wordIndex
  <1>1. EmptyState \in Blocks /\ Append(c.permuted, c.s) \in Seq(Blocks)
    BY Constants DEF Contexts
  <1> HIDE DEF Blocks
  <1> QED
    BY <1>1 DEF Keccakf, Contexts

LEMMA AbsorbWordFields ==
    ASSUME NEW c \in Contexts, NEW word \in Words
    PROVE  LET i == c.wordIndex
               t == [c.s EXCEPT ![i] = Xor(c.s[i], word)]
               d == AbsorbWord(c, word)
           IN  /\ d \in Contexts
               /\ t \in Blocks
               /\ d.saved = c.saved /\ d.byteIndex = c.byteIndex /\ d.keccak = c.keccak
               /\ IF i + 1 = Rate
                  THEN /\ d.s = EmptyState /\ d.wordIndex = 0
                       /\ d.permuted = Append(c.permuted, t)
                  ELSE d.s = t /\ d.wordIndex = i + 1 /\ d.permuted = c.permuted
  <1> DEFINE i == c.wordIndex
             t == [c.s EXCEPT ![i] = Xor(c.s[i], word)]
             x == XorAt(c, i, word)
             a == [x EXCEPT !.wordIndex = @ + 1]
             d == AbsorbWord(c, word)
  <1>1. i \in 0 .. (Rate - 1) /\ Rate \in Nat
    BY Constants DEF Contexts
  <1>2. /\ x \in Contexts /\ x.s = t /\ t \in Blocks
        /\ x.permuted = c.permuted /\ x.saved = c.saved /\ x.keccak = c.keccak
        /\ x.byteIndex = c.byteIndex /\ x.wordIndex = i
    BY <1>1, XorAtFields DEF Contexts
  <1> HIDE DEF x, t
  <1>3. /\ a.s = t /\ a.permuted = c.permuted /\ a.saved = c.saved /\ a.keccak = c.keccak
        /\ a.byteIndex = c.byteIndex /\ a.wordIndex = i + 1
    BY <1>2 DEF Contexts
  <1>4. CASE i + 1 = Rate
    <2> DEFINE k == Keccakf(x)
    <2>1. k \in Contexts /\ k.s = EmptyState /\ k.permuted = Append(x.permuted, x.s)
          /\ k.saved = x.saved /\ k.keccak = x.keccak /\ k.byteIndex = x.byteIndex
      BY <1>2, KeccakfFields
    <2>2. [Keccakf(a) EXCEPT !.wordIndex = 0] = [k EXCEPT !.wordIndex = 0]
      BY <1>2, <1>3 DEF Keccakf, Contexts
    <2>3. d = [k EXCEPT !.wordIndex = 0]
      BY <1>2, <1>3, <1>4, <2>2 DEF AbsorbWord, x
    <2> HIDE DEF k, d
    <2> QED
      BY <1>2, <1>4, <2>1, <2>3, Constants DEF Contexts, t, d
  <1>5. CASE i + 1 # Rate
    <2>1. d = a
      BY <1>3, <1>5 DEF AbsorbWord, x
    <2>2. a \in Contexts
      BY <1>1, <1>2, <1>5 DEF Contexts
    <2> QED
      BY <1>2, <1>3, <1>5, <2>1, <2>2 DEF t
  <1> QED
    BY <1>4, <1>5

-----------------------------------------------------------------------------
(* The word that comes next in the message, up to its byte len.            *)
IsNext(word, c, m, len) ==
    /\ len + 1 = Pos(Len(c.permuted), c.wordIndex + 1, 0)
    /\ \A j \in InWord : word[j] = m[Pos(Len(c.permuted), c.wordIndex, j)]

(* That word is absorbed.                                                  *)
LEMMA AbsorbWordHolds ==
    ASSUME NEW c \in Contexts, NEW m, NEW word \in Words, NEW len \in Nat,
           c.byteIndex = 0, c.saved = Zero,
           PermutedIs(c, m), StateIs(c, m), IsNext(word, c, m, len)
    PROVE  LET d == AbsorbWord(c, word)
           IN  /\ d \in Contexts /\ Holds(d, m, len)
               /\ d.byteIndex = 0 /\ d.saved = Zero /\ d.keccak = c.keccak
  <1> DEFINE P == Len(c.permuted)
             w == c.wordIndex
             t == [c.s EXCEPT ![w] = Xor(c.s[w], word)]
             d == AbsorbWord(c, word)
  <1> USE DEF IsNext
  <1>1. /\ P \in Nat /\ w \in 0 .. (Rate - 1) /\ c.s \in Blocks /\ c.permuted \in Seq(Blocks)
        /\ \A i \in 0 .. (Rate - 1) : c.s[i] \in Words
        /\ Rate \in Nat
    BY Constants DEF Contexts, Blocks
  <1>2. /\ d \in Contexts
        /\ t \in Blocks
        /\ d.saved = c.saved /\ d.byteIndex = c.byteIndex /\ d.keccak = c.keccak
        /\ w + 1 = Rate =>
              d.s = EmptyState /\ d.wordIndex = 0 /\ d.permuted = Append(c.permuted, t)
        /\ w + 1 # Rate =>
              d.s = t /\ d.wordIndex = w + 1 /\ d.permuted = c.permuted
    BY AbsorbWordFields
  <1>3. ASSUME NEW i \in 0 .. (Rate - 1), NEW j \in InWord
        PROVE  t[i][j] = IF i < w + 1 THEN m[Pos(P, i, j)] ELSE {}
    <2>1. c.s[i][j] = IF i < w THEN m[Pos(P, i, j)] ELSE {}
      BY DEF StateIs
    <2>2. CASE i = w
      <3>1. t[i][j] = SymDiff(c.s[w][j], word[j])
        BY <1>1, <2>2, XorType DEF Blocks
      <3>2. c.s[w][j] = {}
        BY <1>1, <2>1, <2>2
      <3> QED
        BY <1>1, <2>2, <3>1, <3>2 DEF SymDiff
    <2>3. CASE i # w
      <3>1. t[i] = c.s[i]
        BY <1>1, <2>3 DEF Blocks
      <3> QED
        BY <1>1, <2>1, <2>3, <3>1
    <2> QED
      BY <2>2, <2>3
  <1> HIDE DEF t, d
  <1>4. SavedIs(d, m)
    <2>1. d.saved = Zero /\ d.byteIndex = 0
      BY <1>2
    <2>2. \A j \in InWord : Zero[j] = {} /\ ~(j < 0)
      BY Constants
    <2> QED
      BY <2>1, <2>2 DEF SavedIs
  <1>5. CASE w + 1 = Rate
    <2>1. d.permuted = Append(c.permuted, t) /\ Len(d.permuted) = P + 1 /\ d.permuted[P + 1] = t
          /\ \A b \in 1 .. P : d.permuted[b] = c.permuted[b]
      BY <1>1, <1>2, <1>5
    <2>2. Reached(d, len)
      <3>1. Pos(P, Rate, 0) = Pos(P + 1, 0, 0)
        BY <1>1, PosBlock, SMTT(30)
      <3>2. d.wordIndex = 0 /\ d.byteIndex = 0
        BY <1>2, <1>5
      <3> QED
        BY <1>5, <2>1, <3>1, <3>2 DEF Reached
    <2>3. PermutedIs(d, m)
      <3> SUFFICES ASSUME NEW b \in 1 .. (P + 1), NEW i \in 0 .. (Rate - 1), NEW j \in InWord
                   PROVE  d.permuted[b][i][j] = m[Pos(b - 1, i, j)]
        BY <2>1 DEF PermutedIs
      <3> HIDE DEF P
      <3>1. CASE b = P + 1
        <4>1. t[i][j] = m[Pos(P, i, j)]
          BY <1>1, <1>3, <1>5
        <4>2. b - 1 = P
          BY <1>1, <3>1
        <4>3. d.permuted[b] = t
          BY <2>1, <3>1
        <4> QED
          BY <4>1, <4>2, <4>3
      <3>2. CASE b # P + 1
        <4>1. b \in 1 .. P
          BY <1>1, <3>2
        <4>2. d.permuted[b] = c.permuted[b]
          BY <2>1, <4>1
        <4>3. c.permuted[b][i][j] = m[Pos(b - 1, i, j)]
          BY <4>1 DEF PermutedIs, P
        <4> QED
          BY <4>2, <4>3
      <3> QED
        BY <3>1, <3>2
    <2>4. StateIs(d, m)
      <3>1. d.s = EmptyState /\ d.wordIndex = 0
        BY <1>2, <1>5
      <3>2. \A i \in 0 .. (Rate - 1), j \in InWord : EmptyState[i][j] = {} /\ ~(i < 0)
        BY Constants
      <3> QED
        BY <3>1, <3>2 DEF StateIs
    <2> QED
      BY <1>2, <1>4, <2>2, <2>3, <2>4 DEF Holds, d
  <1>6. CASE w + 1 # Rate
    <2>1. Reached(d, len) /\ PermutedIs(d, m)
      BY <1>2, <1>6 DEF Reached, PermutedIs
    <2>2. StateIs(d, m)
      BY <1>2, <1>3, <1>6 DEF StateIs
    <2> QED
      BY <1>2, <1>4, <2>1, <2>2 DEF Holds, d
  <1> QED
    BY <1>5, <1>6

(* Bytes that follow are kept, as long as they fit in the word.            *)
Piece(buf, m, len) == \A i \in 1 .. Len(buf) : buf[i] = m[len + i]

LEMMA SaveHolds ==
    ASSUME NEW c \in Contexts, NEW m, NEW buf \in Seq(Bytes), NEW len \in Nat,
           Holds(c, m, len), Piece(buf, m, len), c.byteIndex + Len(buf) <= WordBytes
    PROVE  LET d == Save(c, buf)
           IN  /\ d \in Contexts /\ Holds(d, m, len + Len(buf))
               /\ d.byteIndex = c.byteIndex + Len(buf) /\ d.keccak = c.keccak
  <1> DEFINE d == Save(c, buf)
             n == Len(buf)
             k == c.byteIndex
             P == Len(c.permuted)
             w == c.wordIndex
             v == [j \in InWord |-> IF j - k + 1 \in DOMAIN buf
                                    THEN c.saved[j] \cup buf[j - k + 1]
                                    ELSE c.saved[j]]
  <1>1. /\ n \in Nat /\ k \in Nat /\ k + n \in 0 .. WordBytes /\ P \in Nat /\ w \in Nat
        /\ DOMAIN buf = 1 .. n /\ c.saved \in Words
        /\ \A i \in 1 .. n : buf[i] \in SUBSET (0 .. 7)
        /\ InWord \subseteq Nat
    <2>1. n \in Nat /\ DOMAIN buf = 1 .. n /\ \A i \in 1 .. n : buf[i] \in Bytes
      OBVIOUS
    <2>2. WordBytes \in Nat /\ InWord \subseteq Nat /\ Bytes \subseteq SUBSET (0 .. 7)
      BY Constants, SpongeAssumption
    <2>3. k \in 0 .. WordBytes /\ w \in Nat /\ c.saved \in Words /\ c.permuted \in Seq(Blocks)
      BY DEF Contexts
    <2>4. P \in Nat
      BY <2>3
    <2>5. k + n \in 0 .. WordBytes
      BY <2>1, <2>2, <2>3
    <2>6. \A i \in 1 .. n : buf[i] \in SUBSET (0 .. 7)
      BY <2>1, <2>2
    <2> HIDE DEF n, k, P, w, v, d
    <2> QED
      BY <2>1, <2>2, <2>3, <2>4, <2>5, <2>6
  <1>2. v \in Words
    BY <1>1 DEF Words
  <1>3. /\ d.s = c.s /\ d.permuted = c.permuted /\ d.wordIndex = w /\ d.keccak = c.keccak
        /\ d.saved = v /\ d.byteIndex = k + n
    BY DEF Save, Contexts
  <1>4. d \in Contexts
    <2> HIDE DEF v
    <2>1. d = [c EXCEPT !.saved = v, !.byteIndex = k + n]
      BY DEF Save, v
    <2> QED
      BY <1>1, <1>2, <2>1 DEF Contexts
  <1>5. Reached(d, len + n)
    <2>1. Pos(P, w, k + n) = Pos(P, w, k) + n
      BY <1>1, PosByte
    <2>2. len + 1 = Pos(P, w, k)
      BY DEF Holds, Reached
    <2> QED
      BY <1>1, <1>3, <2>1, <2>2 DEF Reached
  <1>6. PermutedIs(d, m) /\ StateIs(d, m)
    BY <1>3, SMTT(30) DEF Holds, PermutedIs, StateIs
  <1>7. SavedIs(d, m)
    <2> SUFFICES ASSUME NEW j \in InWord
                 PROVE  v[j] = IF j < k + n THEN m[Pos(P, w, j)] ELSE {}
      BY <1>3 DEF SavedIs
    <2>1. c.saved[j] = IF j < k THEN m[Pos(P, w, j)] ELSE {}
      BY DEF Holds, SavedIs
    <2>2. CASE j < k \/ j >= k + n
      BY <1>1, <2>1, <2>2
    <2>3. CASE k <= j /\ j < k + n
      <3>1. j - k \in Nat /\ j - k + 1 \in 1 .. n /\ j = k + (j - k)
        BY <1>1, <2>3, SMTT(30)
      <3>2. Pos(P, w, j) = Pos(P, w, k) + (j - k)
        <4> DEFINE r == j - k
        <4>1. r \in Nat /\ j = k + r /\ P \in Nat /\ w \in Nat /\ k \in Nat
          BY <1>1, <3>1
        <4> HIDE DEF r, P, w, k, v, d, n
        <4>2. Pos(P, w, k + r) = Pos(P, w, k) + r
          BY <1>1, <4>1, PosByte
        <4>3. Pos(P, w, j) = Pos(P, w, k) + r
          BY <4>1, <4>2
        <4> QED
          BY <4>3 DEF r
      <3>3. Pos(P, w, k) = len + 1
        BY DEF Holds, Reached
      <3>4. Pos(P, w, j) = len + (j - k + 1)
        <4>1. j - k \in Nat
          BY <3>1
        <4> HIDE DEF P, w, k, v, d, n
        <4> QED
          BY <3>2, <3>3, <4>1
      <3>5. buf[j - k + 1] = m[Pos(P, w, j)]
        BY <3>1, <3>4 DEF Piece
      <3>6. v[j] = c.saved[j] \cup buf[j - k + 1]
        BY <1>1, <3>1
      <3> QED
        BY <1>1, <2>1, <2>3, <3>5, <3>6
    <2> QED
      BY <1>1, <2>2, <2>3
  <1> HIDE DEF d
  <1> QED
    BY <1>3, <1>4, <1>5, <1>6, <1>7 DEF Holds, d

LEMMA NothingSaved ==
    ASSUME NEW c \in Contexts, NEW m, c.byteIndex = 0, SavedIs(c, m)
    PROVE  c.saved = Zero
  <1>1. c.saved \in Words /\ Zero \in Words
    BY Constants DEF Contexts
  <1>2. \A j \in InWord : c.saved[j] = Zero[j]
    <2>1. \A j \in InWord : Zero[j] = {} /\ ~(j < 0)
      BY Constants
    <2> QED
      BY <2>1 DEF SavedIs
  <1> QED
    BY <1>1, <1>2 DEF Words

(* What holds of a message holds of every message that begins with it.     *)
LEMMA HoldsLonger ==
    ASSUME NEW c \in Contexts, NEW m, NEW longer, NEW len \in Nat, Holds(c, m, len),
           \A p \in 1 .. len : longer[p] = m[p]
    PROVE  Holds(c, longer, len)
  <1> DEFINE P == Len(c.permuted)
             w == c.wordIndex
             k == c.byteIndex
  <1>1. P \in Nat /\ w \in Nat /\ w \in 0 .. (Rate - 1) /\ k \in Nat
    <2>1. c.permuted \in Seq(Blocks) /\ w \in 0 .. (Rate - 1) /\ k \in 0 .. WordBytes
      BY DEF Contexts
    <2> QED
      BY <2>1, Constants
  <1>2. len + 1 = Pos(P, w, k)
    BY DEF Holds, Reached
  <1> HIDE DEF P, w, k
  <1>3. ASSUME NEW b \in Nat, NEW i \in 0 .. (Rate - 1), NEW j \in InWord,
               b < P \/ (b = P /\ i < w) \/ (b = P /\ i = w /\ j < k)
        PROVE  longer[Pos(b, i, j)] = m[Pos(b, i, j)]
    <2>1. Pos(b, i, j) < Pos(P, w, k)
      BY <1>1, <1>3, PosOrder
    <2>2. i \in Nat /\ j \in Nat
      BY Constants
    <2>3. Pos(b, i, j) \in Nat /\ Pos(b, i, j) >= 1
      BY <2>2, PosType
    <2>4. Pos(b, i, j) \in 1 .. len
      BY <1>2, <2>1, <2>3
    <2> QED
      BY <2>4
  <1>4. PermutedIs(c, longer)
    <2> SUFFICES ASSUME NEW b \in 1 .. P, NEW i \in 0 .. (Rate - 1), NEW j \in InWord
                 PROVE  c.permuted[b][i][j] = longer[Pos(b - 1, i, j)]
      BY DEF PermutedIs, P
    <2>1. b - 1 \in Nat /\ b - 1 < P
      BY <1>1
    <2>2. longer[Pos(b - 1, i, j)] = m[Pos(b - 1, i, j)]
      BY <1>3, <2>1
    <2> QED
      BY <2>2 DEF Holds, PermutedIs, P
  <1>5. StateIs(c, longer)
    BY <1>1, <1>3 DEF Holds, StateIs, P, w
  <1>6. SavedIs(c, longer)
    BY <1>1, <1>3 DEF Holds, SavedIs, P, w, k
  <1> QED
    BY <1>4, <1>5, <1>6 DEF Holds

-----------------------------------------------------------------------------
(* The words of a buffer.                                                  *)
LEMMA FullWordsType ==
    ASSUME NEW buf \in Seq(Bytes)
    PROVE  LET words == FullWords(buf)
               n == Len(buf) \div WordBytes
           IN  /\ n \in Nat /\ n * WordBytes \in Nat /\ n * WordBytes <= Len(buf)
               /\ Len(buf) - n * WordBytes < WordBytes
               /\ words \in Seq(Words) /\ Len(words) = n
               /\ \A k \in 0 .. (n - 1) : \A j \in InWord :
                      /\ k * WordBytes + j + 1 \in 1 .. Len(buf)
                      /\ words[k + 1][j] = buf[k * WordBytes + j + 1]
  <1> DEFINE words == FullWords(buf)
             l == Len(buf)
             n == l \div WordBytes
  <1>1. l \in Nat /\ WordBytes \in Nat /\ WordBytes >= 1
    BY Constants
  <1>2. /\ n \in Nat /\ n * WordBytes \in Nat /\ n * WordBytes <= l
        /\ l - n * WordBytes < WordBytes
    <2> HIDE DEF l
    <2>1. n \in Nat /\ l % WordBytes \in 0 .. (WordBytes - 1) /\ l = n * WordBytes + (l % WordBytes)
      BY <1>1
    <2>2. n * WordBytes \in Nat
      BY <1>1, <2>1
    <2> HIDE DEF n
    <2> QED
      BY <1>1, <2>1, <2>2
  <1> HIDE DEF n, l
  <1>3. ASSUME NEW k \in 0 .. (n - 1), NEW j \in InWord
        PROVE  k * WordBytes + j + 1 \in 1 .. l
    <2>1. (k + 1) * WordBytes <= n * WordBytes /\ k * WordBytes \in Nat
      BY <1>1, <1>2, Times
    <2>2. (k + 1) * WordBytes = k * WordBytes + WordBytes
      BY <1>1
    <2>3. j \in Nat /\ j < WordBytes
      BY Constants
    <2> QED
      BY <1>1, <1>2, <2>1, <2>2, <2>3
  <1>4. words = [i \in 1 .. n |-> [j \in InWord |-> buf[(i - 1) * WordBytes + j + 1]]]
    BY DEF FullWords, n, l
  <1>5. ASSUME NEW i \in 1 .. n PROVE [j \in InWord |-> buf[(i - 1) * WordBytes + j + 1]] \in Words
    <2>1. i - 1 \in 0 .. (n - 1)
      BY <1>2
    <2>2. \A j \in InWord : (i - 1) * WordBytes + j + 1 \in 1 .. l
      BY <1>3, <2>1
    <2>3. \A p \in 1 .. l : buf[p] \in SUBSET (0 .. 7)
      <3>1. \A p \in 1 .. l : buf[p] \in Bytes
        BY DEF l
      <3> QED
        BY <3>1, SpongeAssumption
    <2> QED
      BY <2>2, <2>3 DEF Words
  <1>6. words \in Seq(Words) /\ Len(words) = n
    BY <1>2, <1>4, <1>5
  <1>7. ASSUME NEW k \in 0 .. (n - 1), NEW j \in InWord
        PROVE  words[k + 1][j] = buf[k * WordBytes + j + 1]
    <2>1. k + 1 \in 1 .. n /\ (k + 1) - 1 = k
      BY <1>2
    <2> QED
      BY <1>4, <2>1
  <1> HIDE DEF words
  <1> QED
    BY <1>2, <1>3, <1>6, <1>7 DEF words, n, l

LEMMA AbsorbAllHolds ==
    ASSUME NEW c \in Contexts, NEW m, NEW buf \in Seq(Bytes), NEW len \in Nat,
           c.byteIndex = 0, Holds(c, m, len), Piece(buf, m, len)
    PROVE  LET d == AbsorbAll(c, buf)
           IN  /\ d \in Contexts /\ Holds(d, m, len + Len(buf))
               /\ d.byteIndex < WordBytes /\ d.keccak = c.keccak
  <1> DEFINE words == FullWords(buf)
             n == Len(buf) \div WordBytes
             W(k) == k * WordBytes
             After(d, k) == /\ d \in Contexts /\ Holds(d, m, len + W(k))
                            /\ d.byteIndex = 0 /\ d.keccak = c.keccak
  <1>1. /\ n \in Nat /\ W(n) \in Nat /\ W(n) <= Len(buf) /\ Len(buf) - W(n) < WordBytes
        /\ words \in Seq(Words) /\ Len(words) = n
        /\ \A k \in 0 .. (n - 1) : \A j \in InWord :
               /\ W(k) + j + 1 \in 1 .. Len(buf)
               /\ words[k + 1][j] = buf[W(k) + j + 1]
    BY FullWordsType
  <1>2. /\ WordBytes \in Nat /\ W(0) = 0
        /\ \A k \in Nat : W(k) \in Nat /\ W(k + 1) = W(k) + WordBytes
    BY Constants
  <1> HIDE DEF words, n, W
  <1>3. PICK g : /\ g[0] = c
                 /\ \A i \in 1 .. n : g[i] = AbsorbWord(g[i - 1], words[i])
                 /\ Folded(c, words) = g[n]
    <2>1. \E g : /\ g[0] = c
                 /\ \A i \in 1 .. Len(words) : g[i] = AbsorbWord(g[i - 1], words[i])
                 /\ Folded(c, words) = g[Len(words)]
      <3>1. words \in Seq(Words)
        BY <1>1
      <3> QED
        BY <3>1, FoldStepwise
    <2> QED
      BY <1>1, <2>1
  <1> DEFINE S == {k \in 0 .. n : After(g[k], k)}
  <1>4. 0 \in S
    <2>1. len + W(0) = len /\ g[0] = c /\ 0 \in 0 .. n
      BY <1>1, <1>2, <1>3
    <2> QED
      BY <2>1
  <1>5. ASSUME NEW k \in S, k < n PROVE k + 1 \in S
    <2> DEFINE d == g[k]
               word == words[k + 1]
               P == Len(d.permuted)
               w == d.wordIndex
    <2>1. /\ d \in Contexts /\ Holds(d, m, len + W(k))
          /\ d.byteIndex = 0 /\ d.keccak = c.keccak /\ k \in 0 .. (n - 1) /\ k \in Nat
      BY <1>1, <1>5
    <2>2. g[k + 1] = AbsorbWord(d, word)
      <3>1. k + 1 \in 1 .. n /\ (k + 1) - 1 = k
        BY <1>1, <2>1
      <3> QED
        BY <1>3, <3>1
    <2>3. word \in Words
      <3>1. k + 1 \in 1 .. Len(words)
        BY <1>1, <2>1
      <3> QED
        BY <1>1, <3>1
    <2>4. P \in Nat /\ w \in Nat
      <3>1. d.permuted \in Seq(Blocks) /\ d.wordIndex \in 0 .. (Rate - 1)
        BY <2>1 DEF Contexts
      <3> QED
        BY <3>1, Constants
    <2>5. len + W(k) + 1 = Pos(P, w, 0)
      BY <2>1 DEF Holds, Reached
    <2> HIDE DEF S, d, word, P, w
    <2>6. W(k) \in Nat /\ W(k + 1) = W(k) + WordBytes
      BY <1>2, <2>1
    <2>7. len + W(k + 1) + 1 = Pos(P, w + 1, 0)
      <3>1. Pos(P, w, 0 + WordBytes) = Pos(P, w, 0) + WordBytes
        BY <1>2, <2>4, PosByte, SMTT(30)
      <3>2. Pos(P, w, WordBytes) = Pos(P, w + 1, 0)
        BY <2>4, PosWord
      <3>3. 0 + WordBytes = WordBytes
        BY <1>2
      <3>4. Pos(P, w + 1, 0) = Pos(P, w, 0) + WordBytes
        BY <3>1, <3>2, <3>3
      <3> QED
        BY <1>2, <2>5, <2>6, <3>4
    <2>8. ASSUME NEW j \in InWord PROVE word[j] = m[Pos(P, w, j)]
      <3>1. j \in Nat
        BY Constants
      <3>2. Pos(P, w, 0 + j) = Pos(P, w, 0) + j
        BY <2>4, <3>1, PosByte
      <3>3. Pos(P, w, j) = len + (W(k) + j + 1)
        <4>1. 0 + j = j
          BY <3>1
        <4> QED
          BY <2>5, <2>6, <3>1, <3>2, <4>1
      <3>4. W(k) + j + 1 \in 1 .. Len(buf) /\ word[j] = buf[W(k) + j + 1]
        BY <1>1, <2>1 DEF word
      <3>5. buf[W(k) + j + 1] = m[len + (W(k) + j + 1)]
        BY <3>4 DEF Piece
      <3> QED
        BY <3>3, <3>4, <3>5
    <2>9. d.saved = Zero
      BY <2>1, NothingSaved DEF Holds
    <2>10. len + W(k + 1) \in Nat
      <3>1. W(k + 1) \in Nat
        BY <1>2, <2>1
      <3> QED
        BY <3>1
    <2>11. After(AbsorbWord(d, word), k + 1)
      <3>1. PermutedIs(d, m) /\ StateIs(d, m)
        BY <2>1 DEF Holds
      <3>2. /\ len + W(k + 1) + 1 = Pos(Len(d.permuted), d.wordIndex + 1, 0)
            /\ \A j \in InWord : word[j] = m[Pos(Len(d.permuted), d.wordIndex, j)]
        BY <2>7, <2>8 DEF P, w
      <3> DEFINE e == AbsorbWord(d, word)
      <3>3. /\ e \in Contexts /\ Holds(e, m, len + W(k + 1))
            /\ e.byteIndex = 0 /\ e.keccak = d.keccak
        <4> DEFINE l == len + W(k + 1)
        <4>1. l \in Nat /\ IsNext(word, d, m, l)
          BY <2>10, <3>2 DEF IsNext
        <4>2. d \in Contexts /\ d.byteIndex = 0 /\ d.saved = Zero
          BY <2>1, <2>9
        <4> HIDE DEF After, l
        <4>3. e \in Contexts /\ Holds(e, m, l) /\ e.byteIndex = 0 /\ e.keccak = d.keccak
          BY <2>3, <3>1, <4>1, <4>2, AbsorbWordHolds
        <4> QED
          BY <4>3 DEF l
      <3> HIDE DEF e
      <3>4. e.keccak = c.keccak
        BY <2>1, <3>3
      <3>5. After(e, k + 1)
        BY <3>3, <3>4
      <3> HIDE DEF After
      <3> QED
        BY <3>5 DEF e
    <2> HIDE DEF After
    <2> QED
      BY <1>1, <2>1, <2>2, <2>11 DEF S
  <1> HIDE DEF After
  <1>6. S \in SUBSET Nat
    BY <1>1
  <1>7. n \in S
    <2> HIDE DEF S
    <2>1. 0 .. n \subseteq S
      BY <1>1, <1>4, <1>5, <1>6, AllUpTo
    <2> QED
      BY <1>1, <2>1
  <1> DEFINE d == g[n]
             rest == SubSeq(buf, W(n) + 1, Len(buf))
  <1>8. d \in Contexts /\ Holds(d, m, len + W(n)) /\ d.byteIndex = 0 /\ d.keccak = c.keccak
    BY <1>7 DEF After
  <1>9. /\ rest \in Seq(Bytes) /\ Len(rest) \in Nat /\ Len(rest) = Len(buf) - W(n)
        /\ \A i \in 1 .. Len(rest) : rest[i] = buf[W(n) + i] /\ W(n) + i \in 1 .. Len(buf)
    BY <1>1, SMTT(30)
  <1>10. AbsorbAll(c, buf) = Save(d, rest)
    BY <1>1, <1>3 DEF AbsorbAll, Folded, words, W
  <1> HIDE DEF d, rest, S
  <1>11. Piece(rest, m, len + W(n))
    <2> SUFFICES ASSUME NEW i \in 1 .. Len(rest) PROVE rest[i] = m[len + W(n) + i]
      BY DEF Piece
    <2>1. rest[i] = buf[W(n) + i] /\ W(n) + i \in 1 .. Len(buf)
      BY <1>9
    <2>2. buf[W(n) + i] = m[len + (W(n) + i)]
      BY <2>1 DEF Piece
    <2>3. len + (W(n) + i) = len + W(n) + i
      BY <1>1, <1>9
    <2> QED
      BY <2>1, <2>2, <2>3
  <1>12. len + W(n) \in Nat /\ d.byteIndex + Len(rest) <= WordBytes
         /\ len + W(n) + Len(rest) = len + Len(buf) /\ d.byteIndex + Len(rest) < WordBytes
    <2>1. W(n) \in Nat /\ Len(buf) \in Nat /\ WordBytes \in Nat /\ Len(buf) - W(n) < WordBytes
      BY <1>1, <1>2
    <2>2. Len(rest) \in Nat /\ Len(rest) = Len(buf) - W(n) /\ d.byteIndex = 0
      BY <1>8, <1>9
    <2> QED
      BY <2>1, <2>2
  <1>13. LET e == Save(d, rest)
         IN  /\ e \in Contexts /\ Holds(e, m, len + W(n) + Len(rest))
             /\ e.byteIndex = d.byteIndex + Len(rest) /\ e.keccak = d.keccak
    BY <1>8, <1>9, <1>11, <1>12, SaveHolds
  <1> QED
    BY <1>8, <1>10, <1>12, <1>13

LEMMA AbsorbSavedHolds ==
    ASSUME NEW c \in Contexts, NEW m, NEW len \in Nat,
           c.byteIndex = WordBytes, Holds(c, m, len)
    PROVE  LET d == AbsorbSaved(c)
           IN  /\ d \in Contexts /\ Holds(d, m, len)
               /\ d.byteIndex = 0 /\ d.keccak = c.keccak
  <1> DEFINE b == [c EXCEPT !.byteIndex = 0, !.saved = Zero]
             P == Len(c.permuted)
             w == c.wordIndex
  <1>1. /\ b.s = c.s /\ b.permuted = c.permuted /\ b.wordIndex = w /\ b.keccak = c.keccak
        /\ b.byteIndex = 0 /\ b.saved = Zero
    BY DEF Contexts
  <1>2. b \in Contexts
    <2>1. Zero \in Words /\ 0 \in 0 .. WordBytes
      BY Constants
    <2> QED
      BY <2>1 DEF Contexts
  <1>3. AbsorbSaved(c) = AbsorbWord(b, c.saved) /\ c.saved \in Words
    BY DEF AbsorbSaved, Contexts
  <1>4. PermutedIs(b, m) /\ StateIs(b, m)
    BY <1>1 DEF Holds, PermutedIs, StateIs
  <1> HIDE DEF b
  <1>5. P \in Nat /\ w \in Nat
    <2>1. c.permuted \in Seq(Blocks) /\ c.wordIndex \in 0 .. (Rate - 1)
      BY DEF Contexts
    <2> QED
      BY <2>1, Constants
  <1>6. len + 1 = Pos(P, w + 1, 0)
    <2>1. Pos(P, w, WordBytes) = Pos(P, w + 1, 0)
      BY <1>5, PosWord
    <2> QED
      BY <2>1 DEF Holds, Reached
  <1>7. \A j \in InWord : c.saved[j] = m[Pos(P, w, j)]
    <2>1. \A j \in InWord : j < WordBytes
      BY Constants
    <2> QED
      BY <2>1 DEF Holds, SavedIs
  <1>8. IsNext(c.saved, b, m, len)
    BY <1>1, <1>6, <1>7 DEF IsNext
  <1>9. LET d == AbsorbWord(b, c.saved)
        IN  /\ d \in Contexts /\ Holds(d, m, len)
            /\ d.byteIndex = 0 /\ d.saved = Zero /\ d.keccak = b.keccak
    BY <1>1, <1>2, <1>3, <1>4, <1>8, AbsorbWordHolds
  <1> QED
    BY <1>1, <1>3, <1>9

(***************************************************************************)
(* sha3_Update, in whatever state of the buffers it is called: afterwards  *)
(* the context has the old message and buf after it.                       *)
(***************************************************************************)
LEMMA UpdatedHolds ==
    ASSUME NEW c \in Contexts, NEW m, NEW buf \in Seq(Bytes), NEW len \in Nat,
           c.byteIndex < WordBytes, Holds(c, m, len), Piece(buf, m, len)
    PROVE  LET d == Updated(c, buf)
           IN  /\ d \in Contexts /\ Holds(d, m, len + Len(buf))
               /\ d.byteIndex < WordBytes /\ d.keccak = c.keccak
  <1> DEFINE t == OldTail(c)
             n == Len(buf)
             k == c.byteIndex
  <1>1. k \in Nat /\ n \in Nat /\ WordBytes \in Nat /\ WordBytes >= 1
    BY Constants DEF Contexts
  <1>2. t \in Nat /\ t = IF k = 0 THEN 0 ELSE WordBytes - k
    <2>1. (WordBytes - k) % WordBytes = IF k = 0 THEN 0 ELSE WordBytes - k
      <3>1. CASE k = 0
        <4>1. WordBytes % WordBytes = 0
          <5>1. 0 \in 0 .. (WordBytes - 1) /\ WordBytes \in Nat \ {0} /\ 1 \in Nat
                /\ 1 * WordBytes + 0 = WordBytes
            BY <1>1
          <5>2. (1 * WordBytes + 0) % WordBytes = 0
            BY <5>1, Quotient
          <5> QED
            BY <5>1, <5>2
        <4>2. WordBytes - k = WordBytes
          BY <1>1, <3>1
        <4> QED
          BY <3>1, <4>1, <4>2
      <3>2. CASE k # 0
        <4> DEFINE r == WordBytes - k
        <4>1. r \in 0 .. (WordBytes - 1) /\ WordBytes \in Nat \ {0} /\ 0 \in Nat
              /\ 0 * WordBytes + r = r
          BY <1>1, <3>2
        <4> HIDE DEF r
        <4>2. (0 * WordBytes + r) % WordBytes = r
          BY <4>1, Quotient
        <4>3. r % WordBytes = r
          BY <4>1, <4>2
        <4> QED
          BY <3>2, <4>3 DEF r
      <3> QED
        BY <3>1, <3>2
    <2> QED
      BY <1>1, <2>1 DEF OldTail
  <1>3. CASE n < t
    <2>1. Updated(c, buf) = Save(c, buf)
      BY <1>3 DEF Updated
    <2>2. k + n <= WordBytes /\ k + n < WordBytes
      BY <1>1, <1>2, <1>3
    <2> QED
      BY <2>1, <2>2, SaveHolds
  <1>4. CASE ~(n < t) /\ t > 0
    <2> DEFINE first == SubSeq(buf, 1, t)
               rest == SubSeq(buf, t + 1, n)
               d == Save(c, first)
               e == AbsorbSaved(d)
    <2>1. Updated(c, buf) = AbsorbAll(e, rest)
      BY <1>4 DEF Updated
    <2>2. /\ first \in Seq(Bytes) /\ Len(first) = t
          /\ \A i \in 1 .. t : first[i] = buf[i] /\ i \in 1 .. n
          /\ rest \in Seq(Bytes) /\ Len(rest) = n - t
          /\ \A i \in 1 .. (n - t) : rest[i] = buf[t + i] /\ t + i \in 1 .. n
      <3>1. t \in Nat /\ t <= n
        BY <1>1, <1>2, <1>4
      <3> HIDE DEF t
      <3>2. /\ first \in Seq(Bytes) /\ Len(first) = t
            /\ \A i \in 1 .. t : first[i] = buf[i] /\ i \in 1 .. n
        BY <3>1
      <3>3. /\ rest \in Seq(Bytes) /\ Len(rest) = n - t
            /\ \A i \in 1 .. (n - t) : rest[i] = buf[t + i] /\ t + i \in 1 .. n
        BY <3>1
      <3> QED
        BY <3>2, <3>3
    <2> HIDE DEF first, rest, t
    <2>3. Piece(first, m, len)
      BY <2>2 DEF Piece
    <2>4. Piece(rest, m, len + t)
      <3> SUFFICES ASSUME NEW i \in 1 .. (n - t) PROVE rest[i] = m[len + t + i]
        BY <2>2 DEF Piece
      <3>1. rest[i] = buf[t + i] /\ t + i \in 1 .. n
        BY <2>2
      <3>2. buf[t + i] = m[len + (t + i)]
        BY <3>1 DEF Piece
      <3>3. len + (t + i) = len + t + i
        BY <1>1, <1>2
      <3> QED
        BY <3>1, <3>2, <3>3
    <2>5. k + Len(first) <= WordBytes /\ k + Len(first) = WordBytes
      BY <1>1, <1>2, <1>4, <2>2
    <2>6. /\ d \in Contexts /\ Holds(d, m, len + t)
          /\ d.byteIndex = WordBytes /\ d.keccak = c.keccak
      BY <2>2, <2>3, <2>5, SaveHolds
    <2>7. len + t \in Nat /\ len + t + Len(rest) = len + n
      BY <1>1, <1>2, <1>4, <2>2, SMTT(30)
    <2> HIDE DEF d
    <2>8. e \in Contexts /\ Holds(e, m, len + t) /\ e.byteIndex = 0 /\ e.keccak = c.keccak
      BY <2>6, <2>7, AbsorbSavedHolds
    <2> HIDE DEF e
    <2>9. LET f == AbsorbAll(e, rest)
          IN  /\ f \in Contexts /\ Holds(f, m, len + t + Len(rest))
              /\ f.byteIndex < WordBytes /\ f.keccak = e.keccak
      BY <2>2, <2>4, <2>7, <2>8, AbsorbAllHolds
    <2> QED
      BY <2>1, <2>7, <2>8, <2>9
  <1>5. CASE ~(n < t) /\ ~(t > 0)
    <2>1. Updated(c, buf) = AbsorbAll(c, buf)
      BY <1>5 DEF Updated
    <2>2. k = 0
      BY <1>1, <1>2, <1>5
    <2> QED
      BY <2>1, <2>2, AbsorbAllHolds
  <1> QED
    BY <1>3, <1>4, <1>5

-----------------------------------------------------------------------------
(* The padding that sha3_Finalize XORs in.                                 *)

LEMMA ShiftedType ==
    ASSUME NEW v \in SUBSET (0 .. 7), NEW k \in InWord
    PROVE  /\ Shifted(v, k) \in Words
           /\ \A j \in InWord : Shifted(v, k)[j] = IF j = k THEN v ELSE {}
  <1>1. Zero \in [InWord -> SUBSET (0 .. 7)] /\ \A j \in InWord : Zero[j] = {}
    BY Constants DEF Words
  <1> QED
    BY <1>1 DEF Shifted, Words

(* The state that the last keccakf is given.                               *)
LEMMA FinalizedFields ==
    ASSUME NEW c \in Contexts, c.byteIndex < WordBytes
    PROVE  LET d == Finalized(c)
           IN  /\ d \in Contexts
               /\ d.wordIndex = c.wordIndex /\ d.byteIndex = c.byteIndex /\ d.keccak = c.keccak
               /\ \E z \in Blocks :
                     /\ d.permuted = Append(c.permuted, z)
                     /\ \A i \in 0 .. (Rate - 1), j \in InWord :
                           z[i][j] = SymDiff(
                               SymDiff(c.s[i][j],
                                       IF i = c.wordIndex
                                       THEN SymDiff(c.saved[j], IF j = c.byteIndex
                                                                THEN Suffix(c.keccak) ELSE {})
                                       ELSE {}),
                               IF i = Rate - 1 /\ j = WordBytes - 1 THEN {7} ELSE {})
  <1> DEFINE w == c.wordIndex
             k == c.byteIndex
             t == Shifted(Suffix(c.keccak), k)
             mid == Xor(c.saved, t)
             high == Shifted({7}, WordBytes - 1)
             x == XorAt(c, w, mid)
             y == XorAt(x, Rate - 1, high)
             z == y.s
  <1>1. /\ k \in InWord /\ w \in 0 .. (Rate - 1) /\ Rate - 1 \in 0 .. (Rate - 1)
        /\ WordBytes - 1 \in InWord /\ c.saved \in Words /\ c.s \in Blocks
    BY Constants DEF Contexts, InWord
  <1>2. Suffix(c.keccak) \in SUBSET (0 .. 7) /\ {7} \in SUBSET (0 .. 7)
    BY DEF Suffix
  <1>3. /\ t \in Words /\ \A j \in InWord : t[j] = IF j = k THEN Suffix(c.keccak) ELSE {}
        /\ high \in Words
        /\ \A j \in InWord : high[j] = IF j = WordBytes - 1 THEN {7} ELSE {}
    BY <1>1, <1>2, ShiftedType
  <1> HIDE DEF t, high
  <1>4. mid \in Words /\ \A j \in InWord : mid[j] = SymDiff(c.saved[j], t[j])
    BY <1>1, <1>3, XorType
  <1> HIDE DEF mid
  <1>5. /\ x \in Contexts /\ x.s = [c.s EXCEPT ![w] = Xor(c.s[w], mid)]
        /\ x.permuted = c.permuted /\ x.keccak = c.keccak
        /\ x.byteIndex = k /\ x.wordIndex = w
    BY <1>1, <1>4, XorAtFields
  <1> HIDE DEF x
  <1>6. /\ y \in Contexts /\ y.s = [x.s EXCEPT ![Rate - 1] = Xor(x.s[Rate - 1], high)]
        /\ y.permuted = c.permuted /\ y.keccak = c.keccak
        /\ y.byteIndex = k /\ y.wordIndex = w
    BY <1>1, <1>3, <1>5, XorAtFields
  <1> HIDE DEF y
  <1>7. LET d == Keccakf(y)
        IN  /\ d \in Contexts /\ d.permuted = Append(c.permuted, y.s) /\ d.keccak = c.keccak
            /\ d.byteIndex = k /\ d.wordIndex = w
    BY <1>6, KeccakfFields
  <1>8. Finalized(c) = Keccakf(y)
    BY DEF Finalized, t, mid, high, x, y
  <1>9. x.s \in Blocks /\ y.s \in Blocks
    BY <1>5, <1>6 DEF Contexts
  <1>10. ASSUME NEW i \in 0 .. (Rate - 1), NEW j \in InWord
         PROVE  x.s[i][j] = SymDiff(c.s[i][j], IF i = w THEN mid[j] ELSE {})
    <2>1. CASE i = w
      <3>1. x.s[i] = Xor(c.s[w], mid) /\ c.s[w] \in Words
        BY <1>1, <1>5, <2>1 DEF Blocks
      <3> QED
        BY <1>4, <2>1, <3>1, XorType
    <2>2. CASE i # w
      <3>1. x.s[i] = c.s[i]
        BY <1>1, <1>5, <2>2 DEF Blocks
      <3> QED
        BY <2>2, <3>1 DEF SymDiff
    <2> QED
      BY <2>1, <2>2
  <1>11. ASSUME NEW i \in 0 .. (Rate - 1), NEW j \in InWord
         PROVE  y.s[i][j] = SymDiff(x.s[i][j], IF i = Rate - 1 THEN high[j] ELSE {})
    <2>1. CASE i = Rate - 1
      <3>1. y.s[i] = Xor(x.s[i], high) /\ x.s[i] \in Words
        BY <1>6, <1>9, <2>1 DEF Blocks
      <3> QED
        BY <1>3, <2>1, <3>1, XorType
    <2>2. CASE i # Rate - 1
      <3>1. y.s[i] = x.s[i]
        BY <1>6, <1>9, <2>2 DEF Blocks
      <3> QED
        BY <2>2, <3>1 DEF SymDiff
    <2> QED
      BY <2>1, <2>2
  <1>12. ASSUME NEW i \in 0 .. (Rate - 1), NEW j \in InWord
         PROVE  y.s[i][j] = SymDiff(
                    SymDiff(c.s[i][j],
                            IF i = w THEN SymDiff(c.saved[j], IF j = k THEN Suffix(c.keccak) ELSE {})
                                     ELSE {}),
                    IF i = Rate - 1 /\ j = WordBytes - 1 THEN {7} ELSE {})
    <2>1. mid[j] = SymDiff(c.saved[j], IF j = k THEN Suffix(c.keccak) ELSE {})
      BY <1>3, <1>4
    <2>2. high[j] = IF j = WordBytes - 1 THEN {7} ELSE {}
      BY <1>3
    <2>3. /\ y.s[i][j] = SymDiff(x.s[i][j], IF i = Rate - 1 THEN high[j] ELSE {})
          /\ x.s[i][j] = SymDiff(c.s[i][j], IF i = w THEN mid[j] ELSE {})
      BY <1>10, <1>11
    <2> QED
      BY <2>1, <2>2, <2>3
  <1> QED
    BY <1>7, <1>8, <1>9, <1>12

(* The block that the padding fills, and where it ends.                    *)
LEMMA BlocksOf ==
    ASSUME NEW len \in Nat, NEW P \in Nat, NEW w \in 0 .. (Rate - 1), NEW k \in InWord,
           len + 1 = Pos(P, w, k)
    PROVE  /\ len \div (Rate * WordBytes) = P
           /\ (P + 1) * Rate * WordBytes = Pos(P, Rate - 1, WordBytes - 1)
  <1>1. /\ Rate \in Nat /\ WordBytes \in Nat /\ Rate >= 1 /\ WordBytes >= 1
        /\ w \in Nat /\ w + 1 <= Rate /\ k \in Nat /\ k < WordBytes
    BY Constants DEF InWord
  <1>2. /\ P * Rate \in Nat /\ w * WordBytes \in Nat /\ (P * Rate) * WordBytes \in Nat
        /\ Rate * WordBytes \in Nat
    BY <1>1
  <1>3. w * WordBytes + k < Rate * WordBytes
    <2>1. (w + 1) * WordBytes <= Rate * WordBytes
      BY <1>1, Times
    <2>2. (w + 1) * WordBytes = w * WordBytes + WordBytes
      BY <1>1
    <2> QED
      BY <1>1, <1>2, <2>1, <2>2
  <1>4. len = P * (Rate * WordBytes) + (w * WordBytes + k)
    <2>1. (P * Rate + w) * WordBytes = (P * Rate) * WordBytes + w * WordBytes
      BY <1>1, <1>2
    <2>2. (P * Rate) * WordBytes = P * (Rate * WordBytes)
      BY <1>1
    <2>3. len + 1 = (P * Rate + w) * WordBytes + k + 1
      BY DEF Pos, WordAt
    <2> QED
      BY <1>1, <1>2, <2>1, <2>2, <2>3
  <1>5. len \div (Rate * WordBytes) = P
    <2> DEFINE d == Rate * WordBytes
               r == w * WordBytes + k
    <2>1. d \in Nat \ {0} /\ r \in 0 .. (d - 1)
      BY <1>1, <1>2, <1>3
    <2> HIDE DEF d, r
    <2>2. (P * d + r) \div d = P
      BY <2>1, Quotient
    <2> QED
      BY <1>4, <2>2 DEF d, r
  <1>6. (P + 1) * Rate * WordBytes = Pos(P, Rate - 1, WordBytes - 1)
    <2>1. (P + 1) * Rate = P * Rate + Rate
      BY <1>1
    <2>2. P * Rate + Rate = (P * Rate + (Rate - 1)) + 1
      BY <1>1, <1>2
    <2> DEFINE a == P * Rate + (Rate - 1)
    <2>3. a \in Nat
      BY <1>1, <1>2
    <2> HIDE DEF a
    <2>4. (a + 1) * WordBytes = a * WordBytes + WordBytes /\ a * WordBytes \in Nat
      BY <1>1, <2>3
    <2>5. Pos(P, Rate - 1, WordBytes - 1) = a * WordBytes + (WordBytes - 1) + 1
      BY DEF Pos, WordAt, a
    <2>6. (P + 1) * Rate = a + 1
      BY <2>1, <2>2 DEF a
    <2> QED
      BY <1>1, <2>4, <2>5, <2>6
  <1> QED
    BY <1>5, <1>6

LEMMA FinalizedPads ==
    ASSUME NEW c \in Contexts, NEW m \in Seq(Bytes),
           c.byteIndex < WordBytes, Holds(c, m, Len(m))
    PROVE  Finalized(c).permuted = PaddedBlocks(c.keccak, m)
  <1> DEFINE P == Len(c.permuted)
             w == c.wordIndex
             k == c.byteIndex
             f == c.keccak
             len == Len(m)
             Byte(b, i, j) == PaddedByte(f, m, P + 1, Pos(b - 1, i, j))
  <1>1. /\ c.permuted \in Seq(Blocks) /\ P \in Nat /\ w \in 0 .. (Rate - 1) /\ w \in Nat
        /\ k \in InWord /\ k \in Nat /\ len \in Nat
    <2>1. c.permuted \in Seq(Blocks) /\ w \in 0 .. (Rate - 1) /\ k \in 0 .. WordBytes
      BY DEF Contexts
    <2> QED
      BY <2>1, Constants DEF InWord
  <1>2. len + 1 = Pos(P, w, k)
    BY DEF Holds, Reached
  <1>3. /\ len \div (Rate * WordBytes) = P
        /\ (P + 1) * Rate * WordBytes = Pos(P, Rate - 1, WordBytes - 1)
    BY <1>1, <1>2, BlocksOf
  <1>4. PICK z \in Blocks :
          /\ Finalized(c).permuted = Append(c.permuted, z)
          /\ \A i \in 0 .. (Rate - 1), j \in InWord :
                z[i][j] = SymDiff(
                    SymDiff(c.s[i][j],
                            IF i = w THEN SymDiff(c.saved[j], IF j = k THEN Suffix(f) ELSE {})
                                     ELSE {}),
                    IF i = Rate - 1 /\ j = WordBytes - 1 THEN {7} ELSE {})
    BY FinalizedFields
  <1>5. PaddedBlocks(f, m)
          = [b \in 1 .. (P + 1) |-> [i \in 0 .. (Rate - 1) |-> [j \in InWord |-> Byte(b, i, j)]]]
    BY <1>3 DEF PaddedBlocks, Pos, WordAt
  <1>6. /\ \A i \in 0 .. (Rate - 1), j \in InWord :
              c.s[i][j] = IF i < w THEN m[Pos(P, i, j)] ELSE {}
        /\ \A j \in InWord : c.saved[j] = IF j < k THEN m[Pos(P, w, j)] ELSE {}
        /\ \A b \in 1 .. P, i \in 0 .. (Rate - 1), j \in InWord :
              c.permuted[b][i][j] = m[Pos(b - 1, i, j)]
    BY DEF Holds, StateIs, SavedIs, PermutedIs
  <1> HIDE DEF P, w, k, f, len
  <1>7. ASSUME NEW b \in Nat, NEW i \in 0 .. (Rate - 1), NEW j \in InWord
        PROVE  /\ Pos(b, i, j) \in Nat
               /\ b < P \/ (b = P /\ i < w) \/ (b = P /\ i = w /\ j < k) => Pos(b, i, j) <= len
               /\ b = P /\ i = w /\ j = k => Pos(b, i, j) = len + 1
               /\ (b = P /\ i > w) \/ (b = P /\ i = w /\ j > k) => Pos(b, i, j) > len + 1
               /\ b < P \/ (b = P /\ i < Rate - 1) \/ (b = P /\ i = Rate - 1 /\ j < WordBytes - 1)
                     => Pos(b, i, j) # (P + 1) * Rate * WordBytes
    <2>1. /\ i \in Nat /\ j \in Nat /\ Rate - 1 \in Nat /\ WordBytes - 1 \in Nat
      BY Constants
    <2>2. Pos(b, i, j) \in Nat
      BY <2>1, PosType
    <2>3. b < P \/ (b = P /\ i < w) \/ (b = P /\ i = w /\ j < k) => Pos(b, i, j) < Pos(P, w, k)
      BY <1>1, PosOrder
    <2>4. (b = P /\ i > w) \/ (b = P /\ i = w /\ j > k) => Pos(P, w, k) < Pos(b, i, j)
      <3>1. CASE b = P /\ i > w
        BY <1>1, <2>1, <3>1, PosOrder
      <3>2. CASE b = P /\ i = w /\ j > k
        BY <1>1, <2>1, <3>2, PosOrder
      <3> QED
        BY <3>1, <3>2
    <2>5. b < P \/ (b = P /\ i < Rate - 1) \/ (b = P /\ i = Rate - 1 /\ j < WordBytes - 1)
              => Pos(b, i, j) < Pos(P, Rate - 1, WordBytes - 1)
      BY <1>1, <2>1, PosOrder
    <2> QED
      BY <1>1, <1>2, <1>3, <2>2, <2>3, <2>4, <2>5
  <1>8. ASSUME NEW b \in 1 .. P, NEW i \in 0 .. (Rate - 1), NEW j \in InWord
        PROVE  c.permuted[b][i][j] = Byte(b, i, j)
    <2>1. b - 1 \in Nat /\ b - 1 < P
      BY <1>1
    <2>2. Pos(b - 1, i, j) <= len
      BY <1>7, <2>1
    <2> QED
      BY <1>6, <2>2 DEF PaddedByte, len
  <1>9. ASSUME NEW i \in 0 .. (Rate - 1), NEW j \in InWord
        PROVE  z[i][j] = PaddedByte(f, m, P + 1, Pos(P, i, j))
    <2> DEFINE p == Pos(P, i, j)
               last == (P + 1) * Rate * WordBytes
               top == IF i = Rate - 1 /\ j = WordBytes - 1 THEN {7} ELSE {}
    <2>1. /\ i \in Nat /\ j \in Nat /\ i <= Rate - 1 /\ j <= WordBytes - 1
          /\ Rate - 1 \in Nat /\ WordBytes - 1 \in Nat /\ k <= WordBytes - 1 /\ w <= Rate - 1
      BY <1>1, Constants DEF InWord
    <2>2. top = IF p = last THEN {7} ELSE {}
      <3>1. CASE i = Rate - 1 /\ j = WordBytes - 1
        BY <1>3, <3>1
      <3>2. CASE ~(i = Rate - 1 /\ j = WordBytes - 1)
        <4>1. i < Rate - 1 \/ (i = Rate - 1 /\ j < WordBytes - 1)
          BY <2>1, <3>2
        <4>2. p # last
          BY <1>1, <1>7, <4>1
        <4> QED
          BY <3>2, <4>2
      <3> QED
        BY <3>1, <3>2
    <2>3. z[i][j] = SymDiff(SymDiff(c.s[i][j],
                            IF i = w THEN SymDiff(c.saved[j], IF j = k THEN Suffix(f) ELSE {})
                                     ELSE {}), top)
      BY <1>4
    <2>4. /\ c.s[i][j] = IF i < w THEN m[p] ELSE {}
          /\ i = w => c.saved[j] = IF j < k THEN m[p] ELSE {}
      BY <1>6
    <2>5. p \in Nat
      BY <1>1, <1>7
    <2>6. CASE i < w \/ (i = w /\ j < k)
      <3>1. p <= len
        BY <1>1, <1>7, <2>6
      <3>2. top = {}
        BY <2>1, <2>6, <1>1
      <3>3. z[i][j] = m[p]
        BY <1>1, <2>1, <2>3, <2>4, <2>6, <3>2 DEF SymDiff
      <3> QED
        BY <3>1, <3>3 DEF PaddedByte, len
    <2>7. CASE i = w /\ j = k
      <3>1. p = len + 1
        BY <1>1, <1>7, <2>7
      <3>2. z[i][j] = SymDiff(Suffix(f), top)
        BY <1>1, <2>1, <2>3, <2>4, <2>7 DEF SymDiff
      <3>3. SymDiff(Suffix(f), top) = Suffix(f) \cup top
        BY DEF SymDiff, Suffix
      <3>4. PaddedByte(f, m, P + 1, p) = Suffix(f) \cup (IF p = last THEN {7} ELSE {})
        BY <1>1, <3>1 DEF PaddedByte, len
      <3> QED
        BY <2>2, <3>2, <3>3, <3>4
    <2>8. CASE i > w \/ (i = w /\ j > k)
      <3>1. p > len + 1
        BY <1>1, <1>7, <2>8
      <3>2. z[i][j] = top
        BY <1>1, <2>1, <2>3, <2>4, <2>8 DEF SymDiff
      <3>3. ~(p <= Len(m)) /\ p # Len(m) + 1
        BY <1>1, <2>5, <3>1 DEF len
      <3>4. PaddedByte(f, m, P + 1, p) = {} \cup (IF p = last THEN {7} ELSE {})
        BY <3>3, Zenon DEF PaddedByte
      <3> QED
        BY <2>2, <3>2, <3>4
    <2> QED
      BY <1>1, <2>1, <2>6, <2>7, <2>8
  <1> DEFINE padded == PaddedBlocks(f, m)
             given == Append(c.permuted, z)
  <1>10. ASSUME NEW b \in 1 .. (P + 1) PROVE given[b] = padded[b]
    <2>1. padded[b] = [i \in 0 .. (Rate - 1) |-> [j \in InWord |-> Byte(b, i, j)]]
      BY <1>5
    <2>2. given[b] \in Blocks
      BY <1>1, <1>4 DEF P
    <2>3. ASSUME NEW i \in 0 .. (Rate - 1), NEW j \in InWord
          PROVE  given[b][i][j] = Byte(b, i, j)
      <3>1. CASE b = P + 1
        <4>1. given[b] = z /\ b - 1 = P
          BY <1>1, <3>1 DEF P
        <4> QED
          BY <1>9, <4>1
      <3>2. CASE b # P + 1
        <4>1. b \in 1 .. P /\ given[b] = c.permuted[b]
          BY <1>1, <3>2 DEF P
        <4> QED
          BY <1>8, <4>1
      <3> QED
        BY <3>1, <3>2
    <2> HIDE DEF given, padded, Byte
    <2>4. ASSUME NEW i \in 0 .. (Rate - 1)
          PROVE  given[b][i] = [j \in InWord |-> Byte(b, i, j)]
      <3>1. given[b][i] \in Words
        BY <2>2 DEF Blocks
      <3> QED
        BY <2>3, <3>1 DEF Words
    <2> QED
      BY <2>1, <2>2, <2>4, ZenonT(30) DEF Blocks
  <1>11. given \in Seq(Blocks) /\ Len(given) = P + 1
    BY <1>1, <1>4 DEF P
  <1>12. DOMAIN given = 1 .. (P + 1) /\ DOMAIN padded = 1 .. (P + 1)
    BY <1>5, <1>11
  <1>13. given = padded
    <2>1. given = [b \in 1 .. (P + 1) |-> given[b]] /\ padded = [b \in 1 .. (P + 1) |-> padded[b]]
      BY <1>5, <1>11
    <2> HIDE DEF given, padded
    <2> QED
      BY <1>10, <2>1
  <1> QED
    BY <1>4, <1>13 DEF f

-----------------------------------------------------------------------------
(* A context that sha3_Init has just set up, with or without the flag.     *)
LEMMA FreshHolds ==
    ASSUME NEW m
    PROVE  Fresh \in Contexts /\ Holds(Fresh, m, 0) /\ Fresh.byteIndex = 0
  <1>1. Fresh \in Contexts
    <2>1. <<>> \in Seq(Blocks)
      OBVIOUS
    <2> QED
      BY <2>1, Constants DEF Fresh, Contexts
  <1>2. Reached(Fresh, 0)
    <2>1. Pos(0, 0, 0) = 1
      BY Constants DEF Pos, WordAt
    <2> QED
      BY <2>1 DEF Reached, Fresh
  <1>3. PermutedIs(Fresh, m)
    BY DEF PermutedIs, Fresh
  <1>4. StateIs(Fresh, m)
    <2>1. \A i \in 0 .. (Rate - 1), j \in InWord : EmptyState[i][j] = {} /\ ~(i < 0)
      BY Constants
    <2> QED
      BY <2>1 DEF StateIs, Fresh
  <1>5. SavedIs(Fresh, m)
    <2>1. \A j \in InWord : Zero[j] = {} /\ ~(j < 0)
      BY Constants
    <2> QED
      BY <2>1 DEF SavedIs, Fresh
  <1> QED
    BY <1>1, <1>2, <1>3, <1>4, <1>5 DEF Holds, Fresh

LEMMA FlaggedHolds ==
    ASSUME NEW c \in Contexts, NEW m, NEW len \in Nat, Holds(c, m, len), NEW k \in BOOLEAN
    PROVE  LET d == Flagged(c, k)
           IN  /\ d \in Contexts /\ Holds(d, m, len)
               /\ d.byteIndex = c.byteIndex /\ d.keccak = (c.keccak \/ k)
  <1> DEFINE d == Flagged(c, k)
  <1>1. /\ d \in Contexts /\ d.s = c.s /\ d.permuted = c.permuted /\ d.saved = c.saved
        /\ d.byteIndex = c.byteIndex /\ d.wordIndex = c.wordIndex
        /\ d.keccak = (c.keccak \/ k)
    BY DEF Flagged, Contexts
  <1>2. Holds(d, m, len)
    <2> HIDE DEF d
    <2> QED
      BY <1>1 DEF Holds, Reached, PermutedIs, StateIs, SavedIs
  <1> QED
    BY <1>1, <1>2

(* The blocks of a message that is hashed in one call.                     *)
LEMMA HashBufferIs ==
    ASSUME NEW keccak \in BOOLEAN, NEW buf \in Seq(Bytes)
    PROVE  HashBuffer(keccak, buf) = PaddedBlocks(keccak, buf)
  <1> DEFINE c == Flagged(Fresh, keccak)
             d == Updated(c, buf)
  <1>1. Fresh \in Contexts /\ Holds(Fresh, buf, 0) /\ Fresh.byteIndex = 0 /\ Fresh.keccak = FALSE
    BY FreshHolds DEF Fresh
  <1>2. /\ c \in Contexts /\ Holds(c, buf, 0) /\ c.byteIndex = 0
        /\ c.keccak = keccak
    BY <1>1, FlaggedHolds
  <1> HIDE DEF c
  <1>3. /\ Len(buf) \in Nat /\ 0 + Len(buf) = Len(buf) /\ 0 < WordBytes
        /\ Piece(buf, buf, 0)
    BY Constants DEF Piece
  <1>4. /\ d \in Contexts /\ Holds(d, buf, Len(buf)) /\ d.byteIndex < WordBytes
        /\ d.keccak = keccak
    BY <1>2, <1>3, UpdatedHolds
  <1> HIDE DEF d
  <1>5. Finalized(d).permuted = PaddedBlocks(keccak, buf)
    BY <1>4, FinalizedPads
  <1> QED
    BY <1>5 DEF HashBuffer, c, d

-----------------------------------------------------------------------------
(* Every byte of the padded message has its place in the blocks.           *)
LEMMA PosExists ==
    ASSUME NEW p \in Nat \ {0}
    PROVE  \E b \in Nat, i \in 0 .. (Rate - 1), j \in InWord : p = Pos(b, i, j)
  <1>1. WordBytes \in Nat \ {0} /\ Rate \in Nat \ {0} /\ p - 1 \in Nat
    BY SpongeAssumption
  <1>2. PICK q \in Nat : \E j \in 0 .. (WordBytes - 1) : p - 1 = q * WordBytes + j
    BY <1>1, Division
  <1>3. PICK j \in 0 .. (WordBytes - 1) : p - 1 = q * WordBytes + j
    BY <1>2
  <1>4. PICK b \in Nat : \E i \in 0 .. (Rate - 1) : q = b * Rate + i
    BY <1>1, Division
  <1>5. PICK i \in 0 .. (Rate - 1) : q = b * Rate + i
    BY <1>4
  <1>6. p = q * WordBytes + j + 1
    <2>1. q * WordBytes \in Nat /\ j \in Nat
      BY <1>1
    <2> QED
      BY <1>3, <2>1
  <1>7. p = Pos(b, i, j)
    BY <1>5, <1>6 DEF Pos, WordAt
  <1> QED
    BY <1>7 DEF InWord

BlockCount(m) == Len(m) \div (Rate * WordBytes) + 1

(* The message and the first byte of the padding fit in the blocks.        *)
LEMMA BlocksSuffice ==
    ASSUME NEW m \in Seq(Bytes)
    PROVE  /\ BlockCount(m) \in Nat \ {0}
           /\ Len(m) + 1 <= BlockCount(m) * Rate * WordBytes
           /\ BlockCount(m) * Rate * WordBytes = Pos(BlockCount(m) - 1, Rate - 1, WordBytes - 1)
  <1>1. Len(m) \in Nat /\ Len(m) + 1 \in Nat \ {0}
    OBVIOUS
  <1>2. PICK P \in Nat, w \in 0 .. (Rate - 1), k \in InWord : Len(m) + 1 = Pos(P, w, k)
    BY <1>1, PosExists
  <1>3. /\ Len(m) \div (Rate * WordBytes) = P
        /\ (P + 1) * Rate * WordBytes = Pos(P, Rate - 1, WordBytes - 1)
    BY <1>1, <1>2, BlocksOf
  <1>4. BlockCount(m) = P + 1 /\ P + 1 \in Nat \ {0} /\ (P + 1) - 1 = P
    BY <1>3 DEF BlockCount
  <1>5. Pos(P, w, k) <= Pos(P, Rate - 1, WordBytes - 1)
    <2>1. /\ w <= Rate - 1 /\ k <= WordBytes - 1 /\ w \in Nat /\ k \in Nat
          /\ Rate - 1 \in Nat /\ WordBytes - 1 \in Nat
      BY Constants DEF InWord
    <2>2. Pos(P, w, k) \in Nat /\ Pos(P, Rate - 1, WordBytes - 1) \in Nat
      BY <2>1, PosType
    <2>3. CASE w < Rate - 1 \/ (w = Rate - 1 /\ k < WordBytes - 1)
      <3>1. Pos(P, w, k) < Pos(P, Rate - 1, WordBytes - 1)
        BY <2>1, <2>3, PosOrder
      <3> QED
        BY <2>2, <3>1
    <2>4. CASE w = Rate - 1 /\ k = WordBytes - 1
      BY <2>2, <2>4
    <2> QED
      BY <2>1, <2>3, <2>4
  <1> QED
    BY <1>2, <1>3, <1>4, <1>5

(* The padded bytes can be read back from the blocks.                      *)
LEMMA BlocksGiveBytes ==
    ASSUME NEW f, NEW m \in Seq(Bytes), NEW n \in Seq(Bytes),
           PaddedBlocks(f, m) = PaddedBlocks(f, n)
    PROVE  /\ BlockCount(m) = BlockCount(n)
           /\ \A p \in 1 .. (BlockCount(m) * Rate * WordBytes) :
                 PaddedByte(f, m, BlockCount(m), p) = PaddedByte(f, n, BlockCount(m), p)
  <1> DEFINE A == BlockCount(m)
             B == BlockCount(n)
             F(l, blocks) == [b \in 1 .. blocks |-> [i \in 0 .. (Rate - 1) |-> [j \in InWord |->
                                PaddedByte(f, l, blocks, Pos(b - 1, i, j))]]]
  <1>1. PaddedBlocks(f, m) = F(m, A) /\ PaddedBlocks(f, n) = F(n, B)
    BY DEF PaddedBlocks, BlockCount, Pos, WordAt
  <1>2. A \in Nat \ {0} /\ B \in Nat \ {0}
    BY BlocksSuffice
  <1>3. A * Rate * WordBytes = Pos(A - 1, Rate - 1, WordBytes - 1)
    BY BlocksSuffice
  <1> HIDE DEF A, B
  <1>4. A = B
    <2>1. 1 .. A = 1 .. B
      <3>1. DOMAIN F(m, A) = 1 .. A /\ DOMAIN F(n, B) = 1 .. B
        OBVIOUS
      <3> QED
        BY <1>1, <3>1
    <2>2. A \in 1 .. B /\ B \in 1 .. A
      BY <1>2, <2>1
    <2> QED
      BY <1>2, <2>2
  <1>5. ASSUME NEW p \in 1 .. (A * Rate * WordBytes)
        PROVE  PaddedByte(f, m, A, p) = PaddedByte(f, n, A, p)
    <2>1. p \in Nat \ {0} /\ A - 1 \in Nat /\ Rate - 1 \in Nat /\ WordBytes - 1 \in Nat
          /\ Rate - 1 \in 0 .. (Rate - 1) /\ WordBytes - 1 \in InWord
      BY <1>2, Constants
    <2>2. PICK b \in Nat, i \in 0 .. (Rate - 1), j \in InWord : p = Pos(b, i, j)
      BY <2>1, PosExists
    <2>3. b < A
      <3> SUFFICES ASSUME A - 1 < b PROVE FALSE
        BY <1>2
      <3>1. i \in Nat /\ j \in Nat
        BY Constants
      <3>2. Pos(A - 1, Rate - 1, WordBytes - 1) < Pos(b, i, j)
        BY <2>1, <3>1, PosOrder
      <3>3. Pos(A - 1, Rate - 1, WordBytes - 1) \in Nat
        BY <2>1, PosType
      <3>4. p <= Pos(A - 1, Rate - 1, WordBytes - 1)
        BY <1>3, <3>3
      <3> QED
        BY <2>2, <3>2, <3>3, <3>4
    <2>4. b + 1 \in 1 .. A /\ (b + 1) - 1 = b
      BY <1>2, <2>3
    <2>5. F(m, A)[b + 1][i][j] = PaddedByte(f, m, A, Pos(b, i, j))
      BY <2>4
    <2>6. F(n, A)[b + 1][i][j] = PaddedByte(f, n, A, Pos(b, i, j))
      BY <2>4
    <2>7. F(m, A) = F(n, A)
      BY <1>1, <1>4, ZenonT(30)
    <2> QED
      BY <2>2, <2>5, <2>6, <2>7
  <1> QED
    BY <1>4, <1>5 DEF A, B

LEMMA NotShorter ==
    ASSUME NEW f, NEW m \in Seq(Bytes), NEW n \in Seq(Bytes),
           PaddedBlocks(f, m) = PaddedBlocks(f, n)
    PROVE  ~(Len(m) < Len(n))
  <1> SUFFICES ASSUME Len(m) < Len(n) PROVE FALSE
    OBVIOUS
  <1> DEFINE A == BlockCount(m)
             p == Len(n) + 1
             last == A * Rate * WordBytes
  <1>1. /\ A = BlockCount(n)
        /\ \A q \in 1 .. last : PaddedByte(f, m, A, q) = PaddedByte(f, n, A, q)
    BY BlocksGiveBytes
  <1>2. /\ p \in Nat /\ p >= 1 /\ ~(p <= Len(m)) /\ p # Len(m) + 1
        /\ ~(p <= Len(n)) /\ Len(m) \in Nat /\ Len(n) \in Nat
    OBVIOUS
  <1>3. p <= last /\ last \in Nat
    <2>1. Rate \in Nat /\ WordBytes \in Nat /\ A \in Nat
      BY Constants, BlocksSuffice
    <2>2. A * Rate \in Nat
      BY <2>1
    <2>3. A * Rate * WordBytes \in Nat
      BY <2>1, <2>2
    <2> QED
      BY <1>1, <2>3, BlocksSuffice
  <1>4. PaddedByte(f, m, A, p) = {} \cup (IF p = last THEN {7} ELSE {})
    <2> HIDE DEF p
    <2> QED
      BY <1>2, Zenon DEF PaddedByte
  <1>5. PaddedByte(f, n, A, p) = Suffix(f) \cup (IF p = last THEN {7} ELSE {})
    <2>1. p = Len(n) + 1
      OBVIOUS
    <2> HIDE DEF p
    <2> QED
      BY <1>2, <2>1, Zenon DEF PaddedByte
  <1>6. PaddedByte(f, m, A, p) = PaddedByte(f, n, A, p)
    <2> HIDE DEF p, last, A
    <2>1. p \in 1 .. last
      BY <1>2, <1>3
    <2> QED
      BY <1>1, <2>1
  <1> HIDE DEF p, last, A
  <1>7. PICK e \in {0, 1} : e \in Suffix(f)
    BY DEF Suffix
  <1> QED
    BY <1>4, <1>5, <1>6, <1>7

(***************************************************************************)
(* The padding can be undone (sha3.c:239-270): no two messages, of any     *)
(* length, are padded to the same blocks.                                  *)
(***************************************************************************)
THEOREM PaddingInjective ==
    ASSUME NEW f, NEW m \in Seq(Bytes), NEW n \in Seq(Bytes),
           PaddedBlocks(f, m) = PaddedBlocks(f, n)
    PROVE  m = n
  <1>1. Len(m) = Len(n) /\ Len(m) \in Nat
    <2>1. ~(Len(m) < Len(n)) /\ ~(Len(n) < Len(m))
      BY NotShorter
    <2> QED
      BY <2>1
  <1> DEFINE A == BlockCount(m)
  <1>2. \A p \in 1 .. (A * Rate * WordBytes) : PaddedByte(f, m, A, p) = PaddedByte(f, n, A, p)
    BY BlocksGiveBytes
  <1>3. Len(m) + 1 <= A * Rate * WordBytes /\ A * Rate * WordBytes \in Nat
    <2>1. Rate \in Nat /\ WordBytes \in Nat /\ A \in Nat
      BY Constants, BlocksSuffice
    <2>2. A * Rate \in Nat
      BY <2>1
    <2>3. A * Rate * WordBytes \in Nat
      BY <2>1, <2>2
    <2> QED
      BY <2>3, BlocksSuffice
  <1> HIDE DEF A
  <1>4. ASSUME NEW p \in 1 .. Len(m) PROVE m[p] = n[p]
    <2>1. p <= Len(m) /\ p <= Len(n) /\ p \in 1 .. (A * Rate * WordBytes)
      BY <1>1, <1>3
    <2>2. PaddedByte(f, m, A, p) = m[p] /\ PaddedByte(f, n, A, p) = n[p]
      BY <2>1 DEF PaddedByte
    <2> QED
      BY <1>2, <2>1, <2>2
  <1> QED
    BY <1>1, <1>4

-----------------------------------------------------------------------------
(***************************************************************************)
(* The inductive invariant.  Between two calls the context has exactly the *)
(* bytes passed since sha3_Init, in their places; after sha3_Finalize its  *)
(* blocks are those of the padded message.                                 *)
(***************************************************************************)
SpongeInv ==
    /\ ctx \in Contexts
    /\ ctx.byteIndex < WordBytes
    /\ message \in Seq(Bytes)
    /\ done \in BOOLEAN
    /\ ~done => Holds(ctx, message, Len(message))
    /\ done => ctx.permuted = PaddedBlocks(ctx.keccak, message)

LEMMA MessagesAreSequences == Messages \subseteq Seq(Bytes)
  <1> SUFFICES ASSUME NEW m \in Messages PROVE m \in Seq(Bytes)
    OBVIOUS
  <1>1. PICK n \in 0 .. MaxLen : m \in [1 .. n -> Bytes]
    BY DEF Messages, BoundedSeq, SeqOf
  <1> QED
    BY <1>1, SpongeAssumption

LEMMA InitSponge == Init => SpongeInv
  <1> SUFFICES ASSUME Init PROVE SpongeInv
    OBVIOUS
  <1>1. Fresh \in Contexts /\ Holds(Fresh, <<>>, 0) /\ Fresh.byteIndex = 0
    BY FreshHolds
  <1>2. 0 < WordBytes /\ Len(<<>>) = 0 /\ <<>> \in Seq(Bytes)
    BY Constants
  <1> QED
    BY <1>1, <1>2 DEF Init, SpongeInv

LEMMA UpdateKeepsSponge ==
    ASSUME SpongeInv, NEW buf \in Messages, sha3_Update(buf)
    PROVE  SpongeInv'
  <1>1. buf \in Seq(Bytes)
    BY MessagesAreSequences
  <1> DEFINE len == Len(message)
             longer == message \o buf
  <1>2. /\ longer \in Seq(Bytes) /\ Len(longer) = len + Len(buf) /\ len \in Nat
        /\ \A p \in 1 .. len : longer[p] = message[p]
        /\ \A i \in 1 .. Len(buf) : buf[i] = longer[len + i]
    BY <1>1 DEF SpongeInv
  <1>3. /\ ctx \in Contexts /\ ctx.byteIndex < WordBytes
        /\ Holds(ctx, message, len)
    BY DEF SpongeInv, sha3_Update
  <1> HIDE DEF len, longer
  <1>4. Holds(ctx, longer, len) /\ Piece(buf, longer, len)
    BY <1>2, <1>3, HoldsLonger DEF Piece
  <1>5. /\ Updated(ctx, buf) \in Contexts /\ Holds(Updated(ctx, buf), longer, len + Len(buf))
        /\ Updated(ctx, buf).byteIndex < WordBytes
    BY <1>1, <1>2, <1>3, <1>4, UpdatedHolds
  <1> QED
    BY <1>2, <1>5 DEF SpongeInv, sha3_Update, longer

LEMMA FinalizeKeepsSponge ==
    ASSUME SpongeInv, sha3_Finalize
    PROVE  SpongeInv'
  <1>1. /\ ctx \in Contexts /\ ctx.byteIndex < WordBytes /\ message \in Seq(Bytes)
        /\ Holds(ctx, message, Len(message))
    BY DEF SpongeInv, sha3_Finalize
  <1>2. Finalized(ctx).permuted = PaddedBlocks(ctx.keccak, message)
    BY <1>1, FinalizedPads
  <1>3. /\ Finalized(ctx) \in Contexts /\ Finalized(ctx).byteIndex = ctx.byteIndex
        /\ Finalized(ctx).keccak = ctx.keccak
    BY <1>1, FinalizedFields
  <1> QED
    BY <1>1, <1>2, <1>3 DEF SpongeInv, sha3_Finalize

LEMMA NextKeepsSponge == SpongeInv /\ [Next]_vars => SpongeInv'
  <1> SUFFICES ASSUME SpongeInv, [Next]_vars PROVE SpongeInv'
    OBVIOUS
  <1>1. CASE sha3_Init
    <2>1. Init'
      BY <1>1 DEF sha3_Init, Init
    <2>2. Fresh \in Contexts /\ Holds(Fresh, <<>>, 0) /\ Fresh.byteIndex = 0
      BY FreshHolds
    <2>3. 0 < WordBytes /\ Len(<<>>) = 0 /\ <<>> \in Seq(Bytes)
      BY Constants
    <2> QED
      BY <1>1, <2>2, <2>3 DEF sha3_Init, SpongeInv
  <1>2. ASSUME NEW keccak \in BOOLEAN, sha3_SetFlags(keccak) PROVE SpongeInv'
    <2>1. /\ ctx \in Contexts /\ Holds(ctx, message, Len(message)) /\ Len(message) \in Nat
      BY <1>2 DEF SpongeInv, sha3_SetFlags
    <2>2. /\ Flagged(ctx, keccak) \in Contexts
          /\ Holds(Flagged(ctx, keccak), message, Len(message))
          /\ Flagged(ctx, keccak).byteIndex = ctx.byteIndex
      BY <2>1, FlaggedHolds
    <2> QED
      BY <1>2, <2>2 DEF SpongeInv, sha3_SetFlags
  <1>3. ASSUME NEW buf \in Messages, sha3_Update(buf) PROVE SpongeInv'
    BY <1>3, UpdateKeepsSponge
  <1>4. CASE sha3_Finalize
    BY <1>4, FinalizeKeepsSponge
  <1>5. CASE UNCHANGED vars
    BY <1>5 DEF vars, SpongeInv
  <1> QED
    BY <1>1, <1>2, <1>3, <1>4, <1>5 DEF Next

(***************************************************************************)
(* Between two calls, and after sha3_Finalize, the context has exactly the *)
(* bytes passed since sha3_Init: nothing is left of an earlier use and no  *)
(* byte is lost or counted twice, however they were cut into pieces        *)
(* (sha3.c:146-235).                                                       *)
(***************************************************************************)
THEOREM SpongeInvariant == Spec => []SpongeInv
  <1> QED
    BY InitSponge, NextKeepsSponge, PTL DEF Spec

(***************************************************************************)
(* The buffers stay within the context, and sha3_Update's assertions hold  *)
(* on every entry and exit (sha3.c:161, 162, 234).                         *)
(***************************************************************************)
THEOREM SpongeTypeCorrect == Spec => []SpongeTypeOK
  <1>1. SpongeInv => SpongeTypeOK
    <2> SUFFICES ASSUME SpongeInv PROVE SpongeTypeOK
      OBVIOUS
    <2>1. /\ ctx.s \in Blocks /\ ctx.permuted \in Seq(Blocks) /\ ctx.saved \in Words
          /\ ctx.byteIndex \in 0 .. WordBytes /\ ctx.byteIndex < WordBytes
          /\ ctx.wordIndex \in 0 .. (Rate - 1) /\ ctx.keccak \in BOOLEAN
          /\ message \in Seq(Bytes) /\ done \in BOOLEAN
      BY DEF SpongeInv, Contexts
    <2>2. \A b \in DOMAIN ctx.permuted : ctx.permuted[b] \in Blocks
      BY <2>1
    <2>3. ctx.byteIndex \in InWord
      BY <2>1, Constants DEF InWord
    <2> QED
      BY <2>1, <2>2, <2>3 DEF SpongeTypeOK, Blocks
  <1> QED
    BY <1>1, SpongeInvariant, PTL

(***************************************************************************)
(* For every word size, rate and message: sha3_Finalize gives keccakf the  *)
(* padded message, whatever the pieces in which sha3_Update got it and     *)
(* whatever the context was used for before (sha3.c:146-270).              *)
(***************************************************************************)
THEOREM HashesMessageCorrect == Spec => []HashesMessage
  <1>1. SpongeInv => HashesMessage
    BY DEF SpongeInv, HashesMessage
  <1> QED
    BY <1>1, SpongeInvariant, PTL

(***************************************************************************)
(* For every word size, rate and message: no other message gives keccakf   *)
(* the same blocks (sha3.c:253-270).                                       *)
(***************************************************************************)
THEOREM NoCollisionCorrect == Spec => []NoCollision
  <1>1. SpongeInv => NoCollision
    <2> SUFFICES ASSUME SpongeInv, done, NEW m \in Messages,
                        HashBuffer(ctx.keccak, m) = ctx.permuted
                 PROVE  m = message
      BY DEF NoCollision
    <2>1. m \in Seq(Bytes)
      BY MessagesAreSequences
    <2>2. ctx.keccak \in BOOLEAN /\ message \in Seq(Bytes)
          /\ ctx.permuted = PaddedBlocks(ctx.keccak, message)
      BY DEF SpongeInv, Contexts
    <2>3. PaddedBlocks(ctx.keccak, m) = PaddedBlocks(ctx.keccak, message)
      BY <2>1, <2>2, HashBufferIs
    <2> QED
      BY <2>1, <2>2, <2>3, PaddingInjective
  <1> QED
    BY <1>1, SpongeInvariant, PTL
=============================================================================
