---------------------------- MODULE Base64Proofs ----------------------------
(***************************************************************************)
(* The two codings for strings and texts of any length: what one group     *)
(* does, how the groups make up a string, and that decoding an encoded     *)
(* string gives the string back, all within what is allocated.             *)
(***************************************************************************)
EXTENDS MCBase64, DataLemmas

(* The characters of a group are characters of basis_64 (base64.c:184-189).*)
LEMMA SextetsInBasis ==
    ASSUME NEW a \in Byte, NEW b \in Byte, NEW c \in Byte, NEW i \in 1 .. 4
    PROVE  Sextets(a, b, c)[i] \in 0 .. 63
<1>1. (a \div 4) % 64 \in 0 .. 63 /\ c % 64 \in 0 .. 63
  BY DEF Byte
<1>2. (a % 4) * 16 + b \div 16 \in 0 .. 63
  <2>1. a % 4 \in 0 .. 3 /\ b \div 16 \in 0 .. 15
    BY DEF Byte
  <2> QED
    BY <2>1
<1>3. (b % 16) * 4 + c \div 64 \in 0 .. 63
  <2>1. b % 16 \in 0 .. 15 /\ c \div 64 \in 0 .. 3
    BY DEF Byte
  <2> QED
    BY <2>1
<1> QED
  BY <1>1, <1>2, <1>3 DEF Sextets

(* Decoding the four characters of a group gives its three bytes back      *)
(* (base64.c:141-145 after 184-189).                                       *)
THEOREM GroupRoundTrip ==
    ASSUME NEW a \in Byte, NEW b \in Byte, NEW c \in Byte
    PROVE  LET s == Sextets(a, b, c)
           IN  Octets(s[1], s[2], s[3], s[4]) = <<a, b, c>>
<1> DEFINE w == (a \div 4) % 64
           x == (a % 4) * 16 + b \div 16
           y == (b % 16) * 4 + c \div 64
           z == c % 64
<1>1. (w * 4 + x \div 16) % 256 = a
  <2>1. x \div 16 = a % 4 /\ w = a \div 4
    BY DEF Byte
  <2> QED
    BY <2>1 DEF Byte
<1>2. (x * 16 + y \div 4) % 256 = b
  <2>1. y \div 4 = b % 16
    BY DEF Byte
  <2> QED
    BY <2>1 DEF Byte
<1>3. (y * 64 + z) % 256 = c
  BY DEF Byte
<1> HIDE DEF w, x, y, z
<1>4. Sextets(a, b, c) = <<w, x, y, z>>
  BY DEF Sextets, w, x, y, z
<1> QED
  BY <1>1, <1>2, <1>3, <1>4 DEF Octets

-----------------------------------------------------------------------------
(***************************************************************************)
(* FlattenSeq, by which the groups make up a string.                       *)
(***************************************************************************)
Flattening(f, seqs, n) ==
    f = [i \in 1 .. n |-> IF i = 1 THEN seqs[i] ELSE f[i - 1] \o seqs[i]]

LEMMA FlatteningExists ==
    ASSUME NEW seqs, NEW n \in Nat
    PROVE  \E f : Flattening(f, seqs, n)
<1> DEFINE S == {k \in Nat : \E f : Flattening(f, seqs, k)}
<1>1. 0 \in S
  <2> DEFINE f == [i \in 1 .. 0 |-> seqs]
  <2>1. Flattening(f, seqs, 0)
    BY DEF Flattening
  <2> HIDE DEF f
  <2> QED
    BY <2>1
<1>2. ASSUME NEW k \in S PROVE k + 1 \in S
  <2>1. PICK f : Flattening(f, seqs, k)
    BY <1>2
  <2> DEFINE g == [i \in 1 .. (k + 1) |->
                      IF i = k + 1 THEN IF i = 1 THEN seqs[i] ELSE f[i - 1] \o seqs[i]
                      ELSE f[i]]
  <2>2. k \in Nat
    BY <1>2
  <2>3. ASSUME NEW i \in 1 .. (k + 1)
        PROVE  g[i] = IF i = 1 THEN seqs[i] ELSE g[i - 1] \o seqs[i]
    <3>1. i # 1 => g[i - 1] = f[i - 1]
      BY <2>2
    <3>2. CASE i = k + 1
      BY <3>1, <3>2
    <3>3. CASE i # k + 1
      <4>1. i \in 1 .. k
        BY <2>2, <3>3
      <4>2. f[i] = IF i = 1 THEN seqs[i] ELSE f[i - 1] \o seqs[i]
        BY <2>1, <4>1 DEF Flattening
      <4> QED
        BY <3>1, <3>3, <4>2
    <3> QED
      BY <3>2, <3>3
  <2>4. g = [i \in 1 .. (k + 1) |-> g[i]]
    OBVIOUS
  <2> HIDE DEF g
  <2>5. Flattening(g, seqs, k + 1)
    BY <2>3, <2>4 DEF Flattening
  <2> QED
    BY <2>2, <2>5
<1>3. S \in SUBSET Nat
  OBVIOUS
<1> HIDE DEF S
<1>4. S = Nat
  BY <1>1, <1>2, <1>3, AllNaturals
<1> QED
  BY <1>4 DEF S

LEMMA FlattenSeqIs ==
    ASSUME NEW T, NEW seqs \in Seq(T), Len(seqs) # 0
    PROVE  \E f : Flattening(f, seqs, Len(seqs)) /\ FlattenSeq(seqs) = f[Len(seqs)]
<1> DEFINE n == Len(seqs)
           f == CHOOSE g : Flattening(g, seqs, n)
<1>1. n \in Nat
  OBVIOUS
<1>2. Flattening(f, seqs, n)
  BY <1>1, FlatteningExists
<1>3. FlattenSeq(seqs) = f[n]
  BY DEF FlattenSeq, Flattening
<1> QED
  BY <1>2, <1>3

LEMMA Concatenated ==
    ASSUME NEW S, NEW s \in Seq(S), NEW t \in Seq(S)
    PROVE  /\ s \o t \in Seq(S)
           /\ Len(s \o t) = Len(s) + Len(t)
           /\ \A i \in 1 .. Len(s) : (s \o t)[i] = s[i]
           /\ \A i \in 1 .. Len(t) : (s \o t)[Len(s) + i] = t[i]
OBVIOUS

(* t is the first m sequences of seqs, of k elements each, one after the   *)
(* other: the j-th element of the i-th is where the loops of base64.c put  *)
(* it.                                                                     *)
Joined(t, seqs, m, k, S) ==
    /\ t \in Seq(S)
    /\ Len(t) = k * m
    /\ \A i \in 1 .. m, j \in 1 .. k : t[k * (i - 1) + j] = seqs[i][j]

LEMMA JoinNext ==
    ASSUME NEW S, NEW k \in {3, 4}, NEW m \in Nat, NEW seqs, NEW t,
           Joined(t, seqs, m, k, S), seqs[m + 1] \in Seq(S), Len(seqs[m + 1]) = k
    PROVE  Joined(t \o seqs[m + 1], seqs, m + 1, k, S)
<1> DEFINE last == seqs[m + 1]
           both == t \o last
<1>1. t \in Seq(S) /\ Len(t) = k * m /\ last \in Seq(S) /\ Len(last) = k
  BY DEF Joined
<1>2. /\ both \in Seq(S)
      /\ Len(both) = Len(t) + Len(last)
      /\ \A i \in 1 .. Len(t) : both[i] = t[i]
      /\ \A i \in 1 .. Len(last) : both[Len(t) + i] = last[i]
  <2> HIDE DEF last
  <2> QED
    BY <1>1, Concatenated
<1> HIDE DEF both
<1>3. Len(both) = k * (m + 1)
  <2>1. k * (m + 1) = k * m + k
    OBVIOUS
  <2> QED
    BY <1>1, <1>2, <2>1
<1>4. ASSUME NEW i \in 1 .. (m + 1), NEW j \in 1 .. k
      PROVE  both[k * (i - 1) + j] = seqs[i][j]
  <2>1. CASE i = m + 1
    <3>1. both[k * m + j] = last[j]
      BY <1>1, <1>2
    <3>2. k * (i - 1) = k * m
      BY <2>1
    <3> QED
      BY <2>1, <3>1, <3>2
  <2>2. CASE i # m + 1
    <3>1. i \in 1 .. m
      BY <2>2
    <3>2. k * (i - 1) + j \in 1 .. (k * m)
      <4>1. CASE k = 3
        BY <3>1, <4>1
      <4>2. CASE k = 4
        BY <3>1, <4>2
      <4> QED
        BY <4>1, <4>2
    <3>3. both[k * (i - 1) + j] = t[k * (i - 1) + j]
      BY <1>1, <1>2, <3>2
    <3>4. t[k * (i - 1) + j] = seqs[i][j]
      BY <3>1 DEF Joined
    <3> QED
      BY <3>3, <3>4
  <2> QED
    BY <2>1, <2>2
<1> QED
  BY <1>2, <1>3, <1>4 DEF both, Joined

LEMMA FlattenedGroups ==
    ASSUME NEW S, NEW k \in {3, 4}, NEW seqs \in Seq(Seq(S)),
           \A i \in 1 .. Len(seqs) : Len(seqs[i]) = k
    PROVE  Joined(FlattenSeq(seqs), seqs, Len(seqs), k, S)
<1> DEFINE n == Len(seqs)
<1>1. n \in Nat /\ k \in Nat
  OBVIOUS
<1>2. \A i \in 1 .. n : seqs[i] \in Seq(S) /\ Len(seqs[i]) = k
  OBVIOUS
<1>3. CASE n = 0
  <2>1. seqs = <<>>
    BY <1>3
  <2>2. FlattenSeq(seqs) = seqs
    BY <1>3 DEF FlattenSeq
  <2>3. <<>> \in Seq(S) /\ Len(<<>>) = 0 /\ k * 0 = 0
    OBVIOUS
  <2>4. \A i \in 1 .. 0 : FALSE
    OBVIOUS
  <2> QED
    BY <1>3, <2>1, <2>2, <2>3, <2>4 DEF Joined
<1>4. CASE n # 0
  <2>1. PICK f : Flattening(f, seqs, n) /\ FlattenSeq(seqs) = f[n]
    BY <1>4, FlattenSeqIs
  <2> HIDE DEF n
  <2>2. \A i \in 1 .. n : f[i] = IF i = 1 THEN seqs[i] ELSE f[i - 1] \o seqs[i]
    BY <2>1 DEF Flattening
  <2> DEFINE Done == {m \in 0 .. n : m # 0 => Joined(f[m], seqs, m, k, S)}
  <2>3. ASSUME NEW m \in Done, m < n PROVE m + 1 \in Done
    <3>1. m \in Nat /\ m + 1 \in 1 .. n /\ m + 1 \in 0 .. n /\ (m + 1) - 1 = m
      BY <1>1, <2>3
    <3>2. seqs[m + 1] \in Seq(S) /\ Len(seqs[m + 1]) = k
      BY <1>2, <3>1
    <3>3. CASE m = 0
      <4>1. f[1] = seqs[1]
        BY <2>2, <3>1, <3>3
      <4>2. k * 1 = k /\ k * (1 - 1) = 0
        BY <1>1
      <4>3. \A j \in 1 .. k : f[1][0 + j] = seqs[1][j]
        BY <4>1, <1>1
      <4>4. \A i \in 1 .. 1 : i = 1
        OBVIOUS
      <4>5. Joined(f[1], seqs, 1, k, S)
        BY <3>2, <3>3, <4>1, <4>2, <4>3, <4>4 DEF Joined
      <4> QED
        BY <3>1, <3>3, <4>5
    <3>4. CASE m # 0
      <4>1. Joined(f[m], seqs, m, k, S)
        BY <3>4
      <4>2. f[m + 1] = f[m] \o seqs[m + 1]
        <5>1. m + 1 # 1
          BY <3>1, <3>4
        <5> QED
          BY <2>2, <3>1, <5>1
      <4>3. Joined(f[m] \o seqs[m + 1], seqs, m + 1, k, S)
        BY <3>1, <3>2, <4>1, JoinNext
      <4> QED
        BY <3>1, <4>2, <4>3
    <3> QED
      BY <3>3, <3>4
  <2>4. Done \in SUBSET Nat /\ 0 \in Done
    BY <1>1
  <2> HIDE DEF Done
  <2>5. 0 .. n \subseteq Done
    BY <1>1, <2>3, <2>4, AllUpTo
  <2>6. n \in Done
    BY <1>1, <2>5
  <2>7. Joined(f[n], seqs, n, k, S)
    BY <1>4, <2>6 DEF Done
  <2> QED
    BY <2>1, <2>7 DEF n
<1> QED
  BY <1>3, <1>4

-----------------------------------------------------------------------------
(***************************************************************************)
(* Encoding.  A string ends in the middle of a group as if zeros followed; *)
(* of the group's four characters only those are written that say          *)
(* something of the string.                                                *)
(***************************************************************************)
Char == 0 .. Pad

ByteAt(s, i) == IF i <= Len(s) THEN s[i] ELSE 0

(* The characters of the i-th group of three bytes, counted from 0.        *)
GroupOf(s, i) == Sextets(ByteAt(s, 3 * i + 1), ByteAt(s, 3 * i + 2), ByteAt(s, 3 * i + 3))

LEMMA ByteAtIs ==
    ASSUME NEW s \in Seq(Byte), NEW i \in Nat \ {0}
    PROVE  ByteAt(s, i) \in Byte /\ (i <= Len(s) => ByteAt(s, i) = s[i])
                                 /\ (i > Len(s) => ByteAt(s, i) = 0)
<1>1. Len(s) \in Nat
  OBVIOUS
<1>2. CASE i <= Len(s)
  <2>1. i \in 1 .. Len(s)
    BY <1>1, <1>2
  <2>2. s[i] \in Byte
    BY <2>1
  <2>3. ~ (i > Len(s))
    BY <1>1, <1>2
  <2> QED
    BY <1>2, <2>2, <2>3 DEF ByteAt
<1>3. CASE ~ (i <= Len(s))
  <2>1. 0 \in Byte
    BY DEF Byte
  <2> QED
    BY <1>3, <2>1 DEF ByteAt
<1> QED
  BY <1>2, <1>3

LEMMA SextetsFour ==
    ASSUME NEW a \in Byte, NEW b \in Byte, NEW c \in Byte
    PROVE  Sextets(a, b, c) \in Seq(Char) /\ Len(Sextets(a, b, c)) = 4
<1> DEFINE w == Sextets(a, b, c)[1]
           x == Sextets(a, b, c)[2]
           y == Sextets(a, b, c)[3]
           z == Sextets(a, b, c)[4]
<1>1. w \in Char /\ x \in Char /\ y \in Char /\ z \in Char
  <2>1. \A i \in 1 .. 4 : Sextets(a, b, c)[i] \in 0 .. 63
    BY SextetsInBasis
  <2> QED
    BY <2>1 DEF Char, Pad
<1>2. Sextets(a, b, c) = <<w, x, y, z>>
  BY DEF Sextets
<1> HIDE DEF w, x, y, z
<1> QED
  BY <1>1, <1>2

LEMMA GroupOfIs ==
    ASSUME NEW s \in Seq(Byte), NEW i \in Nat
    PROVE  /\ GroupOf(s, i) \in Seq(Char) /\ Len(GroupOf(s, i)) = 4
           /\ \A j \in 1 .. 4 : GroupOf(s, i)[j] \in 0 .. 63
           /\ 3 * i + 3 <= Len(s) =>
                 GroupOf(s, i) = Sextets(s[3 * i + 1], s[3 * i + 2], s[3 * i + 3])
<1> DEFINE a == ByteAt(s, 3 * i + 1)
           b == ByteAt(s, 3 * i + 2)
           c == ByteAt(s, 3 * i + 3)
<1>1. 3 * i + 1 \in Nat \ {0} /\ 3 * i + 2 \in Nat \ {0} /\ 3 * i + 3 \in Nat \ {0}
  OBVIOUS
<1>2. a \in Byte /\ b \in Byte /\ c \in Byte
  BY <1>1, ByteAtIs
<1>3. 3 * i + 3 <= Len(s) => a = s[3 * i + 1] /\ b = s[3 * i + 2] /\ c = s[3 * i + 3]
  <2>1. Len(s) \in Nat
    OBVIOUS
  <2>2. 3 * i + 3 <= Len(s) => 3 * i + 1 <= Len(s) /\ 3 * i + 2 <= Len(s)
    BY <2>1
  <2> QED
    BY <2>2 DEF ByteAt
<1>4. GroupOf(s, i) = Sextets(a, b, c)
  BY DEF GroupOf
<1> HIDE DEF a, b, c
<1> QED
  BY <1>2, <1>3, <1>4, SextetsFour, SextetsInBasis, ZenonT(30)

(* What LastGroup makes of one byte, and of two.                           *)
LEMMA LastGroupIs ==
    ASSUME NEW s \in Seq(Byte), NEW q \in Nat, NEW r \in {1, 2}, Len(s) = 3 * q + r
    PROVE  LET last == LastGroup(s, 3 * q + 1)
           IN  /\ last \in Seq(Char) /\ Len(last) = 4
               /\ \A j \in 1 .. (r + 1) : last[j] = GroupOf(s, q)[j]
               /\ \A j \in (r + 2) .. 4 : last[j] = Pad
<1> DEFINE last == LastGroup(s, 3 * q + 1)
           g == GroupOf(s, q)
           front == SubSeq(g, 1, r + 1)
<1>1. g \in Seq(Char) /\ Len(g) = 4
  BY GroupOfIs
<1> HIDE DEF g
<1>2. r + 1 \in 0 .. Len(g)
  BY <1>1
<1>3. front \in Seq(Char) /\ Len(front) = r + 1 /\ \A j \in 1 .. (r + 1) : front[j] = g[j]
  BY <1>1, <1>2, FirstPart
<1>4. CASE r = 1
  <2>1. g = Sextets(s[3 * q + 1], 0, 0)
    <3>1. ByteAt(s, 3 * q + 1) = s[3 * q + 1] /\ ByteAt(s, 3 * q + 2) = 0 /\ ByteAt(s, 3 * q + 3) = 0
      BY <1>4 DEF ByteAt
    <3> QED
      BY <3>1 DEF g, GroupOf
  <2>2. last = front \o <<Pad, Pad>>
    <3>1. r + 1 = 2
      BY <1>4
    <3> QED
      BY <1>4, <2>1, <3>1 DEF LastGroup
  <2> HIDE DEF front, last
  <2>3. <<Pad, Pad>> \in Seq(Char) /\ Len(<<Pad, Pad>>) = 2
    BY DEF Pad, Char
  <2>4. /\ last \in Seq(Char) /\ Len(last) = 4
        /\ \A j \in 1 .. 2 : last[j] = front[j]
        /\ last[2 + 1] = Pad /\ last[2 + 2] = Pad
    <3> DEFINE pads == <<Pad, Pad>>
    <3>1. pads[1] = Pad /\ pads[2] = Pad /\ Len(pads) = 2 /\ pads \in Seq(Char)
      BY <2>3
    <3> HIDE DEF pads
    <3>2. Len(front) = 2
      BY <1>3, <1>4
    <3>3. last = front \o pads
      BY <2>2 DEF pads
    <3>4. /\ front \o pads \in Seq(Char)
          /\ Len(front \o pads) = Len(front) + Len(pads)
          /\ \A i \in 1 .. Len(front) : (front \o pads)[i] = front[i]
          /\ \A i \in 1 .. Len(pads) : (front \o pads)[Len(front) + i] = pads[i]
      <4>1. front \in Seq(Char) /\ pads \in Seq(Char)
        BY <1>3, <3>1
      <4> QED
        BY <4>1
    <3> QED
      BY <3>1, <3>2, <3>3, <3>4
  <2> QED
    BY <1>3, <1>4, <2>4 DEF last, g
<1>5. CASE r = 2
  <2>1. g = Sextets(s[3 * q + 1], s[3 * q + 2], 0)
    <3>1. ByteAt(s, 3 * q + 1) = s[3 * q + 1] /\ ByteAt(s, 3 * q + 2) = s[3 * q + 2]
          /\ ByteAt(s, 3 * q + 3) = 0
      BY <1>5 DEF ByteAt
    <3> QED
      BY <3>1 DEF g, GroupOf
  <2>2. last = front \o <<Pad>>
    <3>1. r + 1 = 3 /\ 3 * q + 1 # Len(s) /\ (3 * q + 1) + 1 = 3 * q + 2
      BY <1>5
    <3> QED
      BY <2>1, <3>1 DEF LastGroup
  <2> HIDE DEF front, last
  <2>3. <<Pad>> \in Seq(Char) /\ Len(<<Pad>>) = 1
    BY DEF Pad, Char
  <2>4. /\ last \in Seq(Char) /\ Len(last) = 4
        /\ \A j \in 1 .. 3 : last[j] = front[j]
        /\ last[3 + 1] = Pad
    <3> DEFINE pads == <<Pad>>
    <3>1. pads[1] = Pad /\ Len(pads) = 1 /\ pads \in Seq(Char)
      BY <2>3
    <3> HIDE DEF pads
    <3>2. Len(front) = 3
      BY <1>3, <1>5
    <3>3. last = front \o pads
      BY <2>2 DEF pads
    <3>4. /\ front \o pads \in Seq(Char)
          /\ Len(front \o pads) = Len(front) + Len(pads)
          /\ \A i \in 1 .. Len(front) : (front \o pads)[i] = front[i]
          /\ \A i \in 1 .. Len(pads) : (front \o pads)[Len(front) + i] = pads[i]
      <4>1. front \in Seq(Char) /\ pads \in Seq(Char)
        BY <1>3, <3>1
      <4> QED
        BY <4>1
    <3> QED
      BY <3>1, <3>2, <3>3, <3>4
  <2> QED
    BY <1>3, <1>5, <2>4 DEF last, g
<1> QED
  BY <1>4, <1>5

(* Every length is that of some whole groups and what is left.             *)
LEMMA Groups ==
    ASSUME NEW n \in Nat
    PROVE  \E q \in Nat : \E r \in 0 .. 2 : n = 3 * q + r
<1>1. n \div 3 \in Nat /\ n % 3 \in 0 .. 2 /\ n = 3 * (n \div 3) + (n % 3)
  OBVIOUS
<1> QED
  BY <1>1

LEMMA Encoded ==
    ASSUME NEW s \in Seq(Byte), NEW q \in Nat, NEW r \in 0 .. 2, Len(s) = 3 * q + r
    PROVE  LET e == Base64encode(s)
           IN  /\ e \in Seq(Char)
               /\ Len(e) = 4 * q + (IF r = 0 THEN 0 ELSE 4)
               /\ \A i \in 0 .. (q - 1), j \in 1 .. 4 : e[4 * i + j] = GroupOf(s, i)[j]
               /\ r # 0 => /\ \A j \in 1 .. (r + 1) : e[4 * q + j] = GroupOf(s, q)[j]
                           /\ \A j \in (r + 2) .. 4 : e[4 * q + j] = Pad
<1> DEFINE e == Base64encode(s)
           seqs == [g \in 1 .. q |-> Sextets(s[3 * g - 2], s[3 * g - 1], s[3 * g])]
           whole == FlattenSeq(seqs)
           rest == IF r = 0 THEN <<>> ELSE LastGroup(s, 3 * q + 1)
<1>1. (3 * q + r) \div 3 = q
  OBVIOUS
<1>2. e = whole \o rest
  <2>1. 3 * q < Len(s) <=> r # 0
    OBVIOUS
  <2> QED
    BY <1>1, <2>1 DEF Base64encode
<1>3. ASSUME NEW g \in 1 .. q PROVE seqs[g] = GroupOf(s, g - 1)
  <2>1. g - 1 \in Nat /\ 3 * (g - 1) + 3 <= Len(s)
    OBVIOUS
  <2>2. 3 * (g - 1) + 1 = 3 * g - 2 /\ 3 * (g - 1) + 2 = 3 * g - 1 /\ 3 * (g - 1) + 3 = 3 * g
    OBVIOUS
  <2>3. GroupOf(s, g - 1) = Sextets(s[3 * (g - 1) + 1], s[3 * (g - 1) + 2], s[3 * (g - 1) + 3])
    BY <2>1, GroupOfIs
  <2> QED
    BY <2>2, <2>3
<1>4. \A g \in 1 .. q : seqs[g] \in Seq(Char) /\ Len(seqs[g]) = 4
  <2> SUFFICES ASSUME NEW g \in 1 .. q PROVE GroupOf(s, g - 1) \in Seq(Char) /\ Len(GroupOf(s, g - 1)) = 4
    BY <1>3
  <2>1. g - 1 \in Nat
    OBVIOUS
  <2> QED
    BY <2>1, GroupOfIs
<1>5. seqs = [g \in 1 .. q |-> seqs[g]]
  OBVIOUS
<1> HIDE DEF seqs
<1>6. seqs \in Seq(Seq(Char)) /\ Len(seqs) = q
  BY <1>4, <1>5, SMTT(30)
<1>7. Joined(whole, seqs, q, 4, Char)
  <2>1. \A i \in 1 .. Len(seqs) : Len(seqs[i]) = 4
    BY <1>4, <1>6
  <2>2. Joined(FlattenSeq(seqs), seqs, Len(seqs), 4, Char)
    BY <1>6, <2>1, FlattenedGroups
  <2> QED
    BY <1>6, <2>2
<1> HIDE DEF whole
<1>8. whole \in Seq(Char) /\ Len(whole) = 4 * q
  BY <1>7 DEF Joined
<1>9. ASSUME NEW i \in 0 .. (q - 1), NEW j \in 1 .. 4
      PROVE  4 * i + j \in 1 .. Len(whole) /\ whole[4 * i + j] = GroupOf(s, i)[j]
  <2>1. i + 1 \in 1 .. q /\ (i + 1) - 1 = i
    OBVIOUS
  <2>2. whole[4 * ((i + 1) - 1) + j] = seqs[i + 1][j]
    BY <1>7, <2>1 DEF Joined
  <2>3. seqs[i + 1] = GroupOf(s, (i + 1) - 1)
    BY <1>3, <2>1
  <2>4. 4 * i + j \in 1 .. (4 * q)
    OBVIOUS
  <2> QED
    BY <1>8, <2>1, <2>2, <2>3, <2>4
<1>10. rest \in Seq(Char) /\ Len(rest) = (IF r = 0 THEN 0 ELSE 4)
       /\ (r # 0 => /\ \A j \in 1 .. (r + 1) : rest[j] = GroupOf(s, q)[j]
                    /\ \A j \in (r + 2) .. 4 : rest[j] = Pad)
  <2>1. CASE r = 0
    BY <2>1
  <2>2. CASE r # 0
    <3>1. r \in {1, 2}
      BY <2>2
    <3> QED
      BY <2>2, <3>1, LastGroupIs
  <2> QED
    BY <2>1, <2>2
<1> HIDE DEF rest
<1>11. /\ whole \o rest \in Seq(Char)
       /\ Len(whole \o rest) = 4 * q + Len(rest)
       /\ \A i \in 1 .. Len(whole) : (whole \o rest)[i] = whole[i]
       /\ \A j \in 1 .. Len(rest) : (whole \o rest)[4 * q + j] = rest[j]
  <2>1. whole \in Seq(Char) /\ rest \in Seq(Char) /\ Len(whole) = 4 * q
    BY <1>8, <1>10
  <2> HIDE DEF rest, whole
  <2>2. /\ whole \o rest \in Seq(Char)
        /\ Len(whole \o rest) = Len(whole) + Len(rest)
    BY <2>1
  <2>3. \A i \in 1 .. Len(whole) : (whole \o rest)[i] = whole[i]
    BY <2>1
  <2>4. \A j \in 1 .. Len(rest) : (whole \o rest)[Len(whole) + j] = rest[j]
    BY <2>1
  <2> QED
    BY <2>1, <2>2, <2>3, <2>4
<1> HIDE DEF e
<1>12. e \in Seq(Char) /\ Len(e) = 4 * q + (IF r = 0 THEN 0 ELSE 4)
  BY <1>2, <1>10, <1>11
<1>13. ASSUME NEW i \in 0 .. (q - 1), NEW j \in 1 .. 4
       PROVE  e[4 * i + j] = GroupOf(s, i)[j]
  BY <1>2, <1>9, <1>11
<1>14. ASSUME r # 0, NEW j \in 1 .. 4 PROVE e[4 * q + j] = rest[j]
  <2>1. Len(rest) = 4
    BY <1>10, <1>14
  <2> QED
    BY <1>2, <1>11, <2>1
<1>15. ASSUME r # 0
       PROVE  /\ \A j \in 1 .. (r + 1) : e[4 * q + j] = GroupOf(s, q)[j]
              /\ \A j \in (r + 2) .. 4 : e[4 * q + j] = Pad
  <2>1. \A j \in 1 .. (r + 1) : j \in 1 .. 4
    OBVIOUS
  <2>2. \A j \in (r + 2) .. 4 : j \in 1 .. 4
    OBVIOUS
  <2> QED
    BY <1>10, <1>14, <1>15, <2>1, <2>2
<1> QED
  BY <1>12, <1>13, <1>15 DEF e

-----------------------------------------------------------------------------
(***************************************************************************)
(* The characters before the first that is not of basis_64.                *)
(***************************************************************************)
LEMMA EndOfText ==
    ASSUME NEW t \in Seq(Char)
    PROVE  /\ nprbytes(t) \in 0 .. Len(t)
           /\ \A i \in 1 .. nprbytes(t) : t[i] \in 0 .. 63
           /\ nprbytes(t) < Len(t) => t[nprbytes(t) + 1] = Pad
<1> DEFINE I == {i \in 1 .. Len(t) : t[i] > 63}
<1>1. nprbytes(t) = LET end == IF I # {} THEN Min(I) ELSE 0
                    IN  IF end = 0 THEN Len(t) ELSE end - 1
  BY DEF nprbytes, SelectInSeq
<1>2. Len(t) \in Nat /\ \A i \in 1 .. Len(t) : t[i] \in 0 .. 64
  <2>1. Char = 0 .. 64
    BY DEF Char, Pad
  <2>2. \A i \in 1 .. Len(t) : t[i] \in Char
    OBVIOUS
  <2>3. Len(t) \in Nat
    OBVIOUS
  <2> QED
    BY <2>1, <2>2, <2>3
<1>3. CASE I = {}
  <2>1. nprbytes(t) = Len(t)
    BY <1>1, <1>3
  <2>2. ASSUME NEW i \in 1 .. Len(t) PROVE t[i] \in 0 .. 63
    <3>1. t[i] \in 0 .. 64
      BY <1>2
    <3>2. ~ (t[i] > 63)
      BY <1>3
    <3> QED
      BY <3>1, <3>2
  <2> QED
    BY <1>2, <2>1, <2>2
<1>4. CASE I # {}
  <2>1. I \in SUBSET Nat /\ I \subseteq 1 .. Len(t)
    OBVIOUS
  <2> DEFINE m == Min(I)
  <2>2. m \in I /\ \A i \in I : m <= i
    <3> HIDE DEF I
    <3> QED
      BY <1>4, <2>1, LeastExists
  <2>3. nprbytes(t) = IF m = 0 THEN Len(t) ELSE m - 1
    BY <1>1, <1>4
  <2> HIDE DEF m
  <2>4. m \in 1 .. Len(t) /\ t[m] > 63
    BY <2>2
  <2>5. nprbytes(t) = m - 1
    BY <2>3, <2>4
  <2>6. t[m] = 64
    <3>1. t[m] \in 0 .. 64
      BY <1>2, <2>4
    <3>2. t[m] > 63
      BY <2>4
    <3> DEFINE x == t[m]
    <3>3. x \in 0 .. 64 /\ x > 63
      BY <3>1, <3>2
    <3> HIDE DEF x
    <3>4. x = 64
      BY <3>3
    <3> QED
      BY <3>4 DEF x
  <2>7. \A i \in 1 .. (m - 1) : t[i] \in 0 .. 63
    <3> SUFFICES ASSUME NEW i \in 1 .. (m - 1) PROVE t[i] \in 0 .. 63
      OBVIOUS
    <3>1. i \in 1 .. Len(t) /\ ~ (m <= i)
      BY <1>2, <2>4
    <3>2. ~ (t[i] > 63)
      BY <2>2, <3>1
    <3>3. t[i] \in 0 .. 64
      BY <1>2, <3>1
    <3> QED
      BY <3>2, <3>3
  <2> QED
    BY <1>2, <2>4, <2>5, <2>6, <2>7 DEF Pad
<1> QED
  BY <1>3, <1>4

LEMMA EndOfTextIs ==
    ASSUME NEW t \in Seq(Char), NEW n \in 0 .. Len(t),
           \A i \in 1 .. n : t[i] \in 0 .. 63, n < Len(t) => t[n + 1] = Pad
    PROVE  nprbytes(t) = n
<1> DEFINE m == nprbytes(t)
<1>1. /\ m \in 0 .. Len(t)
      /\ \A i \in 1 .. m : t[i] \in 0 .. 63
      /\ m < Len(t) => t[m + 1] = Pad
  BY EndOfText
<1>2. Len(t) \in Nat
  OBVIOUS
<1> HIDE DEF m
<1>3. ~ (m < n)
  <2> SUFFICES ASSUME m < n PROVE FALSE
    OBVIOUS
  <2>1. m + 1 \in 1 .. n /\ m < Len(t)
    BY <1>1, <1>2
  <2>2. t[m + 1] \in 0 .. 63
    BY <2>1
  <2>3. t[m + 1] = Pad
    BY <1>1, <2>1
  <2> QED
    BY <2>2, <2>3 DEF Pad
<1>4. ~ (n < m)
  <2> SUFFICES ASSUME n < m PROVE FALSE
    OBVIOUS
  <2>1. n + 1 \in 1 .. m /\ n < Len(t)
    BY <1>1, <1>2
  <2>2. t[n + 1] \in 0 .. 63
    BY <1>1, <2>1
  <2>3. t[n + 1] = Pad
    BY <2>1
  <2> QED
    BY <2>2, <2>3 DEF Pad
<1> QED
  BY <1>1, <1>2, <1>3, <1>4 DEF m

(* What the decoding takes for the k-th character.                         *)
CharAt(t, k) == IF k <= nprbytes(t) THEN t[k] ELSE 0

LEMMA CharAtIs ==
    ASSUME NEW t \in Seq(Char), NEW k \in Nat \ {0}
    PROVE  /\ CharAt(t, k) \in 0 .. 63
           /\ k <= nprbytes(t) => CharAt(t, k) = t[k]
           /\ k > nprbytes(t) => CharAt(t, k) = 0
<1>1. nprbytes(t) \in Nat /\ \A i \in 1 .. nprbytes(t) : t[i] \in 0 .. 63
  <2>1. Len(t) \in Nat /\ nprbytes(t) \in 0 .. Len(t)
    BY EndOfText
  <2> QED
    BY <2>1, EndOfText
<1>2. CASE k <= nprbytes(t)
  <2>1. k \in 1 .. nprbytes(t) /\ ~ (k > nprbytes(t))
    BY <1>1, <1>2
  <2> QED
    BY <1>1, <1>2, <2>1 DEF CharAt
<1>3. CASE ~ (k <= nprbytes(t))
  BY <1>3 DEF CharAt
<1> QED
  BY <1>2, <1>3

(* The characters of the last group that are not written are those of the  *)
(* number 0, which is what the decoding puts in their place.               *)
LEMMA UnwrittenChars ==
    ASSUME NEW s \in Seq(Byte), NEW q \in Nat, NEW r \in {1, 2}, Len(s) = 3 * q + r,
           NEW j \in (r + 2) .. 4
    PROVE  GroupOf(s, q)[j] = 0
<1>1. ByteAt(s, 3 * q + 3) = 0 /\ (r = 1 => ByteAt(s, 3 * q + 2) = 0)
  BY DEF ByteAt
<1>2. (0 % 16) * 4 + 0 \div 64 = 0 /\ 0 % 64 = 0
  OBVIOUS
<1>3. CASE r = 1
  <2>1. j = 3 \/ j = 4
    BY <1>3
  <2>2. GroupOf(s, q) = Sextets(ByteAt(s, 3 * q + 1), 0, 0)
    BY <1>1, <1>3 DEF GroupOf
  <2> QED
    BY <1>2, <2>1, <2>2 DEF Sextets
<1>4. CASE r = 2
  <2>1. j = 4
    BY <1>4
  <2>2. GroupOf(s, q) = Sextets(ByteAt(s, 3 * q + 1), ByteAt(s, 3 * q + 2), 0)
    BY <1>1 DEF GroupOf
  <2> QED
    BY <1>2, <2>1, <2>2 DEF Sextets
<1> QED
  BY <1>3, <1>4

LEMMA EncodedChars ==
    ASSUME NEW s \in Seq(Byte), NEW q \in Nat, NEW r \in 0 .. 2, Len(s) = 3 * q + r
    PROVE  LET e == Base64encode(s)
           IN  /\ e \in Seq(Char)
               /\ nprbytes(e) = 4 * q + (IF r = 0 THEN 0 ELSE r + 1)
               /\ \A i \in Nat, j \in 1 .. 4 :
                     3 * i < Len(s) => CharAt(e, 4 * i + j) = GroupOf(s, i)[j]
<1> DEFINE e == Base64encode(s)
           n == 4 * q + (IF r = 0 THEN 0 ELSE r + 1)
<1>1. /\ e \in Seq(Char)
      /\ Len(e) = 4 * q + (IF r = 0 THEN 0 ELSE 4)
      /\ \A i \in 0 .. (q - 1), j \in 1 .. 4 : e[4 * i + j] = GroupOf(s, i)[j]
      /\ r # 0 => /\ \A j \in 1 .. (r + 1) : e[4 * q + j] = GroupOf(s, q)[j]
                  /\ \A j \in (r + 2) .. 4 : e[4 * q + j] = Pad
  BY Encoded, ZenonT(30)
<1> HIDE DEF e
<1>2. n \in 0 .. Len(e)
  BY <1>1
<1>3. ASSUME NEW k \in 1 .. n PROVE e[k] \in 0 .. 63
  <2> DEFINE i == (k - 1) \div 4
             j == ((k - 1) % 4) + 1
  <2>1. k = 4 * i + j /\ i \in Nat /\ j \in 1 .. 4
    BY <1>2
  <2> HIDE DEF i, j
  <2>2. GroupOf(s, i)[j] \in 0 .. 63
    BY <2>1, GroupOfIs
  <2>3. CASE i < q
    <3>1. i \in 0 .. (q - 1)
      BY <2>1, <2>3
    <3> QED
      BY <1>1, <2>1, <2>2, <3>1
  <2>4. CASE ~ (i < q)
    <3>1. i = q /\ r # 0 /\ j \in 1 .. (r + 1)
      BY <2>1, <2>4
    <3> QED
      BY <1>1, <2>1, <2>2, <3>1
  <2> QED
    BY <2>3, <2>4
<1>4. n < Len(e) => e[n + 1] = Pad
  <2> SUFFICES ASSUME n < Len(e) PROVE e[n + 1] = Pad
    OBVIOUS
  <2>1. r # 0
    BY <1>1
  <2>2. r + 2 \in (r + 2) .. 4 /\ n + 1 = 4 * q + (r + 2)
    BY <2>1
  <2> QED
    BY <1>1, <2>1, <2>2
<1>5. nprbytes(e) = n
  <2> HIDE DEF n
  <2> QED
    BY <1>1, <1>2, <1>3, <1>4, EndOfTextIs
<1>6. ASSUME NEW i \in Nat, NEW j \in 1 .. 4, 3 * i < Len(s)
      PROVE  CharAt(e, 4 * i + j) = GroupOf(s, i)[j]
  <2>1. CASE i < q
    <3>1. i \in 0 .. (q - 1) /\ 4 * i + j <= n
      BY <2>1
    <3> QED
      BY <1>1, <1>5, <3>1 DEF CharAt
  <2>2. CASE ~ (i < q)
    <3>1. i = q /\ r # 0 /\ r \in {1, 2} /\ n = 4 * q + (r + 1)
      BY <1>6, <2>2
    <3>2. CASE j <= r + 1
      <4>1. j \in 1 .. (r + 1) /\ 4 * i + j <= n
        BY <3>1, <3>2
      <4> QED
        BY <1>1, <1>5, <3>1, <4>1 DEF CharAt
    <3>3. CASE ~ (j <= r + 1)
      <4>1. j \in (r + 2) .. 4 /\ ~ (4 * i + j <= n)
        BY <3>1, <3>3
      <4>2. GroupOf(s, q)[j] = 0
        BY <3>1, <4>1, UnwrittenChars
      <4> QED
        BY <1>5, <3>1, <4>1, <4>2 DEF CharAt
    <3> QED
      BY <3>2, <3>3
  <2> QED
    BY <2>1, <2>2
<1> QED
  BY <1>1, <1>5, <1>6 DEF e

-----------------------------------------------------------------------------
(***************************************************************************)
(* Decoding.                                                               *)
(***************************************************************************)
OctetsAt(t, i) ==
    Octets(CharAt(t, 4 * i + 1), CharAt(t, 4 * i + 2), CharAt(t, 4 * i + 3), CharAt(t, 4 * i + 4))

LEMMA OctetsThree ==
    ASSUME NEW w \in 0 .. 63, NEW x \in 0 .. 63, NEW y \in 0 .. 63, NEW z \in 0 .. 63
    PROVE  Octets(w, x, y, z) \in Seq(Byte) /\ Len(Octets(w, x, y, z)) = 3
<1> DEFINE a == (w * 4 + x \div 16) % 256
           b == (x * 16 + y \div 4) % 256
           c == (y * 64 + z) % 256
<1>1. x \div 16 \in Nat /\ y \div 4 \in Nat
  OBVIOUS
<1>2. a \in Byte /\ b \in Byte /\ c \in Byte
  BY <1>1 DEF Byte
<1>3. Octets(w, x, y, z) = <<a, b, c>>
  BY DEF Octets
<1> HIDE DEF a, b, c
<1> QED
  BY <1>2, <1>3

LEMMA OctetsAtIs ==
    ASSUME NEW t \in Seq(Char), NEW i \in Nat
    PROVE  /\ OctetsAt(t, i) \in Seq(Byte) /\ Len(OctetsAt(t, i)) = 3
           /\ 4 * i + 4 <= nprbytes(t) =>
                 OctetsAt(t, i) = Octets(t[4 * i + 1], t[4 * i + 2], t[4 * i + 3], t[4 * i + 4])
<1>1. /\ 4 * i + 1 \in Nat \ {0} /\ 4 * i + 2 \in Nat \ {0}
      /\ 4 * i + 3 \in Nat \ {0} /\ 4 * i + 4 \in Nat \ {0}
  OBVIOUS
<1>2. /\ CharAt(t, 4 * i + 1) \in 0 .. 63 /\ CharAt(t, 4 * i + 2) \in 0 .. 63
      /\ CharAt(t, 4 * i + 3) \in 0 .. 63 /\ CharAt(t, 4 * i + 4) \in 0 .. 63
  <2>1. \A k \in Nat \ {0} : CharAt(t, k) \in 0 .. 63
    BY CharAtIs
  <2> QED
    BY <1>1, <2>1, Zenon
<1>3. OctetsAt(t, i) \in Seq(Byte) /\ Len(OctetsAt(t, i)) = 3
  BY <1>2, OctetsThree DEF OctetsAt
<1>4. ASSUME 4 * i + 4 <= nprbytes(t)
      PROVE  OctetsAt(t, i) = Octets(t[4 * i + 1], t[4 * i + 2], t[4 * i + 3], t[4 * i + 4])
  <2>1. nprbytes(t) \in Nat
    <3>1. Len(t) \in Nat /\ nprbytes(t) \in 0 .. Len(t)
      BY EndOfText
    <3> QED
      BY <3>1
  <2>2. /\ 4 * i + 1 <= nprbytes(t) /\ 4 * i + 2 <= nprbytes(t)
        /\ 4 * i + 3 <= nprbytes(t) /\ 4 * i + 4 <= nprbytes(t)
    BY <1>4, <2>1
  <2> QED
    BY <2>2 DEF OctetsAt, CharAt
<1> QED
  BY <1>3, <1>4

(* The groups that the loop of whole groups decodes, and what it leaves.   *)
Whole(n) == IF n > 4 THEN (n - 1) \div 4 ELSE 0

LEMMA WholeIs ==
    ASSUME NEW n \in Nat
    PROVE  /\ Whole(n) \in Nat
           /\ n - 4 * Whole(n) \in 0 .. 4
           /\ n # 0 => n - 4 * Whole(n) # 0
<1>1. CASE n > 4
  <2> DEFINE w == (n - 1) \div 4
  <2>1. w \in Nat /\ n - 4 * w \in 1 .. 4
    BY <1>1
  <2>2. Whole(n) = w
    BY <1>1 DEF Whole
  <2> HIDE DEF w
  <2> QED
    BY <2>1, <2>2
<1>2. CASE ~ (n > 4)
  BY <1>2 DEF Whole
<1> QED
  BY <1>1, <1>2

LEMMA LastOctetsIs ==
    ASSUME NEW t \in Seq(Char), NEW m \in Nat, NEW l \in 0 .. 4, nprbytes(t) = 4 * m + l
    PROVE  LET last == LastOctets(SubSeq(t, 4 * m + 1, nprbytes(t)))
           IN  /\ last \in Seq(Byte)
               /\ Len(last) = IF l > 1 THEN l - 1 ELSE 0
               /\ \A j \in 1 .. Len(last) : last[j] = OctetsAt(t, m)[j]
<1> DEFINE rest == SubSeq(t, 4 * m + 1, nprbytes(t))
           At(n) == IF n \in DOMAIN rest THEN rest[n] ELSE 0
           count == IF l > 1 THEN l - 1 ELSE 0
<1>1. nprbytes(t) \in Nat /\ nprbytes(t) <= Len(t)
  <2>1. Len(t) \in Nat /\ nprbytes(t) \in 0 .. Len(t)
    BY EndOfText
  <2> QED
    BY <2>1
<1>2. rest \in Seq(Char) /\ Len(rest) = l /\ \A i \in 1 .. l : rest[i] = t[4 * m + i]
  <2>1. 4 * m \in Nat /\ 4 * m <= nprbytes(t) /\ nprbytes(t) - 4 * m = l
    BY <1>1
  <2> QED
    BY <1>1, <2>1, Part
<1>3. LastOctets(rest) = SubSeq(Octets(At(1), At(2), At(3), At(4)), 1, count)
  <2> HIDE DEF rest
  <2> QED
    BY <1>2 DEF LastOctets
<1> HIDE DEF rest
<1>4. DOMAIN rest = 1 .. l
  BY <1>2
<1>5. ASSUME NEW k \in 1 .. 4 PROVE At(k) = CharAt(t, 4 * m + k)
  <2>1. k <= l <=> 4 * m + k <= nprbytes(t)
    OBVIOUS
  <2> QED
    BY <1>2, <1>4, <2>1 DEF CharAt
<1> HIDE DEF At
<1>6. LastOctets(rest) = SubSeq(OctetsAt(t, m), 1, count)
  BY <1>3, <1>5 DEF OctetsAt
<1>7. OctetsAt(t, m) \in Seq(Byte) /\ Len(OctetsAt(t, m)) = 3
  BY OctetsAtIs
<1>8. count \in 0 .. Len(OctetsAt(t, m))
  BY <1>7
<1> HIDE DEF count
<1>9. /\ SubSeq(OctetsAt(t, m), 1, count) \in Seq(Byte)
      /\ Len(SubSeq(OctetsAt(t, m), 1, count)) = count
      /\ \A j \in 1 .. count : SubSeq(OctetsAt(t, m), 1, count)[j] = OctetsAt(t, m)[j]
  BY <1>7, <1>8, FirstPart
<1> QED
  BY <1>6, <1>9 DEF rest, count

LEMMA Decoded ==
    ASSUME NEW t \in Seq(Char), NEW m \in Nat, NEW l \in 0 .. 4,
           nprbytes(t) = 4 * m + l, Whole(nprbytes(t)) = m
    PROVE  LET d == Base64decode(t)
           IN  /\ d \in Seq(Byte)
               /\ Len(d) = 3 * m + (IF l > 1 THEN l - 1 ELSE 0)
               /\ \A i \in Nat, j \in 1 .. 3 : 3 * i + j <= Len(d) => d[3 * i + j] = OctetsAt(t, i)[j]
<1> DEFINE d == Base64decode(t)
           seqs == [g \in 1 .. m |-> Octets(t[4 * g - 3], t[4 * g - 2], t[4 * g - 1], t[4 * g])]
           whole == FlattenSeq(seqs)
           last == LastOctets(SubSeq(t, 4 * m + 1, nprbytes(t)))
<1>1. d = whole \o last
  BY DEF Base64decode, Whole
<1>2. ASSUME NEW g \in 1 .. m PROVE seqs[g] = OctetsAt(t, g - 1)
  <2>1. g - 1 \in Nat /\ 4 * (g - 1) + 4 <= nprbytes(t)
    OBVIOUS
  <2>2. /\ 4 * (g - 1) + 1 = 4 * g - 3 /\ 4 * (g - 1) + 2 = 4 * g - 2
        /\ 4 * (g - 1) + 3 = 4 * g - 1 /\ 4 * (g - 1) + 4 = 4 * g
    OBVIOUS
  <2>3. OctetsAt(t, g - 1) = Octets(t[4 * (g - 1) + 1], t[4 * (g - 1) + 2],
                                    t[4 * (g - 1) + 3], t[4 * (g - 1) + 4])
    BY <2>1, OctetsAtIs
  <2> QED
    BY <2>2, <2>3
<1>3. \A g \in 1 .. m : seqs[g] \in Seq(Byte) /\ Len(seqs[g]) = 3
  <2> SUFFICES ASSUME NEW g \in 1 .. m
               PROVE  OctetsAt(t, g - 1) \in Seq(Byte) /\ Len(OctetsAt(t, g - 1)) = 3
    BY <1>2
  <2>1. g - 1 \in Nat
    OBVIOUS
  <2> QED
    BY <2>1, OctetsAtIs
<1>4. seqs = [g \in 1 .. m |-> seqs[g]]
  OBVIOUS
<1> HIDE DEF seqs
<1>5. seqs \in Seq(Seq(Byte)) /\ Len(seqs) = m
  BY <1>3, <1>4
<1>6. Joined(whole, seqs, m, 3, Byte)
  <2>1. \A i \in 1 .. Len(seqs) : Len(seqs[i]) = 3
    BY <1>3, <1>5
  <2>2. Joined(FlattenSeq(seqs), seqs, Len(seqs), 3, Byte)
    BY <1>5, <2>1, FlattenedGroups
  <2> QED
    BY <1>5, <2>2
<1> HIDE DEF whole
<1>7. whole \in Seq(Byte) /\ Len(whole) = 3 * m
  BY <1>6 DEF Joined
<1>8. ASSUME NEW i \in 0 .. (m - 1), NEW j \in 1 .. 3
      PROVE  3 * i + j \in 1 .. Len(whole) /\ whole[3 * i + j] = OctetsAt(t, i)[j]
  <2>1. i + 1 \in 1 .. m /\ (i + 1) - 1 = i
    OBVIOUS
  <2>2. whole[3 * ((i + 1) - 1) + j] = seqs[i + 1][j]
    BY <1>6, <2>1 DEF Joined
  <2>3. seqs[i + 1] = OctetsAt(t, (i + 1) - 1)
    BY <1>2, <2>1
  <2>4. 3 * i + j \in 1 .. (3 * m)
    OBVIOUS
  <2> QED
    BY <1>7, <2>1, <2>2, <2>3, <2>4
<1>9. /\ last \in Seq(Byte)
      /\ Len(last) = IF l > 1 THEN l - 1 ELSE 0
      /\ \A j \in 1 .. Len(last) : last[j] = OctetsAt(t, m)[j]
  BY LastOctetsIs
<1> HIDE DEF last
<1>10. /\ whole \o last \in Seq(Byte)
       /\ Len(whole \o last) = 3 * m + Len(last)
       /\ \A i \in 1 .. Len(whole) : (whole \o last)[i] = whole[i]
       /\ \A j \in 1 .. Len(last) : (whole \o last)[3 * m + j] = last[j]
  <2>1. whole \in Seq(Byte) /\ last \in Seq(Byte) /\ Len(whole) = 3 * m
    BY <1>7, <1>9
  <2>2. /\ whole \o last \in Seq(Byte)
        /\ Len(whole \o last) = Len(whole) + Len(last)
        /\ \A i \in 1 .. Len(whole) : (whole \o last)[i] = whole[i]
        /\ \A j \in 1 .. Len(last) : (whole \o last)[Len(whole) + j] = last[j]
    BY <2>1, SMTT(30)
  <2> QED
    BY <2>1, <2>2
<1> HIDE DEF d
<1>11. d \in Seq(Byte) /\ Len(d) = 3 * m + (IF l > 1 THEN l - 1 ELSE 0)
  BY <1>1, <1>9, <1>10
<1>12. ASSUME NEW i \in Nat, NEW j \in 1 .. 3, 3 * i + j <= Len(d)
       PROVE  d[3 * i + j] = OctetsAt(t, i)[j]
  <2>1. CASE i < m
    <3>1. i \in 0 .. (m - 1)
      BY <2>1
    <3> QED
      BY <1>1, <1>8, <1>10, <3>1
  <2>2. CASE ~ (i < m)
    <3>1. i = m /\ j <= Len(last)
      BY <1>9, <1>11, <1>12, <2>2
    <3>2. j \in 1 .. Len(last)
      BY <1>9, <3>1
    <3> QED
      BY <1>1, <1>9, <1>10, <3>1, <3>2
  <2> QED
    BY <2>1, <2>2
<1> QED
  BY <1>11, <1>12 DEF d

-----------------------------------------------------------------------------
(***************************************************************************)
(* The results, of the two functions and then of every state of MCBase64.  *)
(***************************************************************************)

(* Base64decode gives back what Base64encode was given, for strings of any *)
(* bytes and any length (base64.c:123-210); so no two strings have one     *)
(* text.                                                                   *)
THEOREM DecodingUndoesEncoding ==
    ASSUME NEW s \in Seq(Byte)
    PROVE  Base64decode(Base64encode(s)) = s
<1>1. PICK q \in Nat, r \in 0 .. 2 : Len(s) = 3 * q + r
  <2>1. Len(s) \in Nat
    OBVIOUS
  <2> QED
    BY <2>1, Groups
<1> DEFINE e == Base64encode(s)
           d == Base64decode(e)
           m == IF r = 0 /\ q > 0 THEN q - 1 ELSE q
           l == IF r # 0 THEN r + 1 ELSE IF q > 0 THEN 4 ELSE 0
<1>2. /\ e \in Seq(Char)
      /\ nprbytes(e) = 4 * q + (IF r = 0 THEN 0 ELSE r + 1)
      /\ \A i \in Nat, j \in 1 .. 4 :
            3 * i < Len(s) => CharAt(e, 4 * i + j) = GroupOf(s, i)[j]
  BY <1>1, EncodedChars
<1> HIDE DEF e
<1>3. m \in Nat /\ l \in 0 .. 4 /\ nprbytes(e) = 4 * m + l
  BY <1>2
<1>4. Whole(nprbytes(e)) = m
  <2>1. CASE r = 0 /\ q > 1
    <3>1. (4 * q - 1) \div 4 = q - 1
      BY <2>1
    <3> QED
      BY <1>2, <2>1, <3>1 DEF Whole
  <2>2. CASE r = 0 /\ ~ (q > 1)
    BY <1>2, <2>2 DEF Whole
  <2>3. CASE r # 0 /\ q > 0
    <3>1. (4 * q + r) \div 4 = q
      OBVIOUS
    <3>2. nprbytes(e) - 1 = 4 * q + r /\ nprbytes(e) > 4
      BY <1>2, <2>3
    <3> QED
      BY <2>3, <3>1, <3>2 DEF Whole
  <2>4. CASE r # 0 /\ ~ (q > 0)
    BY <1>2, <2>4 DEF Whole
  <2> QED
    BY <2>1, <2>2, <2>3, <2>4
<1>5. /\ d \in Seq(Byte)
      /\ Len(d) = 3 * m + (IF l > 1 THEN l - 1 ELSE 0)
      /\ \A i \in Nat, j \in 1 .. 3 : 3 * i + j <= Len(d) => d[3 * i + j] = OctetsAt(e, i)[j]
  <2> HIDE DEF m, l
  <2> QED
    BY <1>2, <1>3, <1>4, Decoded
<1> HIDE DEF d
<1>6. Len(d) = Len(s)
  BY <1>1, <1>5
<1> HIDE DEF m, l
<1>7. ASSUME NEW p \in 1 .. Len(s) PROVE d[p] = s[p]
  <2> DEFINE i == (p - 1) \div 3
             j == ((p - 1) % 3) + 1
  <2>1. Len(s) \in Nat
    OBVIOUS
  <2>2. i \in Nat /\ j \in 1 .. 3 /\ p = 3 * i + j /\ 3 * i < Len(s)
    BY <2>1
  <2> HIDE DEF i, j
  <2>3. d[p] = OctetsAt(e, i)[j]
    <3>1. 3 * i + j <= Len(d)
      BY <1>6, <2>1, <2>2
    <3>2. d[3 * i + j] = OctetsAt(e, i)[j]
      BY <1>5, <2>2, <3>1
    <3> QED
      BY <2>2, <3>2
  <2> DEFINE a == ByteAt(s, 3 * i + 1)
             b == ByteAt(s, 3 * i + 2)
             c == ByteAt(s, 3 * i + 3)
             g == Sextets(a, b, c)
  <2>4. a \in Byte /\ b \in Byte /\ c \in Byte
    <3>1. 3 * i + 1 \in Nat \ {0} /\ 3 * i + 2 \in Nat \ {0} /\ 3 * i + 3 \in Nat \ {0}
      BY <2>2
    <3> QED
      BY <3>1, ByteAtIs
  <2>5. GroupOf(s, i) = g
    BY DEF GroupOf
  <2>6. OctetsAt(e, i) = Octets(g[1], g[2], g[3], g[4])
    <3>1. \A k \in 1 .. 4 : CharAt(e, 4 * i + k) = g[k]
      BY <1>2, <2>2, <2>5
    <3> HIDE DEF g
    <3> QED
      BY <3>1 DEF OctetsAt
  <2>7. Octets(g[1], g[2], g[3], g[4]) = <<a, b, c>>
    <3> HIDE DEF a, b, c
    <3> QED
      BY <2>4, GroupRoundTrip
  <2>8. <<a, b, c>>[j] = ByteAt(s, p)
    <3>1. j = 1 \/ j = 2 \/ j = 3
      BY <2>2
    <3> QED
      BY <2>2, <3>1
  <2>9. ByteAt(s, p) = s[p]
    BY DEF ByteAt
  <2> QED
    BY <2>3, <2>6, <2>7, <2>8, <2>9
<1>8. d = s
  BY <1>5, <1>6, <1>7, SMTT(30)
<1> QED
  BY <1>8 DEF d, e

(* The text and its NUL are as long as Base64encode_len says               *)
(* (base64.c:174-210).                                                     *)
THEOREM EncodedLength ==
    ASSUME NEW s \in Seq(Byte)
    PROVE  Len(Base64encode(s)) + 1 = Base64encode_len(Len(s))
<1>1. PICK q \in Nat, r \in 0 .. 2 : Len(s) = 3 * q + r
  <2>1. Len(s) \in Nat
    OBVIOUS
  <2> QED
    BY <2>1, Groups
<1>2. Len(Base64encode(s)) = 4 * q + (IF r = 0 THEN 0 ELSE 4)
  BY <1>1, Encoded, ZenonT(30)
<1>3. (3 * q + r + 2) \div 3 = q + (IF r = 0 THEN 0 ELSE 1)
  OBVIOUS
<1> QED
  BY <1>1, <1>2, <1>3 DEF Base64encode_len

(* Of any text, as many bytes are written as are reported, and with the    *)
(* NUL no more than Base64decode_len says (base64.c:107-169).              *)
THEOREM DecodedLength ==
    ASSUME NEW t \in Seq(Char)
    PROVE  /\ Len(Base64decode(t)) = nbytesdecoded(t)
           /\ Len(Base64decode(t)) + 1 <= Base64decode_len(t)
<1> DEFINE n == nprbytes(t)
           m == Whole(n)
           l == n - 4 * m
           bytes == Len(Base64decode(t))
<1>1. n \in Nat
  <2>1. Len(t) \in Nat /\ n \in 0 .. Len(t)
    BY EndOfText
  <2> QED
    BY <2>1
<1> HIDE DEF n
<1>2. m \in Nat /\ l \in 0 .. 4 /\ (n # 0 => l # 0) /\ n = 4 * m + l
  <2>1. m \in Nat /\ l \in 0 .. 4 /\ (n # 0 => l # 0)
    BY <1>1, WholeIs
  <2>2. n = 4 * m + l
    <3> HIDE DEF m
    <3> QED
      BY <1>1, <2>1
  <2> QED
    BY <2>1, <2>2
<1>3. n > 4 => m = (n - 1) \div 4
  BY DEF Whole
<1>4. ~ (n > 4) => m = 0
  BY DEF Whole
<1> HIDE DEF m, l
<1>5. bytes = 3 * m + (IF l > 1 THEN l - 1 ELSE 0)
  BY <1>2, Decoded DEF n, m
<1> HIDE DEF bytes
<1>6. (n + 3) \div 4 = m + (IF l = 0 THEN 0 ELSE 1)
  BY <1>2
<1>7. (IF n > 4 THEN ((n - 1) % 4) + 1 ELSE n) = l
  <2>1. CASE n > 4
    <3>1. l \in 1 .. 4 /\ n - 1 = 4 * m + (l - 1)
      BY <1>2, <2>1
    <3>2. (4 * m + (l - 1)) % 4 = l - 1
      BY <1>2, <3>1
    <3> QED
      BY <2>1, <3>1, <3>2
  <2>2. CASE ~ (n > 4)
    BY <1>1, <1>2, <1>4, <2>2
  <2> QED
    BY <2>1, <2>2
<1>8. nbytesdecoded(t) = (m + (IF l = 0 THEN 0 ELSE 1)) * 3 - ((4 - l) % 4)
  BY <1>6, <1>7 DEF nbytesdecoded, n
<1>9. (4 - l) % 4 = IF l = 0 THEN 0 ELSE 4 - l
  BY <1>2
<1>10. l = 0 \/ l = 1 \/ l = 2 \/ l = 3 \/ l = 4
  BY <1>2
<1>11. bytes = nbytesdecoded(t)
  BY <1>2, <1>5, <1>8, <1>9, <1>10
<1>12. bytes + 1 <= Base64decode_len(t)
  BY <1>2, <1>5, <1>6, <1>10 DEF Base64decode_len, n
<1> QED
  BY <1>11, <1>12 DEF bytes

BytesAndChars == string \in Seq(Byte) /\ text \in Seq(Char)

LEMMA EncodingIsText ==
    ASSUME NEW s \in Seq(Byte)
    PROVE  Base64encode(s) \in Seq(Char)
<1>1. PICK q \in Nat, r \in 0 .. 2 : Len(s) = 3 * q + r
  <2>1. Len(s) \in Nat
    OBVIOUS
  <2> QED
    BY <2>1, Groups
<1> QED
  BY <1>1, Encoded

LEMMA BytesAndCharsInvariant == Spec => []BytesAndChars
<1>1. Init => BytesAndChars
  BY DEF Init, BytesAndChars
<1>2. BytesAndChars /\ [Next]_<<string, text>> => BytesAndChars'
  <2> SUFFICES ASSUME BytesAndChars, [Next]_<<string, text>> PROVE BytesAndChars'
    OBVIOUS
  <2>1. ASSUME NEW byte \in Values, Encode(byte) PROVE BytesAndChars'
    <3>1. byte \in Byte
      BY Base64Assumption
    <3>2. string' \in Seq(Byte)
      BY <2>1, <3>1 DEF BytesAndChars, Encode
    <3>3. text' \in Seq(Char)
      BY <2>1, <3>2, EncodingIsText DEF Encode
    <3> QED
      BY <3>2, <3>3 DEF BytesAndChars
  <2>2. ASSUME NEW c \in Characters, Garble(c) PROVE BytesAndChars'
    <3>1. c \in Char
      BY Base64Assumption DEF Char
    <3> QED
      BY <2>2, <3>1 DEF BytesAndChars, Garble
  <2>3. CASE UNCHANGED <<string, text>>
    BY <2>3 DEF BytesAndChars
  <2> QED
    BY <2>1, <2>2, <2>3 DEF Next
<1> QED
  BY <1>1, <1>2, PTL DEF Spec

(* Whatever bytes a string is made of, however many there are, decoding    *)
(* its text gives it back.                                                 *)
THEOREM RoundTripCorrect == Spec => []RoundTrip
<1>1. BytesAndChars => RoundTrip
  BY DecodingUndoesEncoding DEF BytesAndChars, RoundTrip
<1> QED
  BY <1>1, BytesAndCharsInvariant, PTL

(* The text of a string and its NUL fill what is allocated for them.       *)
THEOREM EncodeFitsCorrect == Spec => []EncodeFits
<1>1. BytesAndChars => EncodeFits
  BY EncodedLength DEF BytesAndChars, EncodeFits
<1> QED
  BY <1>1, BytesAndCharsInvariant, PTL

(* Of no text are more bytes decoded than are allocated, nor another       *)
(* number than is reported.                                                *)
THEOREM DecodeFitsCorrect == Spec => []DecodeFits
<1>1. BytesAndChars => DecodeFits
  BY DecodedLength DEF BytesAndChars, DecodeFits
<1> QED
  BY <1>1, BytesAndCharsInvariant, PTL
=============================================================================
