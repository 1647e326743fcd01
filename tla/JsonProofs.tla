----------------------------- MODULE JsonProofs -----------------------------
(***************************************************************************)
(* The two passes of json_parse over every text: where the first lets a    *)
(* text through, the second takes it apart at the same characters, fills   *)
(* the part of the allocation meant for the DOM exactly, and writes no     *)
(* more characters than were counted; and the first lets a text through    *)
(* where the grammar of JSON does.                                         *)
(***************************************************************************)
EXTENDS MCPacket, DataLemmas
-----------------------------------------------------------------------------
(* Recursion.  Sizing and Reading are the functions their definitions say. *)

(* As Sizing, for the first turns up to m only.                            *)
SizingUpTo(src, m, f) ==
    f = [n \in 0 .. m |-> IF n = 0 THEN NoSizes ELSE SizeTurn(src, f[n - 1])]

(* There is such a function.                                               *)
LEMMA SizingUpToExists ==
    ASSUME NEW src, NEW m \in Nat
    PROVE  \E f : SizingUpTo(src, m, f)
  <1> DEFINE S == {k \in Nat : \E f : SizingUpTo(src, k, f)}
  <1>1. 0 \in S
    <2> SizingUpTo(src, 0, [n \in 0 .. 0 |-> NoSizes])
      BY DEF SizingUpTo
    <2> QED
      OBVIOUS
  <1>2. ASSUME NEW k \in S PROVE k + 1 \in S
    <2>1. PICK f : SizingUpTo(src, k, f)
      OBVIOUS
    <2> DEFINE g == [n \in 0 .. k + 1 |-> IF n <= k THEN f[n] ELSE SizeTurn(src, f[k])]
    <2>2. ASSUME NEW n \in 0 .. k + 1
          PROVE  g[n] = IF n = 0 THEN NoSizes ELSE SizeTurn(src, g[n - 1])
      <3>1. CASE n <= k
        BY <2>1, <3>1 DEF SizingUpTo
      <3>2. CASE n = k + 1
        BY <3>2
      <3> QED
        BY <3>1, <3>2
    <2>3. SizingUpTo(src, k + 1, g)
      BY <2>2 DEF SizingUpTo
    <2> QED
      BY <2>3
  <1> HIDE DEF S
  <1>3. S = Nat
    BY <1>1, <1>2, AllNaturals DEF S
  <1> QED
    BY <1>3 DEF S

(* Two of them agree on the turns of both.                                 *)
LEMMA SizingUpToUnique ==
    ASSUME NEW src, NEW m \in Nat, NEW k \in Nat, NEW f, NEW g,
           SizingUpTo(src, m, f), SizingUpTo(src, k, g), m <= k
    PROVE  f[m] = g[m]
  <1> DEFINE S == {n \in Nat : n <= m => f[n] = g[n]}
  <1>1. 0 \in S
    BY DEF SizingUpTo
  <1>2. ASSUME NEW n \in S PROVE n + 1 \in S
    BY DEF SizingUpTo
  <1> HIDE DEF S
  <1>3. S = Nat
    BY <1>1, <1>2, AllNaturals DEF S
  <1> QED
    BY <1>3 DEF S

(* The first pass after n turns is a turn over what it was after n - 1.    *)
LEMMA SizingTurns ==
    ASSUME NEW src
    PROVE  Sizing(src) =
             [n \in Nat |-> IF n = 0 THEN NoSizes ELSE SizeTurn(src, Sizing(src)[n - 1])]
  <1> DEFINE upTo(n) == CHOOSE f : SizingUpTo(src, n, f)
             all == [n \in Nat |-> upTo(n)[n]]
             Is(f) == f = [n \in Nat |-> IF n = 0 THEN NoSizes ELSE SizeTurn(src, f[n - 1])]
  <1>1. ASSUME NEW n \in Nat PROVE SizingUpTo(src, n, upTo(n))
    BY SizingUpToExists
  <1> HIDE DEF upTo
  <1>2. ASSUME NEW n \in Nat
        PROVE  all[n] = IF n = 0 THEN NoSizes ELSE SizeTurn(src, all[n - 1])
    <2>1. CASE n = 0
      BY <1>1, <2>1 DEF SizingUpTo
    <2>2. CASE n # 0
      <3>1. n - 1 \in Nat /\ n - 1 <= n
        BY <2>2
      <3>2. upTo(n)[n - 1] = upTo(n - 1)[n - 1]
        BY <1>1, <3>1, SizingUpToUnique
      <3>3. upTo(n)[n] = SizeTurn(src, upTo(n)[n - 1])
        BY <1>1, <2>2 DEF SizingUpTo
      <3> QED
        BY <2>2, <3>1, <3>2, <3>3
    <2> QED
      BY <2>1, <2>2
  <1>3. Is(all)
    BY <1>2
  <1>4. Sizing(src) = CHOOSE f : Is(f)
    BY DEF Sizing
  <1> QED
    BY <1>3, <1>4

(* The same of Reading.                                                    *)
ReadingUpTo(src, m, f) ==
    f = [n \in 0 .. m |-> IF n = 0 THEN NoReads ELSE ReadTurn(src, f[n - 1])]

(* There is such a function.                                               *)
LEMMA ReadingUpToExists ==
    ASSUME NEW src, NEW m \in Nat
    PROVE  \E f : ReadingUpTo(src, m, f)
  <1> DEFINE S == {k \in Nat : \E f : ReadingUpTo(src, k, f)}
  <1>1. 0 \in S
    <2> ReadingUpTo(src, 0, [n \in 0 .. 0 |-> NoReads])
      BY DEF ReadingUpTo
    <2> QED
      OBVIOUS
  <1>2. ASSUME NEW k \in S PROVE k + 1 \in S
    <2>1. PICK f : ReadingUpTo(src, k, f)
      OBVIOUS
    <2> DEFINE g == [n \in 0 .. k + 1 |-> IF n <= k THEN f[n] ELSE ReadTurn(src, f[k])]
    <2>2. ASSUME NEW n \in 0 .. k + 1
          PROVE  g[n] = IF n = 0 THEN NoReads ELSE ReadTurn(src, g[n - 1])
      <3>1. CASE n <= k
        BY <2>1, <3>1 DEF ReadingUpTo
      <3>2. CASE n = k + 1
        BY <3>2
      <3> QED
        BY <3>1, <3>2
    <2>3. ReadingUpTo(src, k + 1, g)
      BY <2>2 DEF ReadingUpTo
    <2> QED
      BY <2>3
  <1> HIDE DEF S
  <1>3. S = Nat
    BY <1>1, <1>2, AllNaturals DEF S
  <1> QED
    BY <1>3 DEF S

(* Two of them agree on the turns of both.                                 *)
LEMMA ReadingUpToUnique ==
    ASSUME NEW src, NEW m \in Nat, NEW k \in Nat, NEW f, NEW g,
           ReadingUpTo(src, m, f), ReadingUpTo(src, k, g), m <= k
    PROVE  f[m] = g[m]
  <1> DEFINE S == {n \in Nat : n <= m => f[n] = g[n]}
  <1>1. 0 \in S
    BY DEF ReadingUpTo
  <1>2. ASSUME NEW n \in S PROVE n + 1 \in S
    BY DEF ReadingUpTo
  <1> HIDE DEF S
  <1>3. S = Nat
    BY <1>1, <1>2, AllNaturals DEF S
  <1> QED
    BY <1>3 DEF S

(* The same of the second pass.                                            *)
LEMMA ReadingTurns ==
    ASSUME NEW src
    PROVE  Reading(src) =
             [n \in Nat |-> IF n = 0 THEN NoReads ELSE ReadTurn(src, Reading(src)[n - 1])]
  <1> DEFINE upTo(n) == CHOOSE f : ReadingUpTo(src, n, f)
             all == [n \in Nat |-> upTo(n)[n]]
             Is(f) == f = [n \in Nat |-> IF n = 0 THEN NoReads ELSE ReadTurn(src, f[n - 1])]
  <1>1. ASSUME NEW n \in Nat PROVE ReadingUpTo(src, n, upTo(n))
    BY ReadingUpToExists
  <1> HIDE DEF upTo
  <1>2. ASSUME NEW n \in Nat
        PROVE  all[n] = IF n = 0 THEN NoReads ELSE ReadTurn(src, all[n - 1])
    <2>1. CASE n = 0
      BY <1>1, <2>1 DEF ReadingUpTo
    <2>2. CASE n # 0
      <3>1. n - 1 \in Nat /\ n - 1 <= n
        BY <2>2
      <3>2. upTo(n)[n - 1] = upTo(n - 1)[n - 1]
        BY <1>1, <3>1, ReadingUpToUnique
      <3>3. upTo(n)[n] = ReadTurn(src, upTo(n)[n - 1])
        BY <1>1, <2>2 DEF ReadingUpTo
      <3> QED
        BY <2>2, <3>1, <3>2, <3>3
    <2> QED
      BY <2>1, <2>2
  <1>3. Is(all)
    BY <1>2
  <1>4. Reading(src) = CHOOSE f : Is(f)
    BY DEF Reading
  <1> QED
    BY <1>3, <1>4
-----------------------------------------------------------------------------
(* Runs of characters.                                                     *)

(* Only behind its end is there no character of a text.                    *)
LEMMA OutsideText ==
    ASSUME NEW src \in Texts, NEW o \in Nat
    PROVE  At(src, o) = Outside <=> o >= Len(src)
  <1>1. CASE o < Len(src)
    <2>1. o + 1 \in 1 .. Len(src)
      BY <1>1 DEF Texts
    <2> QED
      BY <1>1, <2>1 DEF At, Texts
  <1>2. CASE o >= Len(src)
    BY <1>2 DEF At, Texts
  <1> QED
    BY <1>1, <1>2 DEF Texts

(* PastRun is the end of the run: the characters before it are of the      *)
(* set, and its own is not.                                                *)
LEMMA PastRunStops ==
    ASSUME NEW src \in Texts, NEW set, Outside \notin set, NEW offset \in Nat
    PROVE  /\ PastRun(src, offset, set) \in Nat
           /\ PastRun(src, offset, set) >= offset
           /\ At(src, PastRun(src, offset, set)) \notin set
           /\ \A o \in offset .. PastRun(src, offset, set) - 1 : At(src, o) \in set
  <1> DEFINE I == {o \in Nat : o >= offset /\ At(src, o) \notin set}
  <1>1. offset + Len(src) \in I
    <2>1. Len(src) \in Nat
      BY DEF Texts
    <2>2. At(src, offset + Len(src)) = Outside
      BY <2>1, OutsideText
    <2> QED
      BY <2>1, <2>2
  <1>2. Min(I) \in I /\ \A i \in I : Min(I) <= i
    BY <1>1, LeastExists
  <1> DEFINE least == Min(I)
  <1>3. /\ least \in Nat /\ least >= offset /\ At(src, least) \notin set
        /\ least <= offset + Len(src)
    BY <1>1, <1>2
  <1>4. ASSUME NEW o \in offset .. least - 1 PROVE At(src, o) \in set
    <2>1. o \in Nat /\ o >= offset /\ ~(least <= o)
      BY <1>3
    <2>2. o \notin I
      BY <1>2, <2>1
    <2> QED
      BY <2>1, <2>2
  <1>5. Len(src) \in Nat
    BY DEF Texts
  <1> HIDE DEF I
  <1>6. least \in offset .. offset + Len(src)
    BY <1>3, <1>5
  <1>7. /\ PastRun(src, offset, set) \in offset .. offset + Len(src)
        /\ At(src, PastRun(src, offset, set)) \notin set
        /\ \A o \in offset .. PastRun(src, offset, set) - 1 : At(src, o) \in set
    BY <1>3, <1>4, <1>6 DEF PastRun
  <1> QED
    BY <1>5, <1>7

(* Where a run ends is determined.                                         *)
LEMMA PastRunIs ==
    ASSUME NEW src \in Texts, NEW set, Outside \notin set, NEW offset \in Nat,
           NEW end \in Nat, end >= offset, At(src, end) \notin set,
           \A o \in offset .. end - 1 : At(src, o) \in set
    PROVE  PastRun(src, offset, set) = end
  <1> DEFINE past == PastRun(src, offset, set)
  <1>1. /\ past \in Nat /\ past >= offset /\ At(src, past) \notin set
        /\ \A o \in offset .. past - 1 : At(src, o) \in set
    BY PastRunStops
  <1> HIDE DEF past
  <1>2. ~(past < end)
    BY <1>1
  <1>3. ~(end < past)
    BY <1>1
  <1> QED
    BY <1>1, <1>2, <1>3 DEF past

(* A run does not leave the text.                                          *)
LEMMA RunStaysInside ==
    ASSUME NEW src \in Texts, NEW set, Outside \notin set, NEW offset \in Nat
    PROVE  /\ offset <= Len(src) => PastRun(src, offset, set) <= Len(src)
           /\ offset >= Len(src) => PastRun(src, offset, set) = offset
  <1> DEFINE past == PastRun(src, offset, set)
  <1>1. /\ past \in Nat /\ past >= offset
        /\ \A o \in offset .. past - 1 : At(src, o) \in set
    BY PastRunStops
  <1>2. Len(src) \in Nat
    BY DEF Texts
  <1>3. ASSUME NEW o \in Nat, o >= Len(src) PROVE At(src, o) \notin set
    BY <1>3, OutsideText
  <1> HIDE DEF past
  <1>4. offset <= Len(src) => past <= Len(src)
    BY <1>1, <1>2, <1>3
  <1>5. offset >= Len(src) => past = offset
    BY <1>1, <1>2, <1>3
  <1> QED
    BY <1>4, <1>5 DEF past

(* Skipping whitespace stops at the first other character.                 *)
LEMMA Blanks ==
    ASSUME NEW src \in Texts, NEW offset \in Nat
    PROVE  /\ json_skip_whitespace(src, offset) \in Nat
           /\ json_skip_whitespace(src, offset) >= offset
           /\ At(src, json_skip_whitespace(src, offset)) \notin Space
           /\ offset <= Len(src) => json_skip_whitespace(src, offset) <= Len(src)
           /\ offset >= Len(src) => json_skip_whitespace(src, offset) = offset
  BY PastRunStops, RunStaysInside DEF json_skip_whitespace, Space, Outside
-----------------------------------------------------------------------------
(* The states of the first pass; those that have come as far as an offset. *)

State == [ok : BOOLEAN, at : Nat, dom : Nat, data : Nat]
From(offset) == {st \in State : st.ok => st.at >= offset}

(* Where a part of the first pass starts, and where one is refused.        *)
LEMMA StartState ==
    ASSUME NEW offset \in Nat
    PROVE  /\ Started(offset) \in State /\ Started(offset).ok
           /\ Started(offset).at = offset
           /\ Started(offset).dom = 0 /\ Started(offset).data = 0
           /\ Refused \in State /\ ~Refused.ok
  BY DEF Started, Refused, State

(* Counting for the DOM and the characters does not move the first pass.   *)
LEMMA MoreState ==
    ASSUME NEW st \in State, NEW dom \in Nat, NEW data \in Nat
    PROVE  /\ More(st, dom, data) \in State
           /\ More(st, dom, data).ok <=> st.ok
           /\ st.ok => /\ More(st, dom, data).at = st.at
                       /\ More(st, dom, data).dom = st.dom + dom
                       /\ More(st, dom, data).data = st.data + data
  <1>1. CASE st.ok
    <2> DEFINE mid == [st EXCEPT !.dom = @ + dom]
               next == [mid EXCEPT !.data = @ + data]
    <2>3. /\ mid \in State /\ mid.ok = st.ok /\ mid.at = st.at
          /\ mid.dom = st.dom + dom /\ mid.data = st.data
      BY DEF State
    <2> HIDE DEF mid
    <2>1. /\ next \in State /\ next.ok = st.ok /\ next.at = st.at
          /\ next.dom = st.dom + dom /\ next.data = st.data + data
      BY <2>3 DEF State
    <2>2. More(st, dom, data) = next
      BY <1>1 DEF More, mid
    <2> QED
      BY <1>1, <2>1, <2>2
  <1>2. CASE ~st.ok
    BY <1>2, StartState DEF More
  <1> QED
    BY <1>1, <1>2

(* It stays where it is.                                                   *)
LEMMA MoreStays ==
    ASSUME NEW st \in State, NEW dom \in Nat, NEW data \in Nat
    PROVE  /\ More(st, dom, data) \in State
           /\ More(st, dom, data).ok <=> st.ok
           /\ st.ok => More(st, dom, data).at = st.at
  BY MoreState

(* Moving it counts nothing.                                               *)
LEMMA MovedState ==
    ASSUME NEW st \in State, NEW offset \in Nat
    PROVE  LET next == [st EXCEPT !.at = offset]
           IN  /\ next \in State /\ next.ok = st.ok /\ next.at = offset
               /\ next.dom = st.dom /\ next.data = st.data
  BY DEF State

(* A part behind another: both accepted, and their sizes added.            *)
LEMMA ThenState ==
    ASSUME NEW st \in State, NEW part \in State
    PROVE  /\ Then(st, part) \in State
           /\ Then(st, part).ok <=> st.ok /\ part.ok
           /\ Then(st, part).ok => /\ Then(st, part).at = part.at
                                   /\ Then(st, part).dom = st.dom + part.dom
                                   /\ Then(st, part).data = st.data + part.data
  <1>1. st.dom \in Nat /\ st.data \in Nat /\ part.dom \in Nat /\ part.data \in Nat
    BY DEF State
  <1>2. CASE st.ok
    <2>1. Then(st, part) = More(part, st.dom, st.data)
      BY <1>2 DEF Then
    <2>2. /\ More(part, st.dom, st.data) \in State
          /\ More(part, st.dom, st.data).ok <=> part.ok
          /\ part.ok => /\ More(part, st.dom, st.data).at = part.at
                        /\ More(part, st.dom, st.data).dom = part.dom + st.dom
                        /\ More(part, st.dom, st.data).data = part.data + st.data
      BY <1>1, MoreState, ZenonT(60)
    <2>3. part.dom + st.dom = st.dom + part.dom /\ part.data + st.data = st.data + part.data
      BY <1>1
    <2> QED
      BY <1>2, <2>1, <2>2, <2>3
  <1>3. CASE ~st.ok
    BY <1>3, StartState DEF Then
  <1> QED
    BY <1>2, <1>3

(* Whitespace skipped where the end of the text is refused.                *)
LEMMA SkipState ==
    ASSUME NEW src \in Texts, NEW st \in State
    PROVE  LET next == json_skip_all_skippables(src, st)
           IN  /\ next \in State
               /\ next.ok <=> st.ok /\ json_skip_whitespace(src, st.at) # Len(src)
               /\ next.ok => /\ next.at = json_skip_whitespace(src, st.at)
                             /\ next.at >= st.at
                             /\ next.dom = st.dom /\ next.data = st.data
  <1>1. st.at \in Nat
    BY DEF State
  <1>2. /\ json_skip_whitespace(src, st.at) \in Nat
        /\ json_skip_whitespace(src, st.at) >= st.at
    BY <1>1, Blanks
  <1> QED
    BY <1>2 DEF json_skip_all_skippables, Refused, State

(* Exactly the character that is expected is accepted, and passed.         *)
LEMMA ExpectState ==
    ASSUME NEW src, NEW st \in State, NEW char
    PROVE  LET next == Expect(src, st, char)
           IN  /\ next \in State
               /\ next.ok <=> st.ok /\ At(src, st.at) = char
               /\ next.ok => next.at = st.at + 1 /\ next.dom = st.dom /\ next.data = st.data
  BY DEF Expect, Refused, State

(* A number: the second pass, which takes every character a number may     *)
(* have, stops where the first does.                                       *)
NumberChars == Digit \cup {".", "e", "E", "+", "-"}

(* What the first pass makes of a number.                                  *)
LEMMA NumberState ==
    ASSUME NEW src \in Texts, NEW st \in State, st.ok,
           At(src, st.at) \in Digit \cup {"-"}
    PROVE  LET next == json_get_number_size(src, st)
           IN  /\ next \in From(st.at + 1)
               /\ next.ok => /\ next.dom = st.dom + Struct
                             /\ next.data = st.data + (next.at - st.at + 1)
               /\ next.ok /\ next.at <= Len(src) =>
                     PastRun(src, st.at, NumberChars) = next.at
  <1> DEFINE start == st.at
             sign == IF At(src, start) = "-" THEN start + 1 ELSE start
             zero == IF At(src, sign) = "0" THEN sign + 1 ELSE sign
             int  == PastRun(src, zero, Digit)
             frac == IF At(src, int) = "." THEN PastRun(src, int + 1, Digit) ELSE int
             mark == IF At(src, frac + 1) \in {"-", "+"} THEN frac + 2 ELSE frac + 1
             end  == IF At(src, frac) \in {"e", "E"} THEN PastRun(src, mark + 1, Digit)
                     ELSE frac
             valid ==
                 /\ At(src, start) = "-" => At(src, sign) \in Digit \cup {Outside}
                 /\ At(src, sign) = "0" => At(src, zero) \notin Digit
                 /\ At(src, int) = "." => At(src, int + 1) \in Digit
                 /\ At(src, frac) \in {"e", "E"} => At(src, mark) \in Digit \cup {Outside}
                 /\ At(src, end) \in Space \cup {"}", ",", "]", Outside}
             next == json_get_number_size(src, st)
  <1>1. next = IF valid THEN More([st EXCEPT !.at = end], Struct, end - start + 1)
               ELSE Refused
    BY DEF json_get_number_size
  <1> HIDE DEF next, valid
  <1>2. Outside \notin Digit /\ Outside \notin NumberChars
    BY DEF Outside, Digit, NumberChars
  <1>3. start \in Nat /\ Len(src) \in Nat
    BY DEF State, Texts
  <1>4. sign \in Nat /\ sign >= start
        /\ (At(src, start) = "-" => sign = start + 1)
        /\ (At(src, start) # "-" => sign = start)
    BY <1>3
  <1>5. /\ \A o \in start .. sign - 1 : At(src, o) = "-"
    BY <1>3, <1>4
  <1> HIDE DEF sign
  <1>6. zero \in Nat /\ zero >= sign
        /\ (At(src, sign) = "0" => zero = sign + 1)
        /\ \A o \in sign .. zero - 1 : At(src, o) = "0"
    BY <1>4
  <1> HIDE DEF zero
  <1>7. int \in Nat /\ int >= zero /\ At(src, int) \notin Digit
        /\ \A o \in zero .. int - 1 : At(src, o) \in Digit
    BY <1>2, <1>6, PastRunStops
  <1> HIDE DEF int
  <1>8. int > start
    <2>1. CASE At(src, start) = "-"
      BY <2>1, <1>3, <1>4, <1>6, <1>7
    <2>2. CASE At(src, start) \in Digit
      <3>1. int # start
        BY <2>2, <1>7
      <3> QED
        BY <3>1, <1>3, <1>4, <1>6, <1>7
    <2> QED
      BY <2>1, <2>2
  <1>9. frac \in Nat /\ frac >= int
        /\ \A o \in int .. frac - 1 : At(src, o) \in Digit \cup {"."}
    <2>1. CASE At(src, int) = "."
      <3>1. /\ frac \in Nat /\ frac >= int + 1
            /\ \A o \in int + 1 .. frac - 1 : At(src, o) \in Digit
        BY <2>1, <1>2, <1>7, PastRunStops
      <3> HIDE DEF frac
      <3> QED
        BY <2>1, <3>1, <1>7
    <2>2. CASE At(src, int) # "."
      BY <2>2, <1>7
    <2> QED
      BY <2>1, <2>2
  <1> HIDE DEF frac
  <1>10. mark \in Nat /\ mark >= frac + 1
         /\ \A o \in frac + 1 .. mark - 1 : At(src, o) \in {"-", "+"}
    BY <1>9
  <1> HIDE DEF mark
  <1>11. end \in Nat /\ end >= frac
         /\ (At(src, frac) \in {"e", "E"} =>
                end >= mark + 1 /\ \A o \in mark + 1 .. end - 1 : At(src, o) \in Digit)
         /\ (At(src, frac) \notin {"e", "E"} => end = frac)
    BY <1>2, <1>9, <1>10, PastRunStops
  <1> HIDE DEF end
  <1>12. ASSUME valid, end <= Len(src)
         PROVE  \A o \in start .. end - 1 : At(src, o) \in NumberChars
    <2>1. \A o \in frac .. end - 1 : At(src, o) \in NumberChars
      <3>1. CASE At(src, frac) \in {"e", "E"}
        <4>1. At(src, mark) \in Digit \cup {Outside} /\ end >= mark + 1
          BY <1>12, <3>1, <1>11 DEF valid
        <4>2. mark < Len(src)
          BY <4>1, <1>12, <1>3, <1>9, <1>10, <1>11
        <4>3. At(src, mark) \in Digit
          BY <4>1, <4>2, <1>10, OutsideText
        <4>4. ASSUME NEW o \in frac .. end - 1
              PROVE  At(src, o) \in {"e", "E", "-", "+"} \cup Digit
          <5>1. \/ o = frac \/ o \in frac + 1 .. mark - 1 \/ o = mark
                \/ o \in mark + 1 .. end - 1
            BY <1>9, <1>10, <1>11
          <5> QED
            BY <5>1, <3>1, <4>3, <1>10, <1>11
        <4> QED
          BY <4>4 DEF NumberChars
      <3>2. CASE At(src, frac) \notin {"e", "E"}
        BY <3>2, <1>9, <1>11
      <3> QED
        BY <3>1, <3>2
    <2>2. ASSUME NEW o \in start .. end - 1
          PROVE  At(src, o) \in NumberChars
      <3>1. \/ o \in start .. sign - 1 \/ o \in sign .. zero - 1 \/ o \in zero .. int - 1
            \/ o \in int .. frac - 1 \/ o \in frac .. end - 1
        BY <1>3, <1>4, <1>6, <1>7, <1>9, <1>11
      <3>2. CASE o \in start .. sign - 1
        BY <3>2, <1>5 DEF NumberChars
      <3>3. CASE o \in sign .. zero - 1
        BY <3>3, <1>6 DEF NumberChars, Digit
      <3>4. CASE o \in zero .. int - 1
        BY <3>4, <1>7 DEF NumberChars
      <3>5. CASE o \in int .. frac - 1
        BY <3>5, <1>9 DEF NumberChars
      <3>6. CASE o \in frac .. end - 1
        BY <3>6, <2>1
      <3> QED
        BY <3>1, <3>2, <3>3, <3>4, <3>5, <3>6
    <2> QED
      BY <2>2
  <1>13. end >= start + 1
    BY <1>3, <1>7, <1>8, <1>9, <1>11
  <1>14. CASE valid
    <2> DEFINE moved == [st EXCEPT !.at = end]
    <2>1. /\ moved \in State /\ moved.ok /\ moved.at = end
          /\ moved.dom = st.dom /\ moved.data = st.data
      BY <1>11, MovedState
    <2>2. end - start + 1 \in Nat /\ Struct \in Nat
      BY <1>3, <1>11, <1>13 DEF Struct
    <2>3. next = More(moved, Struct, end - start + 1)
      BY <1>1, <1>14
    <2> DEFINE bytes == end - start + 1
    <2> HIDE DEF moved, bytes
    <2>4. /\ next \in State /\ next.ok /\ next.at = end
          /\ next.dom = st.dom + Struct /\ next.data = st.data + (end - start + 1)
      <3>1. bytes \in Nat /\ next = More(moved, Struct, bytes)
        BY <2>2, <2>3 DEF bytes
      <3>2. /\ next \in State /\ next.ok /\ next.at = moved.at
            /\ next.dom = moved.dom + Struct /\ next.data = moved.data + bytes
        <4> DEFINE more == More(moved, Struct, bytes)
        <4>1. /\ more \in State /\ (more.ok <=> moved.ok)
              /\ moved.ok => /\ more.at = moved.at /\ more.dom = moved.dom + Struct
                             /\ more.data = moved.data + bytes
          <5>1. moved \in State
            BY <2>1
          <5>2. Struct \in Nat
            BY <2>2
          <5>3. bytes \in Nat
            BY <3>1
          <5> QED
            BY <5>1, <5>2, <5>3, MoreState
        <4> HIDE DEF more
        <4>2. next = more
          BY <3>1 DEF more
        <4> QED
          BY <2>1, <4>1, <4>2
      <3> QED
        BY <2>1, <3>2 DEF bytes
    <2>5. At(src, end) \notin NumberChars
      <3>1. At(src, end) \in Space \cup {"}", ",", "]", Outside}
        BY <1>14 DEF valid
      <3> QED
        BY <3>1 DEF Space, Outside, NumberChars, Digit
    <2>6. ASSUME end <= Len(src) PROVE PastRun(src, start, NumberChars) = end
      <3>1. \A o \in start .. end - 1 : At(src, o) \in NumberChars
        BY <1>12, <1>14, <2>6
      <3> QED
        BY <2>5, <3>1, <1>2, <1>3, <1>11, <1>13, PastRunIs
    <2>7. next \in From(start + 1)
      BY <2>4, <1>13 DEF From
    <2> QED
      BY <2>4, <2>6, <2>7 DEF next
  <1>15. CASE ~valid
    <2>1. next = Refused
      BY <1>1, <1>15
    <2>2. next \in State /\ ~next.ok
      BY <2>1, <1>3, StartState
    <2> QED
      BY <2>2 DEF From, next
  <1> QED
    BY <1>14, <1>15
-----------------------------------------------------------------------------
(* The first pass goes forward: whatever lets a part of the text through   *)
(* has taken at least one character.                                       *)

(* The steps of the first pass go forward.                                 *)
LEMMA FromStep ==
    ASSUME NEW src \in Texts, NEW o \in Nat, NEW st \in From(o)
    PROVE  /\ st \in State
           /\ json_skip_all_skippables(src, st) \in From(o)
           /\ \A char : Expect(src, st, char) \in From(o + 1)
           /\ \A dom, data \in Nat : More(st, dom, data) \in From(o)
           /\ \A part \in From(st.at + 1) : Then(st, part) \in From(o + 1)
           /\ \A p \in Nat : p <= o => st \in From(p)
  <1>1. st \in State /\ st.at \in Nat /\ (st.ok => st.at >= o)
    BY DEF From, State
  <1>2. json_skip_all_skippables(src, st) \in From(o)
    <2> DEFINE next == json_skip_all_skippables(src, st)
    <2>1. next \in State /\ (next.ok => st.ok /\ next.at >= st.at)
      BY <1>1, SkipState
    <2> HIDE DEF next
    <2>2. next.at \in Nat
      BY <2>1 DEF State
    <2>3. next \in From(o)
      BY <1>1, <2>1, <2>2 DEF From
    <2> QED
      BY <2>3 DEF next
  <1>3. ASSUME NEW char PROVE Expect(src, st, char) \in From(o + 1)
    <2> DEFINE next == Expect(src, st, char)
    <2>1. next \in State /\ (next.ok => st.ok /\ next.at = st.at + 1)
      BY <1>1, ExpectState
    <2> HIDE DEF next
    <2>2. next \in From(o + 1)
      BY <1>1, <2>1 DEF From
    <2> QED
      BY <2>2 DEF next
  <1>4. ASSUME NEW dom \in Nat, NEW data \in Nat PROVE More(st, dom, data) \in From(o)
    <2> DEFINE next == More(st, dom, data)
    <2>1. next \in State /\ (next.ok <=> st.ok) /\ (st.ok => next.at = st.at)
      BY <1>1, MoreState
    <2> HIDE DEF next
    <2>2. next \in From(o)
      BY <1>1, <2>1 DEF From
    <2> QED
      BY <2>2 DEF next
  <1>5. ASSUME NEW part \in From(st.at + 1) PROVE Then(st, part) \in From(o + 1)
    <2> DEFINE next == Then(st, part)
    <2>1. part \in State /\ part.at \in Nat /\ (part.ok => part.at >= st.at + 1)
      BY DEF From, State
    <2>2. next \in State /\ (next.ok <=> st.ok /\ part.ok) /\ (next.ok => next.at = part.at)
      BY <1>1, <2>1, ThenState
    <2> HIDE DEF next
    <2>3. next \in From(o + 1)
      BY <1>1, <2>1, <2>2 DEF From
    <2> QED
      BY <2>3 DEF next
  <1>6. ASSUME NEW p \in Nat, p <= o PROVE st \in From(p)
    BY <1>1, <1>6 DEF From
  <1> QED
    BY <1>1, <1>2, <1>3, <1>4, <1>5, <1>6

(* Any part may start where it starts, and any may be refused.             *)
LEMMA FromStart ==
    ASSUME NEW o \in Nat
    PROVE  /\ Started(o) \in From(o)
           /\ Refused \in From(o)
           /\ \A st \in State : (st.ok <=> FALSE) => st \in From(o)
  BY StartState DEF From

(* What the functions of the first pass return goes forward.               *)
Advancing(calls) ==
    /\ \A o, high \in Nat : calls.string[o][high] \in From(o + 1)
    /\ \A o \in Nat : calls.value[o] \in From(o + 1)
    /\ \A o \in Nat, comma \in BOOLEAN :
          /\ calls.members[o][comma] \in From(o + 1)
          /\ calls.elements[o][comma] \in From(o + 1)

(* The value of a hexadecimal digit.                                       *)
LEMMA DigitValue ==
    ASSUME NEW c \in ToSet(HexDigits)
    PROVE  json_hexadecimal_digit[c] \in 0 .. 15
  <1>1. DOMAIN HexDigits = 1 .. 22
    BY DEF HexDigits
  <1>2. \E i \in DOMAIN HexDigits : HexDigits[i] = c
    BY DEF ToSet
  <1> DEFINE place == CHOOSE i \in DOMAIN HexDigits : HexDigits[i] = c
  <1>3. place \in 1 .. 22
    BY <1>1, <1>2
  <1>4. json_hexadecimal_digit[c] = IF place > 16 THEN place - 7 ELSE place - 1
    BY DEF json_hexadecimal_digit
  <1> HIDE DEF place
  <1> QED
    BY <1>3, <1>4

(* The value of four digits, -1 if there are no four.                      *)
LEMMA HexValue ==
    ASSUME NEW src, NEW offset \in Nat
    PROVE  /\ json_hexadecimal_value(src, offset) \in Int
           /\ json_hexadecimal_value(src, offset) <= 65535
  <1> DEFINE digit(i) == json_hexadecimal_digit[At(src, offset + i)]
             hex == \A i \in 0 .. 3 : At(src, offset + i) \in ToSet(HexDigits)
             value == 4096 * digit(0) + 256 * digit(1) + 16 * digit(2) + digit(3)
             result == json_hexadecimal_value(src, offset)
  <1>1. result = IF hex THEN value ELSE -1
    BY DEF json_hexadecimal_value
  <1>2. hex => \A i \in 0 .. 3 : digit(i) \in 0 .. 15
    BY DigitValue
  <1> HIDE DEF result, hex, digit
  <1>3. ASSUME hex PROVE value \in Int /\ value <= 65535
    <2>1. digit(0) \in 0 .. 15 /\ digit(1) \in 0 .. 15 /\ digit(2) \in 0 .. 15
          /\ digit(3) \in 0 .. 15
      BY <1>2, <1>3
    <2>2. \A a, b, c, d \in Int :
             a <= 15 /\ b <= 15 /\ c <= 15 /\ d <= 15 =>
                4096 * a + 256 * b + 16 * c + d <= 65535
      OBVIOUS
    <2>3. /\ digit(0) \in Int /\ digit(1) \in Int /\ digit(2) \in Int /\ digit(3) \in Int
          /\ digit(0) <= 15 /\ digit(1) <= 15 /\ digit(2) <= 15 /\ digit(3) <= 15
      BY <2>1
    <2>4. value <= 65535
      BY <2>2, <2>3
    <2>5. value \in Int
      BY <2>3
    <2> QED
      BY <2>4, <2>5
  <1> HIDE DEF value
  <1>4. result \in Int /\ result <= 65535
    BY <1>1, <1>3
  <1> QED
    BY <1>4 DEF result

(* What is kept of a high surrogate.                                       *)
LEMMA WaitingHalf ==
    ASSUME NEW codepoint \in Int
    PROVE  Waiting(codepoint) \in Nat
  BY DEF Waiting, HighSurrogate

(* A codepoint takes one byte and at most three more.                      *)
LEMMA MoreBytesBound ==
    ASSUME NEW codepoint \in Int, NEW high \in Nat
    PROVE  MoreBytes(codepoint, high) \in 0 .. 3
  <1> DEFINE a == high = 0 /\ codepoint <= 127
             b == high = 0 /\ 127 < codepoint /\ codepoint <= 2047
             c == high = 0 /\ HighSurrogate(codepoint)
             more == MoreBytes(codepoint, high)
  <1>1. more = CASE high # 0 -> 3 [] a -> 0 [] b -> 1 [] c -> 0 [] OTHER -> 2
    BY DEF MoreBytes
  <1> HIDE DEF a, b, c, more
  <1>2. more \in {0, 1, 2, 3}
    BY <1>1
  <1> QED
    BY <1>2 DEF more

(* The characters that end a string in the first pass.                     *)
Breaks == {Outside, Nul, "\t", "\r", "\n"}

(* StringSize, one case a line.                                            *)
StringSizeCases(src, string, offset, high) ==
    LET c == At(src, offset)
        escape == At(src, offset + 1)
        codepoint == json_hexadecimal_value(src, offset + 2)
        next == StringSize(src, string, offset, high)
    IN  /\ c = "\"" => next = More(Started(offset + 1), 0, 1)
        /\ c \in Breaks => next = Refused
        /\ c = "\\" /\ escape \in Escapes => next = More(string[offset + 2][high], 0, 1)
        /\ c = "\\" /\ escape = "u" =>
              next = UnicodeSize(src, string, offset + 1, high, codepoint)
        /\ c = "\\" /\ escape \notin Escapes /\ escape # "u" => next = Refused
        /\ c \notin Breaks /\ c # "\"" /\ c # "\\" =>
              next = More(string[offset + 1][high], 0, 1)

(* The first pass on the rest of a string, case by case.                   *)
LEMMA StringSizeIs ==
    ASSUME NEW src, NEW string, NEW offset, NEW high
    PROVE  StringSizeCases(src, string, offset, high)
  <1> DEFINE c == At(src, offset)
             escape == At(src, offset + 1)
             codepoint == json_hexadecimal_value(src, offset + 2)
             unicode == UnicodeSize(src, string, offset + 1, high, codepoint)
             end == More(Started(offset + 1), 0, 1)
             two == More(string[offset + 2][high], 0, 1)
             one == More(string[offset + 1][high], 0, 1)
             next == StringSize(src, string, offset, high)
  <1>1. next = CASE c = "\"" -> end
                 [] c \in Breaks -> Refused
                 [] c = "\\" /\ escape \in Escapes -> two
                 [] c = "\\" /\ escape = "u" -> unicode
                 [] c = "\\" /\ escape \notin Escapes \cup {"u"} -> Refused
                 [] OTHER -> one
    BY DEF StringSize, Breaks
  <1>2. "\"" \notin Breaks /\ "\\" \notin Breaks /\ "\"" # "\\" /\ "u" \notin Escapes
    BY DEF Breaks, Outside, Nul, Escapes
  <1> HIDE DEF c, escape, unicode, end, two, one, next
  <1>3. c = "\"" => next = end
    BY <1>1, <1>2
  <1>4. c \in Breaks => next = Refused
    BY <1>1, <1>2
  <1>5. c = "\\" /\ escape \in Escapes => next = two
    BY <1>1, <1>2
  <1>6. c = "\\" /\ escape = "u" => next = unicode
    BY <1>1, <1>2
  <1>7. c = "\\" /\ escape \notin Escapes /\ escape # "u" => next = Refused
    BY <1>1, <1>2
  <1>8. c \notin Breaks /\ c # "\"" /\ c # "\\" => next = one
    BY <1>1, <1>2
  <1> QED
    BY <1>3, <1>4, <1>5, <1>6, <1>7, <1>8
    DEF StringSizeCases, c, escape, unicode, end, two, one, next

(* It goes forward over the rest of a string.                              *)
LEMMA StringAdvances ==
    ASSUME NEW src \in Texts, NEW string, NEW offset \in Nat, NEW high \in Nat,
           \A o, h \in Nat : string[o][h] \in From(o + 1)
    PROVE  StringSize(src, string, offset, high) \in From(offset + 1)
  <1> DEFINE codepoint == json_hexadecimal_value(src, offset + 2)
             next == StringSize(src, string, offset, high)
             Goes(p, h, data) == More(string[p][h], 0, data)
  <1>1. \A p \in Nat, h \in Nat, data \in Nat :
           p >= offset => Goes(p, h, data) \in From(offset + 1)
    <2>1. ASSUME NEW p \in Nat, NEW h \in Nat, NEW data \in Nat, p >= offset
          PROVE  Goes(p, h, data) \in From(offset + 1)
      <3>1. string[p][h] \in From(p + 1) /\ p + 1 \in Nat /\ offset + 1 \in Nat
            /\ offset + 1 <= p + 1
        BY <2>1
      <3>2. string[p][h] \in From(offset + 1)
        BY <3>1, FromStep
      <3> QED
        BY <3>1, <3>2, FromStep
    <2> QED
      BY <2>1
  <1>2. Refused \in From(offset + 1)
    BY FromStart
  <1>3. codepoint \in Int
    BY HexValue
  <1>4. Waiting(codepoint) \in Nat /\ 1 + MoreBytes(codepoint, high) \in Nat
    <2>1. Waiting(codepoint) \in Nat
      BY <1>3, WaitingHalf
    <2>2. MoreBytes(codepoint, high) \in 0 .. 3
      BY <1>3, MoreBytesBound
    <2> QED
      BY <2>1, <2>2
  <1>5. UnicodeSize(src, string, offset + 1, high, codepoint) \in From(offset + 1)
    <2>1. offset + 1 + 5 \in Nat /\ offset + 1 + 5 >= offset
      OBVIOUS
    <2>2. Goes(offset + 1 + 5, Waiting(codepoint), 1 + MoreBytes(codepoint, high))
             \in From(offset + 1)
      BY <2>1, <1>1, <1>4
    <2> QED
      BY <2>2, <1>2 DEF UnicodeSize
  <1>6. More(Started(offset + 1), 0, 1) \in From(offset + 1)
    <2>1. offset + 1 \in Nat /\ 0 \in Nat /\ 1 \in Nat
      OBVIOUS
    <2>2. Started(offset + 1) \in From(offset + 1)
      BY <2>1, FromStart
    <2> QED
      BY <2>1, <2>2, FromStep
  <1>7. Goes(offset + 2, high, 1) \in From(offset + 1)
        /\ Goes(offset + 1, high, 1) \in From(offset + 1)
    BY <1>1
  <1> DEFINE unicode == UnicodeSize(src, string, offset + 1, high, codepoint)
  <1>8. \/ next = More(Started(offset + 1), 0, 1) \/ next = Refused
        \/ next = Goes(offset + 2, high, 1) \/ next = unicode
        \/ next = Goes(offset + 1, high, 1)
    <2> DEFINE c == At(src, offset)
               escape == At(src, offset + 1)
    <2>7. StringSizeCases(src, string, offset, high)
      BY StringSizeIs
    <2>1. CASE c = "\""
      BY <2>1, <2>7 DEF StringSizeCases
    <2>2. CASE c \in Breaks
      BY <2>2, <2>7 DEF StringSizeCases
    <2>3. CASE c = "\\" /\ escape \in Escapes
      BY <2>3, <2>7 DEF StringSizeCases
    <2>4. CASE c = "\\" /\ escape = "u"
      BY <2>4, <2>7 DEF StringSizeCases
    <2>5. CASE c = "\\" /\ escape \notin Escapes /\ escape # "u"
      BY <2>5, <2>7 DEF StringSizeCases
    <2>6. CASE c \notin Breaks /\ c # "\"" /\ c # "\\"
      BY <2>6, <2>7 DEF StringSizeCases
    <2> QED
      BY <2>1, <2>2, <2>3, <2>4, <2>5, <2>6
  <1> QED
    BY <1>2, <1>5, <1>6, <1>7, <1>8

(* It goes forward over a string with its quotes.                          *)
LEMMA GetStringAdvances ==
    ASSUME NEW src \in Texts, NEW calls, Advancing(calls), NEW o \in Nat, NEW st \in From(o)
    PROVE  json_get_string_size(src, calls, st) \in From(o + 1)
  <1>1. st.at \in Nat /\ Struct \in Nat /\ 0 \in Nat
    BY FromStep DEF State, Struct
  <1> DEFINE counted == More(st, Struct, 0)
             rest == calls.string[st.at + 1][0]
  <1>2. CASE st.ok /\ At(src, st.at) = "\""
    <2>1. counted \in From(o)
      BY <1>1, FromStep
    <2>2. counted.at = st.at
      BY <1>1, <1>2, FromStep, MoreStays, Zenon
    <2>3. rest \in From(st.at + 1 + 1)
      BY <1>1 DEF Advancing
    <2>4. rest \in From(counted.at + 1)
      <3>1. st.at + 1 \in Nat /\ st.at + 1 + 1 \in Nat /\ st.at + 1 <= st.at + 1 + 1
        BY <1>1
      <3>2. rest \in From(st.at + 1)
        BY <2>3, <3>1, FromStep
      <3> QED
        BY <2>2, <3>2
    <2>5. Then(counted, rest) \in From(o + 1)
      BY <2>1, <2>4, FromStep
    <2> QED
      BY <1>2, <2>5 DEF json_get_string_size
  <1>3. CASE ~(st.ok /\ At(src, st.at) = "\"")
    <2>1. json_get_string_size(src, calls, st) = Refused
      BY <1>3 DEF json_get_string_size
    <2>2. o + 1 \in Nat
      OBVIOUS
    <2> QED
      BY <2>1, <2>2, FromStart
  <1> QED
    BY <1>2, <1>3

(* It goes forward over a member of an object.                             *)
LEMMA MemberAdvances ==
    ASSUME NEW src \in Texts, NEW calls, Advancing(calls), NEW o \in Nat, NEW st \in From(o)
    PROVE  MemberSize(src, calls, st) \in From(o + 1)
  <1> DEFINE key == json_get_string_size(src, calls, st)
             colon == Expect(src, json_skip_all_skippables(src, key), ":")
             value == json_skip_all_skippables(src, colon)
             counted == More(value, ElementOfObject, 0)
  <1>1. ElementOfObject \in Nat /\ 0 \in Nat /\ o + 1 \in Nat /\ o + 1 + 1 \in Nat
    BY DEF ElementOfObject
  <1>2. key \in From(o + 1)
    BY GetStringAdvances
  <1> HIDE DEF key
  <1>3. json_skip_all_skippables(src, key) \in From(o + 1)
    BY <1>1, <1>2, FromStep
  <1>4. colon \in From(o + 1 + 1)
    BY <1>1, <1>3, FromStep
  <1> HIDE DEF colon
  <1>5. value \in From(o + 1 + 1)
    BY <1>1, <1>4, FromStep
  <1> HIDE DEF value
  <1>6. value \in From(o) /\ value \in State /\ value.at \in Nat
    BY <1>1, <1>5, FromStep DEF State
  <1>7. counted \in From(o)
    BY <1>1, <1>6, FromStep
  <1>8. calls.value[value.at] \in From(value.at + 1)
    BY <1>6 DEF Advancing
  <1>9. MemberSize(src, calls, st) = Then(counted, calls.value[value.at])
    BY DEF MemberSize, key, colon, value
  <1>10. CASE value.ok
    <2>1. counted.at = value.at
      BY <1>1, <1>6, <1>10, MoreStays, Zenon
    <2> HIDE DEF counted
    <2> QED
      BY <1>7, <1>8, <1>9, <2>1, FromStep
  <1>11. CASE ~value.ok
    <2>1. ~counted.ok
      BY <1>1, <1>6, <1>11, MoreStays, Zenon
    <2>2. Then(counted, calls.value[value.at]) = Refused
      BY <2>1 DEF Then
    <2> QED
      BY <1>1, <1>9, <2>2, FromStart
  <1> QED
    BY <1>10, <1>11

(* A step over one character.                                              *)
LEMMA OverCharacter ==
    ASSUME NEW o \in Nat, NEW here \in From(o), here.ok
    PROVE  LET next == [here EXCEPT !.at = @ + 1]
           IN  /\ next \in From(o + 1) /\ next \in State /\ next.ok
               /\ next.at = here.at + 1 /\ next.dom = here.dom /\ next.data = here.data
  <1>1. here \in State /\ here.at \in Nat /\ here.at >= o
    BY DEF From, State
  <1> DEFINE next == [here EXCEPT !.at = @ + 1]
  <1>2. /\ next \in State /\ next.ok = here.ok
        /\ next.at = here.at + 1 /\ next.dom = here.dom /\ next.data = here.data
    <2>1. here.at + 1 \in Nat
      BY <1>1
    <2> QED
      BY <1>1, <2>1, MovedState
  <1> HIDE DEF next
  <1>3. next.at >= o + 1
    BY <1>1, <1>2
  <1>4. next \in From(o + 1)
    BY <1>2, <1>3 DEF From
  <1> QED
    BY <1>2, <1>4 DEF next

AfterMemberCases(src, calls, st) ==
    LET next == AfterMember(src, calls, st)
    IN  /\ ~st.ok \/ st.at = Len(src) => next = Refused
        /\ st.ok /\ st.at > Len(src) => next = st
        /\ st.ok /\ st.at < Len(src) => next = Then(st, calls.members[st.at][TRUE])

(* What the first pass does behind the blanks of an object.                *)
LEMMA AfterMemberIs ==
    ASSUME NEW src \in Texts, NEW calls, NEW st \in State
    PROVE  AfterMemberCases(src, calls, st)
  <1> DEFINE refused == ~st.ok \/ st.at = Len(src)
             beyond == st.ok /\ st.at > Len(src)
             inside == st.ok /\ st.at < Len(src)
             rest == Then(st, calls.members[st.at][TRUE])
             next == AfterMember(src, calls, st)
  <1>1. next = CASE refused -> Refused [] beyond -> st [] inside -> rest
    BY DEF AfterMember
  <1>2. st.at \in Nat /\ Len(src) \in Nat
    BY DEF State, Texts
  <1>3. ~(refused /\ beyond) /\ ~(refused /\ inside) /\ ~(beyond /\ inside)
    BY <1>2
  <1> HIDE DEF refused, beyond, inside, rest, next
  <1>4. refused => next = Refused
    BY <1>1, <1>3
  <1>5. beyond => next = st
    BY <1>1, <1>3
  <1>6. inside => next = rest
    BY <1>1, <1>3
  <1> QED
    BY <1>4, <1>5, <1>6 DEF AfterMemberCases, refused, beyond, inside, rest, next

(* It goes forward over the rest of an object.                             *)
LEMMA ObjectAdvances ==
    ASSUME NEW src \in Texts, NEW calls, Advancing(calls), NEW o \in Nat, NEW st \in From(o),
           NEW comma \in BOOLEAN
    PROVE  ObjectSize(src, calls, st, comma) \in From(o + 1)
  <1> DEFINE here == json_skip_all_skippables(src, st)
             first == PastComma(src, here, comma)
             member == MemberSize(src, calls, first)
             after == AfterMember(src, calls, member)
  <1>1. o + 1 \in Nat /\ o <= o + 1 /\ o + 1 + 1 \in Nat /\ o + 1 <= o + 1 + 1
    OBVIOUS
  <1>2. here \in From(o)
    BY FromStep
  <1> HIDE DEF here
  <1>3. first \in From(o)
    <2>1. Expect(src, here, ",") \in From(o + 1)
      BY <1>2, FromStep
    <2>2. json_skip_all_skippables(src, Expect(src, here, ",")) \in From(o + 1)
      BY <1>1, <2>1, FromStep
    <2>3. json_skip_all_skippables(src, Expect(src, here, ",")) \in From(o)
      BY <1>1, <2>2, FromStep
    <2> QED
      BY <1>2, <2>3 DEF PastComma
  <1> HIDE DEF first
  <1>4. member \in From(o + 1)
    BY <1>3, MemberAdvances
  <1> HIDE DEF member
  <1>5. after \in From(o + 1)
    <2>1. member.at \in Nat /\ Len(src) \in Nat
      <3>1. member \in State
        BY <1>1, <1>4, FromStep
      <3> QED
        BY <3>1 DEF State, Texts
    <2>5. AfterMemberCases(src, calls, member)
      <3>1. member \in State
        BY <1>1, <1>4, FromStep
      <3> QED
        BY <3>1, AfterMemberIs
    <2>2. CASE ~member.ok \/ member.at = Len(src)
      <3>1. after = Refused
        BY <2>2, <2>5 DEF AfterMemberCases
      <3> QED
        BY <1>1, <3>1, FromStart
    <2>3. CASE member.ok /\ member.at > Len(src)
      <3>1. after = member
        BY <2>3, <2>5 DEF AfterMemberCases
      <3> QED
        BY <1>4, <3>1
    <2>4. CASE member.ok /\ member.at < Len(src)
      <3>1. after = Then(member, calls.members[member.at][TRUE])
        BY <2>4, <2>5 DEF AfterMemberCases
      <3>2. calls.members[member.at][TRUE] \in From(member.at + 1)
        BY <2>1 DEF Advancing
      <3>3. after \in From(o + 1 + 1)
        BY <1>1, <1>4, <3>1, <3>2, FromStep
      <3> QED
        BY <1>1, <3>3, FromStep
    <2> QED
      BY <2>1, <2>2, <2>3, <2>4
  <1> HIDE DEF after
  <1>6. ObjectSize(src, calls, st, comma) =
           IF here.ok /\ At(src, here.at) = "}" THEN [here EXCEPT !.at = @ + 1] ELSE after
    BY DEF ObjectSize, MembersSize, here, first, member, after
  <1>7. CASE here.ok /\ At(src, here.at) = "}"
    <2>1. [here EXCEPT !.at = @ + 1] \in From(o + 1)
      BY <1>2, <1>7, OverCharacter
    <2> QED
      BY <1>6, <1>7, <2>1
  <1>8. CASE ~(here.ok /\ At(src, here.at) = "}")
    BY <1>5, <1>6, <1>8
  <1> QED
    BY <1>7, <1>8

(* It goes forward over the rest of an array.                              *)
LEMMA ArrayAdvances ==
    ASSUME NEW src \in Texts, NEW calls, Advancing(calls), NEW o \in Nat, NEW st \in From(o),
           NEW comma \in BOOLEAN
    PROVE  ArraySize(src, calls, st, comma) \in From(o + 1)
  <1> DEFINE here == json_skip_all_skippables(src, st)
             first == PastComma(src, here, comma)
             counted == More(first, ElementOfArray, 0)
             element == ElementSize(calls, first)
             after == AfterElement(calls, element)
             result == ArraySize(src, calls, st, comma)
  <1>1. /\ o + 1 \in Nat /\ o <= o + 1 /\ o + 1 + 1 \in Nat /\ o + 1 <= o + 1 + 1
        /\ ElementOfArray \in Nat /\ 0 \in Nat
    BY DEF ElementOfArray
  <1>2. here \in From(o)
    BY FromStep
  <1> HIDE DEF here
  <1>3. first \in From(o)
    <2>1. Expect(src, here, ",") \in From(o + 1)
      BY <1>2, FromStep
    <2>2. json_skip_all_skippables(src, Expect(src, here, ",")) \in From(o + 1)
      BY <1>1, <2>1, FromStep
    <2>3. json_skip_all_skippables(src, Expect(src, here, ",")) \in From(o)
      BY <1>1, <2>2, FromStep
    <2> QED
      BY <1>2, <2>3 DEF PastComma
  <1> HIDE DEF first
  <1>4. element \in From(o + 1)
    <2>1. first \in State /\ first.at \in Nat
      BY <1>3, FromStep DEF State
    <2>2. counted \in From(o)
      BY <1>1, <1>3, FromStep
    <2>3. CASE first.ok
      <3>1. counted.at = first.at
        BY <1>1, <2>1, <2>3, MoreStays, Zenon
      <3>2. calls.value[first.at] \in From(first.at + 1)
        BY <2>1 DEF Advancing
      <3>3. element = Then(counted, calls.value[first.at])
        BY DEF ElementSize
      <3> HIDE DEF counted
      <3> QED
        BY <2>2, <3>1, <3>2, <3>3, FromStep
    <2>4. CASE ~first.ok
      <3>1. ~counted.ok
        BY <1>1, <2>1, <2>4, MoreState
      <3>2. element = Refused
        BY <3>1 DEF ElementSize, Then
      <3> QED
        BY <1>1, <3>2, FromStart
    <2> QED
      BY <2>3, <2>4
  <1> HIDE DEF element
  <1>5. after \in From(o + 1)
    <2>1. element.at \in Nat
      BY <1>1, <1>4, FromStep DEF State
    <2>2. calls.elements[element.at][TRUE] \in From(element.at + 1)
      BY <2>1 DEF Advancing
    <2>3. after \in From(o + 1 + 1)
      BY <1>1, <1>4, <2>2, FromStep DEF AfterElement
    <2> QED
      BY <1>1, <2>3, FromStep
  <1> HIDE DEF after
  <1>6. result = CASE ~here.ok \/ here.at >= Len(src) -> Refused
                   [] here.ok /\ At(src, here.at) = "]" -> [here EXCEPT !.at = @ + 1]
                   [] here.ok /\ At(src, here.at) \notin {"]", Outside} -> after
    BY DEF ArraySize, ElementsSize, here, first, element, after
  <1> HIDE DEF result
  <1>7. here.at \in Nat /\ Len(src) \in Nat
    <2>1. here \in State
      BY <1>2 DEF From
    <2> QED
      BY <2>1 DEF State, Texts
  <1>8. CASE ~here.ok \/ here.at >= Len(src)
    <2>1. ~here.ok \/ At(src, here.at) = Outside
      BY <1>7, <1>8, OutsideText
    <2>2. Outside # "]"
      BY DEF Outside
    <2>3. result = Refused
      BY <1>6, <1>8, <2>1, <2>2
    <2> QED
      BY <1>1, <2>3, FromStart DEF result
  <1>9. CASE here.ok /\ ~(here.at >= Len(src)) /\ At(src, here.at) = "]"
    <2>1. result = [here EXCEPT !.at = @ + 1]
      BY <1>6, <1>9
    <2>2. [here EXCEPT !.at = @ + 1] \in From(o + 1)
      BY <1>2, <1>9, OverCharacter
    <2> QED
      BY <2>1, <2>2 DEF result
  <1>10. CASE here.ok /\ ~(here.at >= Len(src)) /\ At(src, here.at) # "]"
    <2>1. At(src, here.at) # Outside
      BY <1>7, <1>10, OutsideText
    <2>2. result = after
      BY <1>6, <1>10, <2>1
    <2> QED
      BY <1>5, <2>2 DEF result
  <1> QED
    BY <1>8, <1>9, <1>10
-----------------------------------------------------------------------------
(* Values.                                                                 *)

(* A word starts with one of three letters and is not empty.               *)
LEMMA WordStarts ==
    ASSUME NEW src \in Texts, NEW o \in Nat
    PROVE  \/ Word(src, o) = ""
           \/ /\ Word(src, o) \in {"true", "false", "null"}
              /\ At(src, o) \in {"t", "f", "n"}
              /\ Len(WordText[Word(src, o)]) \in Nat \ {0}
  <1>1. /\ WordText["true"] = <<"t", "r", "u", "e">>
        /\ WordText["false"] = <<"f", "a", "l", "s", "e">>
        /\ WordText["null"] = <<"n", "u", "l", "l">>
    BY DEF WordText
  <1>2. ASSUME NEW w \in {"true", "false", "null"}, Starts(src, o, WordText[w])
        PROVE  /\ At(src, o) \in {"t", "f", "n"}
               /\ Len(WordText[w]) \in Nat \ {0}
    <2>1. /\ Len(WordText[w]) \in Nat \ {0}
          /\ WordText[w][1] \in {"t", "f", "n"}
      BY <1>1
    <2>2. 1 \in 1 .. Len(WordText[w]) /\ o + 1 - 1 = o
      BY <2>1
    <2>3. At(src, o) = WordText[w][1]
      BY <1>2, <2>2 DEF Starts
    <2> QED
      BY <2>1, <2>3
  <1> DEFINE t == Starts(src, o, WordText["true"])
             f == Starts(src, o, WordText["false"])
             n == Starts(src, o, WordText["null"])
             word == Word(src, o)
  <1>3. word = CASE t -> "true" [] f -> "false" [] n -> "null" [] OTHER -> ""
    BY DEF Word
  <1>4. ~(t /\ f) /\ ~(t /\ n) /\ ~(f /\ n)
    <2> DEFINE first(w) == At(src, o + 1 - 1) = WordText[w][1]
    <2>1. t => first("true")
      <3>1. 1 \in 1 .. Len(WordText["true"])
        BY <1>1
      <3> QED
        BY <3>1 DEF Starts
    <2>2. f => first("false")
      <3>1. 1 \in 1 .. Len(WordText["false"])
        BY <1>1
      <3> QED
        BY <3>1 DEF Starts
    <2>3. n => first("null")
      <3>1. 1 \in 1 .. Len(WordText["null"])
        BY <1>1
      <3> QED
        BY <3>1 DEF Starts
    <2>4. /\ WordText["true"][1] = "t" /\ WordText["false"][1] = "f"
          /\ WordText["null"][1] = "n"
      BY <1>1
    <2> HIDE DEF t, f, n
    <2> QED
      BY <2>1, <2>2, <2>3, <2>4
  <1>5. /\ t => At(src, o) \in {"t", "f", "n"} /\ Len(WordText["true"]) \in Nat \ {0}
        /\ f => At(src, o) \in {"t", "f", "n"} /\ Len(WordText["false"]) \in Nat \ {0}
        /\ n => At(src, o) \in {"t", "f", "n"} /\ Len(WordText["null"]) \in Nat \ {0}
    BY <1>2
  <1> HIDE DEF t, f, n, word
  <1>6. /\ t => word = "true"
        /\ f => word = "false"
        /\ n => word = "null"
        /\ ~t /\ ~f /\ ~n => word = ""
    BY <1>3, <1>4
  <1> QED
    BY <1>5, <1>6 DEF word

ValueSizeCases(src, calls, here) ==
    LET c == At(src, here.at)
        next == ValueSize(src, calls, here)
    IN  /\ ~here.ok => next = Refused
        /\ here.ok /\ c = "\"" => next = json_get_string_size(src, calls, here)
        /\ here.ok /\ c = "{" => next = json_get_object_size(src, calls, here)
        /\ here.ok /\ c = "[" => next = json_get_array_size(src, calls, here)
        /\ here.ok /\ c \in Digit \cup {"-"} => next = json_get_number_size(src, here)
        /\ here.ok /\ c \notin {"\"", "{", "["} /\ c \notin Digit \cup {"-"} =>
              next = PastWord(here, Word(src, here.at))

(* The first pass on a value, case by case.                                *)
LEMMA ValueSizeIs ==
    ASSUME NEW src, NEW calls, NEW here
    PROVE  ValueSizeCases(src, calls, here)
  <1> DEFINE c == At(src, here.at)
             ok == here.ok
             number == Digit \cup {"-"}
             str == json_get_string_size(src, calls, here)
             obj == json_get_object_size(src, calls, here)
             arr == json_get_array_size(src, calls, here)
             num == json_get_number_size(src, here)
             word == PastWord(here, Word(src, here.at))
             next == ValueSize(src, calls, here)
  <1>1. next = CASE ~ok -> Refused
                 [] ok /\ c = "\"" -> str
                 [] ok /\ c = "{" -> obj
                 [] ok /\ c = "[" -> arr
                 [] ok /\ c \in number -> num
                 [] OTHER -> word
    BY DEF ValueSize
  <1>2. /\ "\"" \notin number /\ "{" \notin number /\ "[" \notin number
        /\ "\"" # "{" /\ "\"" # "[" /\ "{" # "["
    BY DEF Digit
  <1> HIDE DEF c, ok, number, str, obj, arr, num, word, next
  <1>3. ~ok => next = Refused
    BY <1>1
  <1>4. ok /\ c = "\"" => next = str
    BY <1>1, <1>2
  <1>5. ok /\ c = "{" => next = obj
    BY <1>1, <1>2
  <1>6. ok /\ c = "[" => next = arr
    BY <1>1, <1>2
  <1>7. ok /\ c \in number => next = num
    BY <1>1, <1>2
  <1>8. ok /\ c \notin {"\"", "{", "["} /\ c \notin number => next = word
    BY <1>1, <1>2
  <1> QED
    BY <1>3, <1>4, <1>5, <1>6, <1>7, <1>8
    DEF ValueSizeCases, c, ok, number, str, obj, arr, num, word, next

(* It goes forward over an object and an array.                            *)
LEMMA ObjectValueAdvances ==
    ASSUME NEW src \in Texts, NEW calls, Advancing(calls), NEW o \in Nat, NEW st \in From(o)
    PROVE  /\ json_get_object_size(src, calls, st) \in From(o + 1)
           /\ json_get_array_size(src, calls, st) \in From(o + 1)
  <1>1. /\ o + 1 \in Nat /\ o <= o + 1 /\ o + 1 + 1 \in Nat /\ o + 1 <= o + 1 + 1
        /\ Struct \in Nat /\ 0 \in Nat /\ FALSE \in BOOLEAN
    BY DEF Struct
  <1>2. ASSUME NEW char PROVE More(Expect(src, st, char), Struct, 0) \in From(o + 1)
    <2>1. Expect(src, st, char) \in From(o + 1)
      BY FromStep
    <2> QED
      BY <1>1, <2>1, FromStep
  <1> DEFINE object == More(Expect(src, st, "{"), Struct, 0)
             array == More(Expect(src, st, "["), Struct, 0)
  <1>3. object \in From(o + 1) /\ array \in From(o + 1)
    BY <1>2
  <1>4. /\ json_get_object_size(src, calls, st) =
              Then(object, calls.members[object.at][FALSE])
        /\ json_get_array_size(src, calls, st) =
              Then(array, calls.elements[array.at][FALSE])
    BY DEF json_get_object_size, json_get_array_size
  <1> HIDE DEF object, array
  <1>5. object.at \in Nat /\ array.at \in Nat
    BY <1>1, <1>3, FromStep DEF State
  <1>6. /\ calls.members[object.at][FALSE] \in From(object.at + 1)
        /\ calls.elements[array.at][FALSE] \in From(array.at + 1)
    BY <1>1, <1>5 DEF Advancing
  <1>7. /\ Then(object, calls.members[object.at][FALSE]) \in From(o + 1 + 1)
        /\ Then(array, calls.elements[array.at][FALSE]) \in From(o + 1 + 1)
    BY <1>1, <1>3, <1>6, FromStep
  <1> QED
    BY <1>1, <1>4, <1>7, FromStep

(* It goes forward over any value.                                         *)
LEMMA ValueAdvances ==
    ASSUME NEW src \in Texts, NEW calls, Advancing(calls), NEW o \in Nat, NEW st \in From(o)
    PROVE  json_get_value_size(src, calls, st) \in From(o + 1)
  <1> DEFINE here == More(json_skip_all_skippables(src, st), Struct, 0)
             next == ValueSize(src, calls, here)
             c == At(src, here.at)
             w == Word(src, here.at)
  <1>1. o + 1 \in Nat /\ Struct \in Nat /\ 0 \in Nat
    BY DEF Struct
  <1>2. json_skip_all_skippables(src, st) \in From(o)
    BY FromStep
  <1>3. here \in From(o)
    BY <1>1, <1>2, FromStep
  <1>4. json_get_value_size(src, calls, st) = next
    BY DEF json_get_value_size
  <1> HIDE DEF here
  <1>5. here \in State /\ here.at \in Nat /\ (here.ok => here.at >= o)
    <2>1. here \in State
      BY <1>3, FromStep
    <2> QED
      BY <1>3, <2>1 DEF State, From
  <1>6. ValueSizeCases(src, calls, here)
    BY ValueSizeIs
  <1>7. CASE ~here.ok
    <2>1. next = Refused
      BY <1>6, <1>7 DEF ValueSizeCases
    <2> QED
      BY <1>1, <1>4, <2>1, FromStart
  <1>8. CASE here.ok /\ c = "\""
    <2>1. next = json_get_string_size(src, calls, here)
      BY <1>6, <1>8 DEF ValueSizeCases
    <2> QED
      BY <1>3, <1>4, <2>1, GetStringAdvances
  <1>9. CASE here.ok /\ c = "{"
    <2>1. next = json_get_object_size(src, calls, here)
      BY <1>6, <1>9 DEF ValueSizeCases
    <2> QED
      BY <1>3, <1>4, <2>1, ObjectValueAdvances
  <1>10. CASE here.ok /\ c = "["
    <2>1. next = json_get_array_size(src, calls, here)
      BY <1>6, <1>10 DEF ValueSizeCases
    <2> QED
      BY <1>3, <1>4, <2>1, ObjectValueAdvances
  <1>11. CASE here.ok /\ c \in Digit \cup {"-"}
    <2>1. next = json_get_number_size(src, here)
      BY <1>6, <1>11 DEF ValueSizeCases
    <2>2. next \in From(here.at + 1)
      BY <1>5, <1>11, <2>1, NumberState
    <2>3. here.at + 1 \in Nat /\ o + 1 <= here.at + 1
      BY <1>5, <1>11
    <2> QED
      BY <1>1, <1>4, <2>2, <2>3, FromStep
  <1>12. CASE here.ok /\ c \notin {"\"", "{", "["} /\ c \notin Digit \cup {"-"}
    <2>1. next = PastWord(here, w)
      BY <1>6, <1>12 DEF ValueSizeCases
    <2>2. CASE w = ""
      <3>1. next = Refused
        BY <2>1, <2>2 DEF PastWord
      <3> QED
        BY <1>1, <1>4, <3>1, FromStart
    <2>3. CASE w # ""
      <3> DEFINE len == Len(WordText[w])
      <3>1. len \in Nat \ {0}
        BY <1>5, <2>3, WordStarts
      <3>2. next = [here EXCEPT !.at = @ + len]
        BY <2>1, <2>3 DEF PastWord
      <3> HIDE DEF len, next
      <3>3. here.at + len \in Nat /\ here.at + len >= o + 1
        <4>1. here.at \in Nat /\ here.at >= o
          BY <1>5, <1>12
        <4> QED
          BY <3>1, <4>1
      <3>4. next \in State /\ next.at = here.at + len
        BY <1>5, <3>2, <3>3, MovedState
      <3>5. next \in From(o + 1)
        BY <3>3, <3>4 DEF From
      <3> QED
        BY <1>4, <3>5
    <2> QED
      BY <2>2, <2>3
  <1> QED
    BY <1>7, <1>8, <1>9, <1>10, <1>11, <1>12

(* It still does a turn later.                                             *)
LEMMA TurnAdvances ==
    ASSUME NEW src \in Texts, NEW calls, Advancing(calls)
    PROVE  Advancing(SizeTurn(src, calls))
  <1> DEFINE turn == SizeTurn(src, calls)
  <1>1. \A o, h \in Nat : calls.string[o][h] \in From(o + 1)
    BY DEF Advancing
  <1>2. ASSUME NEW o \in Nat, NEW high \in Nat
        PROVE  turn.string[o][high] \in From(o + 1)
    <2>1. turn.string[o][high] = StringSize(src, calls.string, o, high)
      BY DEF SizeTurn
    <2> QED
      BY <1>1, <2>1, StringAdvances
  <1>3. ASSUME NEW o \in Nat
        PROVE  turn.value[o] \in From(o + 1)
    <2>1. turn.value[o] = json_get_value_size(src, calls, Started(o))
      BY DEF SizeTurn
    <2> QED
      BY <2>1, FromStart, ValueAdvances
  <1>4. ASSUME NEW o \in Nat, NEW comma \in BOOLEAN
        PROVE  /\ turn.members[o][comma] \in From(o + 1)
               /\ turn.elements[o][comma] \in From(o + 1)
    <2>1. /\ turn.members[o][comma] = ObjectSize(src, calls, Started(o), comma)
          /\ turn.elements[o][comma] = ArraySize(src, calls, Started(o), comma)
      BY DEF SizeTurn
    <2>2. Started(o) \in From(o)
      BY FromStart
    <2> QED
      BY <2>1, <2>2, ObjectAdvances, ArrayAdvances
  <1> HIDE DEF turn
  <1>5. Advancing(turn)
    BY <1>2, <1>3, <1>4 DEF Advancing
  <1> QED
    BY <1>5 DEF turn

(* The first pass goes forward, whatever the number of turns.              *)
LEMMA SizingAdvances ==
    ASSUME NEW src \in Texts, NEW n \in Nat
    PROVE  Advancing(Sizing(src)[n])
  <1> DEFINE S == {k \in Nat : Advancing(Sizing(src)[k])}
  <1>1. 0 \in S
    <2>1. Sizing(src)[0] = NoSizes
      BY SizingTurns
    <2>2. \A o \in Nat : Refused \in From(o + 1)
      BY FromStart
    <2>3. Advancing(NoSizes)
      BY <2>2 DEF Advancing, NoSizes
    <2> QED
      BY <2>1, <2>3
  <1>2. ASSUME NEW k \in S PROVE k + 1 \in S
    <2>1. Sizing(src)[k + 1] = SizeTurn(src, Sizing(src)[k])
      BY SizingTurns
    <2>2. Advancing(SizeTurn(src, Sizing(src)[k]))
      BY TurnAdvances
    <2> QED
      BY <2>1, <2>2
  <1> HIDE DEF S
  <1>3. S = Nat
    BY <1>1, <1>2, AllNaturals DEF S
  <1> QED
    BY <1>3 DEF S
-----------------------------------------------------------------------------
(* Strings in both passes.  The characters the second pass may write.      *)

Scribed ==
    STRING \cup {Byte(code) : code \in Int} \cup {EscapedChar(c) : c \in Escapes} \cup {Nul}

(* A byte is one of the characters that a string may be made of.           *)
LEMMA ByteIsScribed == \A code \in Int : Byte(code) \in Scribed
  BY DEF Scribed

(* A codepoint takes no more bytes than the first pass counts for one of   *)
(* its size.                                                               *)
LEMMA Utf8Length ==
    ASSUME NEW codepoint \in Int
    PROVE  /\ Utf8(codepoint) \in Seq(Scribed)
           /\ Len(Utf8(codepoint)) <= 4
           /\ codepoint <= 127 => Len(Utf8(codepoint)) = 1
           /\ codepoint <= 2047 => Len(Utf8(codepoint)) <= 2
           /\ codepoint <= 65535 => Len(Utf8(codepoint)) <= 3
  <1> DEFINE six(shift) == Byte(128 + ((codepoint \div shift) % 64))
             one == <<Byte(codepoint)>>
             two == <<Byte(192 + codepoint \div 64), six(1)>>
             three == <<Byte(224 + codepoint \div 4096), six(64), six(1)>>
             four == <<Byte(240 + codepoint \div 262144), six(4096), six(64), six(1)>>
             a == codepoint <= 127
             b == 127 < codepoint /\ codepoint <= 2047
             c == 2047 < codepoint /\ codepoint <= 65535
             result == Utf8(codepoint)
  <1>1. result = CASE a -> one [] b -> two [] c -> three [] OTHER -> four
    BY DEF Utf8
  <1>2. ~(a /\ b) /\ ~(a /\ c) /\ ~(b /\ c)
    OBVIOUS
  <1>3. /\ a <=> codepoint <= 127
        /\ a \/ b <=> codepoint <= 2047
        /\ a \/ b \/ c <=> codepoint <= 65535
    OBVIOUS
  <1>4. /\ six(1) \in Scribed /\ six(64) \in Scribed /\ six(4096) \in Scribed
        /\ Byte(codepoint) \in Scribed /\ Byte(192 + codepoint \div 64) \in Scribed
        /\ Byte(224 + codepoint \div 4096) \in Scribed
        /\ Byte(240 + codepoint \div 262144) \in Scribed
    BY ByteIsScribed
  <1>5. /\ one \in Seq(Scribed) /\ Len(one) = 1
        /\ two \in Seq(Scribed) /\ Len(two) = 2
        /\ three \in Seq(Scribed) /\ Len(three) = 3
        /\ four \in Seq(Scribed) /\ Len(four) = 4
    BY <1>4
  <1> HIDE DEF a, b, c, one, two, three, four, result
  <1>6. /\ a => result = one
        /\ b => result = two
        /\ c => result = three
        /\ ~a /\ ~b /\ ~c => result = four
    BY <1>1, <1>2
  <1>7. /\ result \in Seq(Scribed)
        /\ a => Len(result) = 1
        /\ b => Len(result) = 2
        /\ c => Len(result) = 3
        /\ ~a /\ ~b /\ ~c => Len(result) = 4
    BY <1>5, <1>6
  <1>8. /\ Len(result) <= 4
        /\ a => Len(result) = 1
        /\ a \/ b => Len(result) <= 2
        /\ a \/ b \/ c => Len(result) <= 3
    <2> DEFINE len == Len(result)
    <2>1. /\ a => len = 1
          /\ b => len = 2
          /\ c => len = 3
          /\ ~a /\ ~b /\ ~c => len = 4
      BY <1>7
    <2> HIDE DEF len
    <2>2. len = 1 \/ len = 2 \/ len = 3 \/ len = 4
      BY <2>1, Zenon
    <2>3. /\ len \in {1, 2, 3, 4}
          /\ a => len = 1
          /\ a \/ b => len = 1 \/ len = 2
          /\ a \/ b \/ c => len = 1 \/ len = 2 \/ len = 3
      BY <2>1, <2>2, Zenon
    <2>4. /\ len <= 4
          /\ len = 1 \/ len = 2 => len <= 2
          /\ len = 1 \/ len = 2 \/ len = 3 => len <= 3
      BY <2>2
    <2>5. /\ len <= 4
          /\ a => len = 1
          /\ a \/ b => len <= 2
          /\ a \/ b \/ c => len <= 3
      BY <2>3, <2>4, Zenon
    <2> QED
      BY <2>5 DEF len
  <1> QED
    BY <1>3, <1>7, <1>8 DEF result

(* A \uXXXX is written in no more bytes than were counted for it, if a low *)
(* half comes when and only when a high one waits.                         *)
LEMMA UnicodeFits ==
    ASSUME NEW codepoint \in Int, codepoint <= 65535, NEW high \in Nat,
           high # 0 <=> LowSurrogate(codepoint)
    PROVE  /\ UnicodeText(codepoint, high) \in Seq(Scribed)
           /\ Len(UnicodeText(codepoint, high)) <= 1 + MoreBytes(codepoint, high)
  <1> DEFINE first == HighSurrogate(codepoint)
             second == LowSurrogate(codepoint)
             text1 == UnicodeText(codepoint, high)
             more == MoreBytes(codepoint, high)
             joined == Joined(high, codepoint)
  <1>1. ~(first /\ second) /\ (first => codepoint > 2047)
    BY DEF HighSurrogate, LowSurrogate
  <1>2. text1 = CASE first -> <<>> [] second -> Utf8(joined) [] OTHER -> Utf8(codepoint)
    BY DEF UnicodeText
  <1>3. joined \in Int
    BY DEF Joined
  <1>4. more \in 0 .. 3
    BY MoreBytesBound
  <1>5. /\ Utf8(joined) \in Seq(Scribed) /\ Len(Utf8(joined)) <= 4
        /\ Len(Utf8(joined)) \in Nat
    BY <1>3, Utf8Length
  <1>6. /\ Utf8(codepoint) \in Seq(Scribed) /\ Len(Utf8(codepoint)) \in Nat
        /\ Len(Utf8(codepoint)) <= 3
        /\ codepoint <= 127 => Len(Utf8(codepoint)) = 1
        /\ codepoint <= 2047 => Len(Utf8(codepoint)) <= 2
    BY Utf8Length
  <1>7. CASE first
    <2>1. text1 = <<>>
      <3> HIDE DEF first, second, text1
      <3> QED
        BY <1>1, <1>2, <1>7
    <2> HIDE DEF text1, more
    <2>2. text1 \in Seq(Scribed) /\ Len(text1) = 0
      BY <2>1
    <2>3. Len(text1) <= 1 + more
      BY <1>4, <2>2
    <2> QED
      BY <2>2, <2>3 DEF text1, more
  <1>8. CASE second
    <2>1. text1 = Utf8(joined)
      <3> HIDE DEF first, second, text1, joined
      <3> QED
        BY <1>1, <1>2, <1>8
    <2>2. more = 3
      <3>1. high # 0
        BY <1>8
      <3> QED
        BY <3>1 DEF MoreBytes
    <2> HIDE DEF text1, more, joined
    <2>3. Len(text1) <= 1 + more
      BY <1>5, <2>1, <2>2
    <2> QED
      BY <1>5, <2>1, <2>3 DEF text1, more
  <1>9. CASE ~first /\ ~second
    <2>1. text1 = Utf8(codepoint)
      <3> HIDE DEF first, second, text1
      <3> QED
        BY <1>1, <1>2, <1>9
    <2>2. /\ codepoint <= 127 => more = 0
          /\ codepoint > 127 /\ codepoint <= 2047 => more = 1
          /\ codepoint > 2047 => more = 2
      <3> DEFINE a == high = 0 /\ codepoint <= 127
                 b == high = 0 /\ 127 < codepoint /\ codepoint <= 2047
                 c == high = 0 /\ first
      <3>1. more = CASE high # 0 -> 3 [] a -> 0 [] b -> 1 [] c -> 0 [] OTHER -> 2
        BY DEF MoreBytes
      <3>2. high = 0 /\ ~c
        BY <1>9
      <3>3. ~(a /\ b)
        OBVIOUS
      <3>4. /\ codepoint <= 127 => a
            /\ codepoint > 127 /\ codepoint <= 2047 => b
            /\ codepoint > 2047 => ~a /\ ~b
        BY <3>2
      <3> HIDE DEF a, b, c, more
      <3>5. /\ a => more = 0
            /\ b => more = 1
            /\ ~a /\ ~b => more = 2
        BY <3>1, <3>2, <3>3
      <3> QED
        BY <3>4, <3>5
    <2> HIDE DEF text1, more, first, second
    <2>3. Len(text1) <= 1 + more
      <3> DEFINE len == Len(Utf8(codepoint))
      <3>1. /\ len \in Nat /\ len <= 3
            /\ codepoint <= 127 => len = 1
            /\ codepoint <= 2047 => len <= 2
        BY <1>6
      <3>2. Len(text1) = len
        BY <2>1
      <3> HIDE DEF len
      <3>3. CASE codepoint <= 127
        <4>1. len = 1 /\ more = 0
          BY <2>2, <3>1, <3>3
        <4> QED
          BY <3>2, <4>1
      <3>4. CASE codepoint > 127 /\ codepoint <= 2047
        <4>1. len <= 2 /\ more = 1
          BY <2>2, <3>1, <3>4
        <4> QED
          BY <3>2, <4>1
      <3>5. CASE codepoint > 2047
        <4>1. more = 2
          BY <2>2, <3>5
        <4> QED
          BY <3>1, <3>2, <4>1
      <3> QED
        BY <3>3, <3>4, <3>5
    <2> QED
      BY <1>6, <2>1, <2>3 DEF text1, more
  <1> QED
    BY <1>7, <1>8, <1>9

(* StringText, one case a line.                                            *)
StringTextCases(src, string, offset, high) ==
    LET c == At(src, offset)
        escape == At(src, offset + 1)
        codepoint == json_hexadecimal_value(src, offset + 2)
        next == StringText(src, string, offset, high)
    IN  /\ c \in {"\"", Outside} => next = [at |-> offset + 1, text |-> <<>>]
        /\ c = "\\" /\ escape = "u" =>
              next = Behind(UnicodeText(codepoint, high),
                            string[offset + 6][Waiting(codepoint)])
        /\ c = "\\" /\ escape # "u" =>
              next = Behind(<<EscapedChar(escape)>>, string[offset + 2][high])
        /\ c \notin {"\"", Outside, "\\"} => next = Behind(<<c>>, string[offset + 1][high])

(* The second pass on the rest of a string, case by case.                  *)
LEMMA StringTextIs ==
    ASSUME NEW src, NEW string, NEW offset, NEW high
    PROVE  StringTextCases(src, string, offset, high)
  <1> DEFINE c == At(src, offset)
             escape == At(src, offset + 1)
             codepoint == json_hexadecimal_value(src, offset + 2)
             ends == {"\"", Outside}
             end == [at |-> offset + 1, text |-> <<>>]
             unicode == Behind(UnicodeText(codepoint, high),
                               string[offset + 6][Waiting(codepoint)])
             two == Behind(<<EscapedChar(escape)>>, string[offset + 2][high])
             one == Behind(<<c>>, string[offset + 1][high])
             next == StringText(src, string, offset, high)
  <1>1. next = CASE c \in ends -> end
                 [] c = "\\" /\ escape = "u" -> unicode
                 [] c = "\\" /\ escape # "u" -> two
                 [] OTHER -> one
    BY DEF StringText
  <1>2. "\\" \notin ends
    BY DEF Outside
  <1>3. c \notin {"\"", Outside, "\\"} => c \notin ends /\ c # "\\"
    OBVIOUS
  <1> HIDE DEF c, escape, ends, end, unicode, two, one, next
  <1>4. c \in ends => next = end
    BY <1>1, <1>2
  <1>5. c = "\\" /\ escape = "u" => next = unicode
    BY <1>1, <1>2
  <1>6. c = "\\" /\ escape # "u" => next = two
    BY <1>1, <1>2
  <1>7. c \notin ends /\ c # "\\" => next = one
    BY <1>1, <1>2
  <1> QED
    BY <1>3, <1>4, <1>5, <1>6, <1>7
    DEF StringTextCases, c, escape, ends, end, unicode, two, one, next

(* What the passes make of the rest of a string: the same end, and no more *)
(* characters than were counted, one of them for the NUL behind.           *)
StringAgrees(src, size, read) ==
    size.ok /\ size.at <= Len(src) =>
        /\ read.at = size.at
        /\ read.text \in Seq(Scribed)
        /\ Len(read.text) + 1 <= size.data
        /\ size.dom = 0

(* Both passes are a character further on in a string.                     *)
LEMMA StringGrows ==
    ASSUME NEW src, NEW size \in State, NEW read, StringAgrees(src, size, read),
           NEW text1 \in Seq(Scribed), NEW data \in Nat, Len(text1) <= data
    PROVE  StringAgrees(src, More(size, 0, data), Behind(text1, read))
  <1> DEFINE more == More(size, 0, data)
             next == Behind(text1, read)
  <1>1. /\ more.ok <=> size.ok
        /\ size.ok => /\ more.at = size.at
                      /\ more.dom = size.dom + 0
                      /\ more.data = size.data + data
    <2>1. 0 \in Nat
      OBVIOUS
    <2> QED
      BY <2>1, MoreState
  <1> HIDE DEF more
  <1>2. next.at = read.at /\ next.text = text1 \o read.text
    BY DEF Behind
  <1> HIDE DEF next
  <1>3. ASSUME more.ok, more.at <= Len(src)
        PROVE  /\ next.at = more.at
               /\ next.text \in Seq(Scribed)
               /\ Len(next.text) + 1 <= more.data
               /\ more.dom = 0
    <2>1. size.ok /\ more.at = size.at /\ more.dom = size.dom + 0
          /\ more.data = size.data + data
      BY <1>1, <1>3
    <2>2. /\ read.at = size.at /\ read.text \in Seq(Scribed)
          /\ Len(read.text) + 1 <= size.data /\ size.dom = 0
      BY <1>3, <2>1 DEF StringAgrees
    <2>3. next.text \in Seq(Scribed) /\ Len(next.text) = Len(text1) + Len(read.text)
      BY <1>2, <2>2
    <2>4. Len(text1) \in Nat /\ Len(read.text) \in Nat /\ size.data \in Nat
      BY <2>2 DEF State
    <2>5. Len(next.text) + 1 <= more.data
      BY <2>1, <2>2, <2>3, <2>4
    <2> QED
      BY <1>2, <2>1, <2>2, <2>3, <2>5
  <1> QED
    BY <1>3 DEF StringAgrees, more, next

(* A character of a text.                                                  *)
LEMMA TextCharacter ==
    ASSUME NEW src \in Texts, NEW o \in Nat, At(src, o) # Outside
    PROVE  o < Len(src) /\ At(src, o) \in STRING /\ At(src, o) \in Scribed
  <1>1. Len(src) \in Nat /\ ~(o >= Len(src))
    BY OutsideText DEF Texts
  <1>2. o + 1 \in 1 .. Len(src)
    BY <1>1
  <1>3. src[o + 1] \in STRING
    BY <1>2 DEF Texts
  <1> QED
    BY <1>1, <1>3 DEF At, Scribed

(* One character, escape or \uXXXX further on, both passes do alike.       *)
LEMMA StringsInStep ==
    ASSUME NEW src \in Texts, NEW sizes, NEW reads, NEW offset \in Nat, NEW high \in Nat,
           \A o, h \in Nat : /\ sizes[o][h] \in State
                             /\ StringAgrees(src, sizes[o][h], reads[o][h])
    PROVE  StringAgrees(src, StringSize(src, sizes, offset, high),
                             StringText(src, reads, offset, high))
  <1> DEFINE c == At(src, offset)
             escape == At(src, offset + 1)
             codepoint == json_hexadecimal_value(src, offset + 2)
             size == StringSize(src, sizes, offset, high)
             read == StringText(src, reads, offset, high)
  <1>1. StringSizeCases(src, sizes, offset, high)
    BY StringSizeIs
  <1>2. StringTextCases(src, reads, offset, high)
    BY StringTextIs
  <1>3. Refused.ok = FALSE
    BY DEF Refused
  <1>4. codepoint \in Int /\ codepoint <= 65535
    BY HexValue
  <1>5. Waiting(codepoint) \in Nat
    BY <1>4, WaitingHalf
  <1>6. CASE c = "\""
    <2>1. size = More(Started(offset + 1), 0, 1)
      BY <1>1, <1>6 DEF StringSizeCases
    <2>2. read = [at |-> offset + 1, text |-> <<>>]
      BY <1>2, <1>6 DEF StringTextCases
    <2>3. offset + 1 \in Nat /\ 0 \in Nat /\ 1 \in Nat
      OBVIOUS
    <2>4. /\ Started(offset + 1) \in State /\ Started(offset + 1).at = offset + 1
          /\ Started(offset + 1).ok
          /\ Started(offset + 1).dom = 0 /\ Started(offset + 1).data = 0
      BY <2>3, StartState
    <2> DEFINE start == Started(offset + 1)
    <2>5. size.at = offset + 1 /\ size.dom = 0 + 0 /\ size.data = 0 + 1
      <3>1. start \in State
        BY <2>4
      <3> HIDE DEF start
      <3>2. start.ok => /\ More(start, 0, 1).at = start.at
                        /\ More(start, 0, 1).dom = start.dom + 0
                        /\ More(start, 0, 1).data = start.data + 1
        BY <2>3, <3>1, MoreState
      <3> HIDE DEF size
      <3> QED
        BY <2>1, <2>4, <3>2 DEF start
    <2>6. /\ read.at = offset + 1 /\ read.text \in Seq(Scribed) /\ Len(read.text) = 0
      BY <2>2
    <2> HIDE DEF size, read
    <2>7. StringAgrees(src, size, read)
      BY <2>5, <2>6 DEF StringAgrees
    <2> QED
      BY <2>7 DEF size, read
  <1>7. CASE c \in Breaks
    <2>1. size = Refused
      BY <1>1, <1>7 DEF StringSizeCases
    <2> QED
      BY <1>3, <2>1 DEF StringAgrees
  <1>8. CASE c = "\\" /\ escape \in Escapes
    <2>1. size = More(sizes[offset + 2][high], 0, 1)
      BY <1>1, <1>8 DEF StringSizeCases
    <2>2. escape # "u"
      BY <1>8 DEF Escapes
    <2>3. read = Behind(<<EscapedChar(escape)>>, reads[offset + 2][high])
      BY <1>2, <1>8, <2>2 DEF StringTextCases
    <2>4. EscapedChar(escape) \in Scribed
      BY <1>8 DEF Scribed
    <2> DEFINE part == sizes[offset + 2][high]
               rest == reads[offset + 2][high]
               text1 == <<EscapedChar(escape)>>
    <2>5. offset + 2 \in Nat /\ 1 \in Nat
      OBVIOUS
    <2>6. part \in State /\ StringAgrees(src, part, rest)
      BY <2>5
    <2>7. text1 \in Seq(Scribed) /\ Len(text1) <= 1
      BY <2>4
    <2> HIDE DEF part, rest, text1
    <2>8. StringAgrees(src, More(part, 0, 1), Behind(text1, rest))
      BY <2>5, <2>6, <2>7, StringGrows
    <2> QED
      BY <2>1, <2>3, <2>8 DEF part, rest, text1
  <1>9. CASE c = "\\" /\ escape = "u"
    <2> DEFINE here == offset + 1
               part == sizes[here + 5][Waiting(codepoint)]
               rest == reads[offset + 6][Waiting(codepoint)]
               more == 1 + MoreBytes(codepoint, high)
               text1 == UnicodeText(codepoint, high)
    <2>1. size = UnicodeSize(src, sizes, here, high, codepoint)
      BY <1>1, <1>9 DEF StringSizeCases
    <2>2. read = Behind(text1, rest)
      BY <1>2, <1>9 DEF StringTextCases
    <2>3. CASE ValidUnicode(src, here, codepoint, high)
      <3>1. size = More(part, 0, more)
        BY <2>1, <2>3 DEF UnicodeSize
      <3>2. high # 0 <=> LowSurrogate(codepoint)
        BY <2>3 DEF ValidUnicode
      <3>3. text1 \in Seq(Scribed) /\ Len(text1) <= more
        BY <1>4, <3>2, UnicodeFits
      <3>4. more \in Nat
        BY <1>4, MoreBytesBound
      <3>5. offset + 6 \in Nat /\ here + 5 = offset + 6
        OBVIOUS
      <3>6. part \in State /\ StringAgrees(src, part, rest)
        <4>1. part = sizes[offset + 6][Waiting(codepoint)]
          BY <3>5
        <4> QED
          BY <1>5, <3>5, <4>1
      <3> HIDE DEF part, rest, text1, more
      <3>7. StringAgrees(src, More(part, 0, more), Behind(text1, rest))
        BY <3>3, <3>4, <3>6, StringGrows
      <3> QED
        BY <2>2, <3>1, <3>7
    <2>4. CASE ~ValidUnicode(src, here, codepoint, high)
      <3>1. size = Refused
        BY <2>1, <2>4 DEF UnicodeSize
      <3> QED
        BY <1>3, <3>1 DEF StringAgrees
    <2> QED
      BY <2>3, <2>4
  <1>10. CASE c = "\\" /\ escape \notin Escapes /\ escape # "u"
    <2>1. size = Refused
      BY <1>1, <1>10 DEF StringSizeCases
    <2> QED
      BY <1>3, <2>1 DEF StringAgrees
  <1>11. CASE c \notin Breaks /\ c # "\"" /\ c # "\\"
    <2>1. size = More(sizes[offset + 1][high], 0, 1)
      BY <1>1, <1>11 DEF StringSizeCases
    <2>2. c # Outside
      BY <1>11 DEF Breaks
    <2>3. read = Behind(<<c>>, reads[offset + 1][high])
      <3>1. c \notin {"\"", Outside, "\\"}
        BY <1>11, <2>2
      <3> QED
        BY <1>2, <3>1 DEF StringTextCases
    <2>4. c \in Scribed
      BY <2>2, TextCharacter
    <2> DEFINE part == sizes[offset + 1][high]
               rest == reads[offset + 1][high]
               text1 == <<c>>
    <2>5. offset + 1 \in Nat /\ 1 \in Nat
      OBVIOUS
    <2>6. part \in State /\ StringAgrees(src, part, rest)
      BY <2>5
    <2>7. text1 \in Seq(Scribed) /\ Len(text1) <= 1
      BY <2>4
    <2> HIDE DEF part, rest, text1
    <2>8. StringAgrees(src, More(part, 0, 1), Behind(text1, rest))
      BY <2>5, <2>6, <2>7, StringGrows
    <2> QED
      BY <2>1, <2>3, <2>8 DEF part, rest, text1
  <1> QED
    BY <1>6, <1>7, <1>8, <1>9, <1>10, <1>11
-----------------------------------------------------------------------------
(* Values, members and elements in both passes.                            *)

(* What the first pass came to from a state with these bytes counted, and  *)
(* what the second pass made of the same text: the same end, the same DOM, *)
(* and no more characters than were counted.                               *)
Agrees(src, dom, data, size, read) ==
    size.ok /\ size.at <= Len(src) =>
        /\ read.at = size.at
        /\ read.dom \in Nat /\ size.dom = dom + read.dom
        /\ read.data \in Seq(Scribed) /\ data + Len(read.data) <= size.data

(* All that calls itself, from every offset.  An element that the first    *)
(* pass lets through is no closing bracket: a comma before it is refused.  *)
Lockstep(src, sizes, reads) ==
    /\ \A o, high \in Nat : StringAgrees(src, sizes.string[o][high], reads.string[o][high])
    /\ \A o \in Nat :
          /\ Agrees(src, Struct, 0, sizes.value[o], reads.value[o])
          /\ sizes.value[o].ok => At(src, json_skip_whitespace(src, o)) # "]"
    /\ \A o \in Nat, comma \in BOOLEAN :
          /\ Agrees(src, 0, 0, sizes.members[o][comma], reads.members[o][comma])
          /\ Agrees(src, 0, 0, sizes.elements[o][comma], reads.elements[o][comma])

(* A part on which the passes agree, behind one that was read.             *)
LEMMA ThenAgrees ==
    ASSUME NEW src, NEW st \in State, NEW part \in State, NEW read,
           NEW dom \in Nat, NEW data \in Nat, Agrees(src, dom, data, part, read)
    PROVE  Agrees(src, st.dom + dom, st.data + data, Then(st, part), read)
  <1> DEFINE next == Then(st, part)
  <1>1. next.ok => /\ st.ok /\ part.ok /\ next.at = part.at
                   /\ next.dom = st.dom + part.dom /\ next.data = st.data + part.data
    BY ThenState
  <1> HIDE DEF next
  <1>2. /\ st.dom \in Nat /\ st.data \in Nat /\ part.dom \in Nat /\ part.data \in Nat
    BY DEF State
  <1>3. ASSUME next.ok, next.at <= Len(src)
        PROVE  /\ read.at = next.at
               /\ read.dom \in Nat /\ next.dom = st.dom + dom + read.dom
               /\ read.data \in Seq(Scribed)
               /\ st.data + data + Len(read.data) <= next.data
    <2>1. /\ read.at = part.at
          /\ read.dom \in Nat /\ part.dom = dom + read.dom
          /\ read.data \in Seq(Scribed) /\ data + Len(read.data) <= part.data
      BY <1>1, <1>3 DEF Agrees
    <2>2. Len(read.data) \in Nat
      BY <2>1
    <2>3. next.dom = st.dom + dom + read.dom
      <3>1. next.dom = st.dom + (dom + read.dom)
        BY <1>1, <1>3, <2>1
      <3>2. st.dom + (dom + read.dom) = st.dom + dom + read.dom
        BY <1>2, <2>1
      <3> QED
        BY <3>1, <3>2
    <2>4. st.data + data + Len(read.data) <= next.data
      BY <1>1, <1>2, <1>3, <2>1, <2>2
    <2> QED
      BY <1>1, <1>3, <2>1, <2>3, <2>4
  <1> QED
    BY <1>3 DEF Agrees, next

(* What a call of the first pass returns.                                  *)
LEMMA CallsReturn ==
    ASSUME NEW sizes, Advancing(sizes)
    PROVE  /\ \A o, high \in Nat :
                 /\ sizes.string[o][high] \in State
                 /\ sizes.string[o][high].ok => sizes.string[o][high].at >= o + 1
           /\ \A o \in Nat :
                 /\ sizes.value[o] \in State
                 /\ sizes.value[o].ok => sizes.value[o].at >= o + 1
           /\ \A o \in Nat, comma \in BOOLEAN :
                 /\ sizes.members[o][comma] \in State
                 /\ sizes.members[o][comma].ok => sizes.members[o][comma].at >= o + 1
                 /\ sizes.elements[o][comma] \in State
                 /\ sizes.elements[o][comma].ok => sizes.elements[o][comma].at >= o + 1
  BY DEF Advancing, From

(* Both passes read a string, quotes included, alike.                      *)
LEMMA StringInStep ==
    ASSUME NEW src \in Texts, NEW sizes, NEW reads,
           Advancing(sizes), Lockstep(src, sizes, reads), NEW st \in State
    PROVE  LET size == json_get_string_size(src, sizes, st)
               read == json_parse_string(reads, st.at)
           IN  /\ size \in State
               /\ size.ok => st.ok /\ At(src, st.at) = "\"" /\ size.at > st.at
               /\ Agrees(src, st.dom, st.data, size, read)
  <1> DEFINE size == json_get_string_size(src, sizes, st)
             read == json_parse_string(reads, st.at)
             start == st.at + 1
             counted == More(st, Struct, 0)
             part == sizes.string[start][0]
             string == reads.string[start][0]
  <1>1. st.at \in Nat /\ st.dom \in Nat /\ st.data \in Nat
    BY DEF State
  <1>2. start \in Nat /\ 0 \in Nat /\ Struct \in Nat
    BY <1>1 DEF Struct
  <1>3. /\ counted \in State
        /\ st.ok => counted.dom = st.dom + Struct /\ counted.data = st.data + 0
    BY <1>2, MoreState
  <1>4. part \in State /\ (part.ok => part.at >= start + 1) /\ StringAgrees(src, part, string)
    BY <1>2, CallsReturn DEF Lockstep
  <1>5. size = IF st.ok /\ At(src, st.at) = "\"" THEN Then(counted, part) ELSE Refused
    BY DEF json_get_string_size
  <1>6. read.at = string.at /\ read.dom = Struct /\ read.data = Append(string.text, Nul)
    BY DEF json_parse_string, Done
  <1> HIDE DEF size, read, counted, part, string
  <1>7. CASE st.ok /\ At(src, st.at) = "\""
    <2>1. size = Then(counted, part)
      BY <1>5, <1>7
    <2>2. /\ size \in State
          /\ size.ok => /\ part.ok /\ size.at = part.at
                        /\ size.dom = counted.dom + part.dom
                        /\ size.data = counted.data + part.data
      BY <1>3, <1>4, <2>1, ThenState
    <2>3. size.ok => size.at > st.at
      BY <1>1, <1>4, <2>2 DEF State
    <2>4. ASSUME size.ok, size.at <= Len(src)
          PROVE  /\ read.at = size.at
                 /\ read.dom \in Nat /\ size.dom = st.dom + read.dom
                 /\ read.data \in Seq(Scribed) /\ st.data + Len(read.data) <= size.data
      <3>1. /\ string.at = part.at /\ string.text \in Seq(Scribed)
            /\ Len(string.text) + 1 <= part.data /\ part.dom = 0
        BY <1>4, <2>2, <2>4 DEF StringAgrees
      <3>2. Nul \in Scribed
        BY DEF Scribed
      <3>3. read.data \in Seq(Scribed) /\ Len(read.data) = Len(string.text) + 1
        BY <1>6, <3>1, <3>2
      <3>4. size.dom = st.dom + Struct
        <4>1. size.dom = st.dom + Struct + 0
          BY <1>3, <1>7, <2>2, <2>4, <3>1
        <4> QED
          BY <1>1, <1>2, <4>1
      <3>5. st.data + Len(read.data) <= size.data
        <4>1. size.data = st.data + 0 + part.data /\ part.data \in Nat
          BY <1>3, <1>4, <1>7, <2>2, <2>4 DEF State
        <4>2. Len(string.text) \in Nat
          BY <3>1
        <4> QED
          BY <1>1, <3>1, <3>3, <4>1, <4>2
      <3> QED
        BY <1>2, <1>6, <2>2, <2>4, <3>1, <3>3, <3>4, <3>5
    <2> QED
      BY <1>7, <2>2, <2>3, <2>4 DEF Agrees, size, read
  <1>8. CASE ~(st.ok /\ At(src, st.at) = "\"")
    <2>1. size = Refused
      BY <1>5, <1>8
    <2>2. size \in State /\ ~size.ok
      BY <1>2, <2>1, StartState
    <2> QED
      BY <2>2 DEF Agrees, size, read
  <1> QED
    BY <1>7, <1>8

(* A comma before a member or an element is stepped over alike.            *)
LEMMA CommaInStep ==
    ASSUME NEW src \in Texts, NEW here \in State, NEW comma \in BOOLEAN
    PROVE  LET first == PastComma(src, here, comma)
           IN  /\ first \in State
               /\ first.ok => /\ here.ok /\ first.at >= here.at
                              /\ first.dom = here.dom /\ first.data = here.data
                              /\ first.at = BehindComma(src, here.at, comma)
  <1> DEFINE first == PastComma(src, here, comma)
             behind == Expect(src, here, ",")
             next == json_skip_all_skippables(src, behind)
  <1>1. here.at \in Nat
    BY DEF State
  <1>2. CASE comma
    <2>1. first = next
      BY <1>2 DEF PastComma
    <2>2. /\ behind \in State
          /\ behind.ok => /\ here.ok /\ At(src, here.at) = ","
                          /\ behind.at = here.at + 1
                          /\ behind.dom = here.dom /\ behind.data = here.data
      BY ExpectState
    <2> HIDE DEF behind
    <2>3. /\ next \in State
          /\ next.ok => /\ behind.ok /\ next.at = json_skip_whitespace(src, behind.at)
                        /\ next.at >= behind.at
                        /\ next.dom = behind.dom /\ next.data = behind.data
      BY <2>2, SkipState
    <2> HIDE DEF next
    <2>4. At(src, here.at) = "," =>
             BehindComma(src, here.at, comma) = json_skip_whitespace(src, here.at + 1)
      BY <1>2 DEF BehindComma
    <2>5. ASSUME next.ok PROVE next.at >= here.at
      <3>1. next.at \in Nat
        BY <2>3 DEF State
      <3>2. behind.at = here.at + 1 /\ next.at >= behind.at
        BY <2>2, <2>3, <2>5
      <3> QED
        BY <1>1, <3>1, <3>2
    <2> QED
      BY <2>1, <2>2, <2>3, <2>4, <2>5 DEF first
  <1>3. CASE ~comma
    <2>1. first = here /\ BehindComma(src, here.at, comma) = here.at
      BY <1>3 DEF PastComma, BehindComma
    <2> QED
      BY <1>1, <2>1
  <1> QED
    BY <1>2, <1>3

(* The value of a member, behind its key and its colon, in the second pass.*)
MemberValue(src, reads, here) ==
    LET key == json_parse_string(reads, here)
        colon == json_skip_whitespace(src, key.at)
    IN  reads.value[json_skip_whitespace(src, colon + 1)]

(* A member from `st' on, and its key and value in the second pass.        *)
MemberAgrees(src, st, member, key, value) ==
    /\ member.ok => st.ok /\ At(src, st.at) = "\"" /\ member.at > st.at
    /\ member.ok /\ member.at <= Len(src) =>
          /\ value.at = member.at
          /\ key.dom \in Nat /\ value.dom \in Nat
          /\ member.dom = st.dom + key.dom + ElementOfObject + Struct + value.dom
          /\ key.data \in Seq(Scribed) /\ value.data \in Seq(Scribed)
          /\ st.data + Len(key.data) + Len(value.data) <= member.data

(* Both read a name, the colon and the value behind it alike.              *)
LEMMA MemberInStep ==
    ASSUME NEW src \in Texts, NEW sizes, NEW reads,
           Advancing(sizes), Lockstep(src, sizes, reads), NEW st \in State
    PROVE  /\ MemberSize(src, sizes, st) \in State
           /\ MemberAgrees(src, st, MemberSize(src, sizes, st),
                           json_parse_string(reads, st.at), MemberValue(src, reads, st.at))
  <1> DEFINE sizeKey == json_get_string_size(src, sizes, st)
             before == json_skip_all_skippables(src, sizeKey)
             behind == Expect(src, before, ":")
             start == json_skip_all_skippables(src, behind)
             counted == More(start, ElementOfObject, 0)
             part == sizes.value[start.at]
             member == MemberSize(src, sizes, st)
             key == json_parse_string(reads, st.at)
             colon == json_skip_whitespace(src, key.at)
             value == MemberValue(src, reads, st.at)
  <1>1. /\ ElementOfObject \in Nat /\ Struct \in Nat /\ 0 \in Nat /\ Len(src) \in Nat
        /\ st.at \in Nat /\ st.dom \in Nat /\ st.data \in Nat
    BY DEF ElementOfObject, Struct, State, Texts
  <1>2. /\ sizeKey \in State
        /\ sizeKey.ok => st.ok /\ At(src, st.at) = "\"" /\ sizeKey.at > st.at
        /\ Agrees(src, st.dom, st.data, sizeKey, key)
    BY StringInStep
  <1>3. member = Then(counted, part)
    BY DEF MemberSize
  <1> HIDE DEF sizeKey
  <1>4. /\ before \in State
        /\ before.ok => /\ sizeKey.ok /\ before.at = json_skip_whitespace(src, sizeKey.at)
                        /\ before.at >= sizeKey.at
                        /\ before.dom = sizeKey.dom /\ before.data = sizeKey.data
    BY <1>2, SkipState
  <1> HIDE DEF before
  <1>5. /\ behind \in State
        /\ behind.ok => /\ before.ok /\ behind.at = before.at + 1
                        /\ behind.dom = before.dom /\ behind.data = before.data
    BY <1>4, ExpectState
  <1> HIDE DEF behind
  <1>6. /\ start \in State
        /\ start.ok => /\ behind.ok /\ start.at = json_skip_whitespace(src, behind.at)
                       /\ start.at >= behind.at
                       /\ start.dom = behind.dom /\ start.data = behind.data
    BY <1>5, SkipState
  <1> HIDE DEF start
  <1>7. /\ counted \in State /\ (counted.ok <=> start.ok)
        /\ start.ok => /\ counted.dom = start.dom + ElementOfObject
                       /\ counted.data = start.data + 0
    <2>1. ElementOfObject \in Nat /\ 0 \in Nat
      BY <1>1
    <2> QED
      BY <1>6, <2>1, MoreState
  <1>8. start.at \in Nat /\ before.at \in Nat /\ sizeKey.at \in Nat /\ behind.at \in Nat
    BY <1>2, <1>4, <1>5, <1>6 DEF State
  <1>9. part \in State /\ (part.ok => part.at >= start.at + 1)
    BY <1>8, CallsReturn
  <1> DEFINE readPart == reads.value[start.at]
  <1>10. Agrees(src, Struct, 0, part, readPart)
    BY <1>8 DEF Lockstep
  <1> HIDE DEF counted, part, key, member
  <1>11. /\ member \in State
         /\ member.ok => start.ok /\ part.ok /\ member.at = part.at
    BY <1>3, <1>7, <1>9, ThenState
  <1>12. Agrees(src, counted.dom + Struct, counted.data + 0, member, readPart)
    BY <1>1, <1>3, <1>7, <1>9, <1>10, ThenAgrees
  <1> HIDE DEF readPart
  <1>13. ASSUME member.ok
         PROVE  /\ start.ok /\ behind.ok /\ before.ok /\ sizeKey.ok
                /\ member.at > start.at /\ start.at > sizeKey.at /\ sizeKey.at > st.at
    <2>1. start.ok /\ behind.ok /\ before.ok /\ sizeKey.ok /\ part.ok /\ member.at = part.at
      BY <1>4, <1>5, <1>6, <1>11, <1>13
    <2>2. member.at \in Nat
      BY <1>11 DEF State
    <2>3. member.at > start.at
      BY <1>8, <1>9, <2>1, <2>2
    <2>4. start.at > sizeKey.at
      BY <1>4, <1>5, <1>6, <1>8, <2>1
    <2> QED
      BY <1>2, <2>1, <2>3, <2>4
  <1>14. member.ok => st.ok /\ At(src, st.at) = "\"" /\ member.at > st.at
    <2>1. ASSUME member.ok PROVE member.at > st.at
      <3>1. member.at \in Nat
        BY <1>11 DEF State
      <3> QED
        BY <1>1, <1>8, <1>13, <2>1, <3>1
    <2> QED
      BY <1>2, <1>13, <2>1
  <1>15. ASSUME member.ok, member.at <= Len(src)
         PROVE  /\ value.at = member.at
                /\ key.dom \in Nat /\ value.dom \in Nat
                /\ member.dom = st.dom + key.dom + ElementOfObject + Struct + value.dom
                /\ key.data \in Seq(Scribed) /\ value.data \in Seq(Scribed)
                /\ st.data + Len(key.data) + Len(value.data) <= member.data
    <2>1. sizeKey.at <= Len(src)
      <3>1. member.at \in Nat
        BY <1>11 DEF State
      <3> QED
        BY <1>1, <1>8, <1>13, <1>15, <3>1
    <2>2. /\ key.at = sizeKey.at /\ key.dom \in Nat /\ sizeKey.dom = st.dom + key.dom
          /\ key.data \in Seq(Scribed) /\ st.data + Len(key.data) <= sizeKey.data
      BY <1>2, <1>13, <1>15, <2>1 DEF Agrees
    <2>3. value = readPart
      <3>1. value = reads.value[json_skip_whitespace(src, colon + 1)]
        BY DEF MemberValue, key
      <3> QED
        BY <1>4, <1>5, <1>6, <1>13, <1>15, <2>2, <3>1 DEF readPart
    <2>4. /\ readPart.at = member.at
          /\ readPart.dom \in Nat /\ member.dom = counted.dom + Struct + readPart.dom
          /\ readPart.data \in Seq(Scribed)
          /\ counted.data + 0 + Len(readPart.data) <= member.data
      BY <1>12, <1>15 DEF Agrees
    <2> HIDE DEF value
    <2>5. counted.dom = sizeKey.dom + ElementOfObject /\ counted.data = sizeKey.data + 0
      BY <1>4, <1>5, <1>6, <1>7, <1>13, <1>15
    <2>6. member.dom = st.dom + key.dom + ElementOfObject + Struct + value.dom
      BY <2>2, <2>3, <2>4, <2>5
    <2>7. st.data + Len(key.data) + Len(value.data) <= member.data
      <3>1. Len(key.data) \in Nat /\ Len(readPart.data) \in Nat
        BY <2>2, <2>4
      <3>2. sizeKey.data \in Nat /\ member.data \in Nat
        BY <1>2, <1>11 DEF State
      <3>3. sizeKey.data + Len(readPart.data) <= member.data
        BY <2>4, <2>5, <3>1, <3>2
      <3> QED
        BY <1>1, <2>2, <2>3, <3>1, <3>2, <3>3, SMTT(30)
    <2> QED
      BY <2>2, <2>3, <2>4, <2>6, <2>7
  <1> HIDE DEF value
  <1> QED
    BY <1>11, <1>14, <1>15 DEF MemberAgrees, member, key, value

(* What the loops of the second pass do where they stand: MembersFrom and  *)
(* ElementsFrom, one case a line.                                          *)
LoopCases(src, reads, here) ==
    LET c == At(src, here)
    IN  /\ c = "}" => MembersFrom(src, reads, here) = Done(here + 1, 0, <<>>, <<>>)
        /\ c \notin {Outside, "}"} => MembersFrom(src, reads, here) = MemberRead(src, reads, here)
        /\ c = "]" => ElementsFrom(src, reads, here) = Done(here + 1, 0, <<>>, <<>>)
        /\ c \notin {Outside, "]"} => ElementsFrom(src, reads, here) = ElementRead(reads, here)

(* The second pass on the rest of an object, case by case.                 *)
LEMMA LoopIs ==
    ASSUME NEW src, NEW reads, NEW here
    PROVE  LoopCases(src, reads, here)
  <1> DEFINE c == At(src, here)
             out == Done(here, 0, <<>>, <<>>)
             end == Done(here + 1, 0, <<>>, <<>>)
             member == MemberRead(src, reads, here)
             element == ElementRead(reads, here)
             members == MembersFrom(src, reads, here)
             elements == ElementsFrom(src, reads, here)
  <1>1. members = CASE c = Outside -> out [] c = "}" -> end [] OTHER -> member
    BY DEF MembersFrom
  <1>2. elements = CASE c = Outside -> out [] c = "]" -> end [] OTHER -> element
    BY DEF ElementsFrom
  <1>3. Outside # "}" /\ Outside # "]"
    BY DEF Outside
  <1> HIDE DEF c, out, end, member, element, members, elements
  <1>4. /\ c = "}" => members = end
        /\ c # Outside /\ c # "}" => members = member
    BY <1>1, <1>3
  <1>5. /\ c = "]" => elements = end
        /\ c # Outside /\ c # "]" => elements = element
    BY <1>2, <1>3
  <1> QED
    BY <1>4, <1>5 DEF LoopCases, c, end, member, element, members, elements

(* The closing bracket in both passes.                                     *)
LEMMA ClosedInStep ==
    ASSUME NEW src, NEW here \in State, here.ok, here.dom = 0, here.data = 0,
           NEW read, read = Done(here.at + 1, 0, <<>>, <<>>)
    PROVE  Agrees(src, 0, 0, [here EXCEPT !.at = @ + 1], read)
  <1> DEFINE size == [here EXCEPT !.at = @ + 1]
  <1>1. here.at + 1 \in Nat
    BY DEF State
  <1>2. size.at = here.at + 1 /\ size.dom = 0 /\ size.data = 0
    BY <1>1, MovedState
  <1>3. /\ read.at = here.at + 1 /\ read.dom = 0 /\ read.data \in Seq(Scribed)
        /\ Len(read.data) = 0
    BY DEF Done
  <1> HIDE DEF size
  <1>4. Agrees(src, 0, 0, size, read)
    BY <1>2, <1>3 DEF Agrees
  <1> QED
    BY <1>4 DEF size

(* Where an object or an array goes on: behind the blanks, nothing counted.*)
LEMMA HereInStep ==
    ASSUME NEW src \in Texts, NEW o \in Nat
    PROVE  LET here == json_skip_all_skippables(src, Started(o))
           IN  /\ here \in State
               /\ here.ok => /\ here.at = json_skip_whitespace(src, o)
                             /\ here.at # Len(src)
                             /\ here.dom = 0 /\ here.data = 0
  <1> DEFINE start == Started(o)
             here == json_skip_all_skippables(src, start)
  <1>1. start \in State /\ start.at = o /\ start.dom = 0 /\ start.data = 0
    BY StartState
  <1> HIDE DEF start
  <1>2. /\ here \in State
        /\ here.ok => /\ here.at = json_skip_whitespace(src, start.at)
                      /\ json_skip_whitespace(src, start.at) # Len(src)
                      /\ here.dom = start.dom /\ here.data = start.data
    BY <1>1, SkipState
  <1> QED
    BY <1>1, <1>2 DEF start

(* A member and the rest of the object, put together by both passes.       *)
LEMMA MemberSums ==
    ASSUME NEW src \in Texts, NEW st \in State, st.dom = 0, st.data = 0,
           NEW member \in State, NEW key, NEW value, MemberAgrees(src, st, member, key, value),
           member.ok, member.at <= Len(src),
           NEW after \in State, NEW rest, Agrees(src, member.dom + 0, member.data + 0, after, rest),
           NEW read, read.at = rest.at,
           read.dom = ElementOfObject + key.dom + Struct + value.dom + rest.dom,
           read.data = key.data \o value.data \o rest.data
    PROVE  Agrees(src, 0, 0, after, read)
  <1>1. /\ key.dom \in Nat /\ value.dom \in Nat
        /\ member.dom = 0 + key.dom + ElementOfObject + Struct + value.dom
        /\ key.data \in Seq(Scribed) /\ value.data \in Seq(Scribed)
        /\ 0 + Len(key.data) + Len(value.data) <= member.data
    BY DEF MemberAgrees
  <1>2. ASSUME after.ok, after.at <= Len(src)
        PROVE  /\ read.at = after.at
               /\ read.dom \in Nat /\ after.dom = 0 + read.dom
               /\ read.data \in Seq(Scribed) /\ 0 + Len(read.data) <= after.data
    <2>1. /\ rest.at = after.at
          /\ rest.dom \in Nat /\ after.dom = member.dom + 0 + rest.dom
          /\ rest.data \in Seq(Scribed)
          /\ member.data + 0 + Len(rest.data) <= after.data
      BY <1>2 DEF Agrees
    <2>2. read.dom \in Nat /\ after.dom = 0 + read.dom
      <3>1. ElementOfObject \in Nat /\ Struct \in Nat
        BY DEF ElementOfObject, Struct
      <3>2. after.dom = 0 + key.dom + ElementOfObject + Struct + value.dom + 0 + rest.dom
        BY <1>1, <2>1
      <3> QED
        BY <1>1, <2>1, <3>1, <3>2
    <2>3. /\ read.data \in Seq(Scribed)
          /\ Len(read.data) = Len(key.data) + Len(value.data) + Len(rest.data)
      BY <1>1, <2>1
    <2>4. 0 + Len(read.data) <= after.data
      <3>1. Len(key.data) \in Nat /\ Len(value.data) \in Nat /\ Len(rest.data) \in Nat
        BY <1>1, <2>1
      <3>2. member.data \in Nat /\ after.data \in Nat
        BY DEF State
      <3> QED
        <4>1. \A k, v, r, m, a \in Nat :
                 0 + k + v <= m /\ m + 0 + r <= a => 0 + (k + v + r) <= a
          OBVIOUS
        <4>2. 0 + (Len(key.data) + Len(value.data) + Len(rest.data)) <= after.data
          BY <1>1, <2>1, <3>1, <3>2, <4>1, ZenonT(60)
        <4> QED
          BY <2>3, <4>2
    <2> QED
      BY <2>1, <2>2, <2>3, <2>4
  <1> QED
    BY <1>2 DEF Agrees

(* A member and the rest of its object on which the passes agree.          *)
LEMMA MemberJoins ==
    ASSUME NEW src \in Texts, NEW st \in State, st.dom = 0, st.data = 0,
           NEW member \in State, NEW key, NEW value, MemberAgrees(src, st, member, key, value),
           member.ok, member.at <= Len(src),
           NEW after \in State, NEW rest, Agrees(src, member.dom + 0, member.data + 0, after, rest),
           NEW reads, NEW here, key = json_parse_string(reads, here),
           value = MemberValue(src, reads, here), rest = reads.members[value.at][TRUE],
           NEW read, read = MemberRead(src, reads, here)
    PROVE  Agrees(src, 0, 0, after, read)
  <1>1. /\ read.at = rest.at
        /\ read.dom = ElementOfObject + key.dom + Struct + value.dom + rest.dom
        /\ read.data = key.data \o value.data \o rest.data
    BY DEF MemberRead, MemberValue, Done
  <1> QED
    BY <1>1, MemberSums

(* Both read the rest of an object alike.                                  *)
LEMMA MembersInStep ==
    ASSUME NEW src \in Texts, NEW sizes, NEW reads,
           Advancing(sizes), Lockstep(src, sizes, reads),
           NEW o \in Nat, NEW comma \in BOOLEAN
    PROVE  Agrees(src, 0, 0, ObjectSize(src, sizes, Started(o), comma),
                             ObjectMembers(src, reads, o, comma))
  <1> DEFINE here == json_skip_all_skippables(src, Started(o))
             first == PastComma(src, here, comma)
             member == MemberSize(src, sizes, first)
             after == AfterMember(src, sizes, member)
             size == ObjectSize(src, sizes, Started(o), comma)
             there == json_skip_whitespace(src, o)
             start == BehindComma(src, there, comma)
             read == ObjectMembers(src, reads, o, comma)
  <1>1. /\ here \in State
        /\ here.ok => here.at = there /\ here.dom = 0 /\ here.data = 0
    BY HereInStep
  <1>2. size = IF here.ok /\ At(src, here.at) = "}" THEN [here EXCEPT !.at = @ + 1] ELSE after
    BY DEF ObjectSize, MembersSize
  <1>3. read = MembersFrom(src, reads, start)
    BY DEF ObjectMembers
  <1>4. LoopCases(src, reads, start)
    BY LoopIs
  <1> HIDE DEF here
  <1>5. CASE here.ok /\ At(src, here.at) = "}"
    <2>1. start = here.at
      BY <1>1, <1>5 DEF BehindComma
    <2>2. read = Done(here.at + 1, 0, <<>>, <<>>)
      BY <1>3, <1>4, <1>5, <2>1 DEF LoopCases
    <2>3. Agrees(src, 0, 0, [here EXCEPT !.at = @ + 1], read)
      BY <1>1, <1>5, <2>2, ClosedInStep
    <2> QED
      BY <1>2, <1>5, <2>3
  <1>6. CASE ~(here.ok /\ At(src, here.at) = "}")
    <2>1. size = after
      BY <1>2, <1>6
    <2>2. /\ first \in State
          /\ first.ok => /\ here.ok /\ first.dom = here.dom /\ first.data = here.data
                         /\ first.at = BehindComma(src, here.at, comma)
      BY <1>1, CommaInStep
    <2> HIDE DEF first
    <2> DEFINE key == json_parse_string(reads, first.at)
               value == MemberValue(src, reads, first.at)
    <2>3. /\ member \in State
          /\ MemberAgrees(src, first, member, key, value)
      BY <2>2, MemberInStep
    <2> HIDE DEF member
    <2>4. AfterMemberCases(src, sizes, member)
      BY <2>3, AfterMemberIs
    <2>5. Refused.ok = FALSE
      BY DEF Refused
    <2>6. member.at \in Nat /\ Len(src) \in Nat
      BY <2>3 DEF State, Texts
    <2> HIDE DEF after
    <2>7. ASSUME after.ok, after.at <= Len(src) PROVE Agrees(src, 0, 0, after, read)
      <3> DEFINE part == sizes.members[member.at][TRUE]
                 rest == reads.members[member.at][TRUE]
      <3>1. ~(~member.ok \/ member.at = Len(src))
        BY <2>4, <2>5, <2>7 DEF AfterMemberCases, after
      <3>2. ~(member.ok /\ member.at > Len(src))
        <4>1. CASE member.ok /\ member.at > Len(src)
          <5>1. after = member
            BY <2>4, <4>1 DEF AfterMemberCases, after
          <5> QED
            BY <2>6, <2>7, <4>1, <5>1
        <4> QED
          BY <4>1
      <3>3. member.ok /\ member.at <= Len(src) /\ member.at < Len(src)
        BY <2>6, <3>1, <3>2
      <3>4. after = Then(member, part)
        BY <2>4, <3>3 DEF AfterMemberCases, after
      <3>5. part \in State /\ Agrees(src, 0, 0, part, rest)
        BY <2>6, CallsReturn DEF Lockstep
      <3> HIDE DEF part, key, value, read
      <3>6. /\ after \in State
            /\ Agrees(src, member.dom + 0, member.data + 0, after, rest)
        <4>1. 0 \in Nat
          OBVIOUS
        <4> QED
          BY <2>3, <3>4, <3>5, <4>1, ThenAgrees, ThenState
      <3>7. first.ok /\ At(src, first.at) = "\"" /\ value.at = member.at
        BY <2>3, <3>3 DEF MemberAgrees
      <3>8. first.dom = 0 /\ first.data = 0 /\ first.at = start
        BY <1>1, <2>2, <3>7
      <3>9. read = MemberRead(src, reads, first.at)
        <4>1. At(src, start) \notin {Outside, "}"}
          BY <3>7, <3>8 DEF Outside
        <4> QED
          BY <1>3, <1>4, <3>8, <4>1 DEF LoopCases, read
      <3> DEFINE place == first.at
      <3>10. /\ key = json_parse_string(reads, place)
             /\ value = MemberValue(src, reads, place)
        BY DEF key, value
      <3>11. rest = reads.members[value.at][TRUE]
        BY <3>7
      <3>12. read = MemberRead(src, reads, place)
        BY <3>9
      <3> HIDE DEF rest, place
      <3> QED
        BY <2>2, <2>3, <3>3, <3>6, <3>8, <3>10, <3>11, <3>12, MemberJoins
    <2> HIDE DEF read
    <2>8. Agrees(src, 0, 0, after, read)
      BY <2>7 DEF Agrees
    <2> QED
      BY <2>1, <2>8 DEF read
  <1> QED
    BY <1>5, <1>6

(* An element from `st' on, and its value in the second pass.              *)
ElementAgrees(src, st, element, value) ==
    /\ element.ok => /\ st.ok /\ element.at > st.at
                     /\ At(src, json_skip_whitespace(src, st.at)) # "]"
    /\ element.ok /\ element.at <= Len(src) =>
          /\ value.at = element.at
          /\ value.dom \in Nat /\ element.dom = st.dom + ElementOfArray + Struct + value.dom
          /\ value.data \in Seq(Scribed) /\ st.data + Len(value.data) <= element.data

(* Both read an element of an array alike, and it does not begin with a    *)
(* bracket that closes.                                                    *)
LEMMA ElementInStep ==
    ASSUME NEW src \in Texts, NEW sizes, NEW reads,
           Advancing(sizes), Lockstep(src, sizes, reads), NEW st \in State
    PROVE  /\ ElementSize(sizes, st) \in State
           /\ ElementAgrees(src, st, ElementSize(sizes, st), reads.value[st.at])
  <1> DEFINE counted == More(st, ElementOfArray, 0)
             part == sizes.value[st.at]
             value == reads.value[st.at]
             element == ElementSize(sizes, st)
  <1>1. /\ ElementOfArray \in Nat /\ Struct \in Nat /\ 0 \in Nat
        /\ st.at \in Nat /\ st.dom \in Nat /\ st.data \in Nat
    BY DEF ElementOfArray, Struct, State
  <1>2. /\ counted \in State /\ (counted.ok <=> st.ok)
        /\ st.ok => /\ counted.dom = st.dom + ElementOfArray
                    /\ counted.data = st.data + 0
    <2>1. ElementOfArray \in Nat /\ 0 \in Nat
      BY <1>1
    <2> QED
      BY <2>1, MoreState
  <1>3. part \in State /\ (part.ok => part.at >= st.at + 1)
    BY <1>1, CallsReturn
  <1>4. /\ Agrees(src, Struct, 0, part, value)
        /\ part.ok => At(src, json_skip_whitespace(src, st.at)) # "]"
    BY <1>1 DEF Lockstep
  <1>5. element = Then(counted, part)
    BY DEF ElementSize
  <1> HIDE DEF counted, part, value, element
  <1>6. /\ element \in State
        /\ element.ok => st.ok /\ part.ok /\ element.at = part.at
    BY <1>2, <1>3, <1>5, ThenState
  <1>7. Agrees(src, counted.dom + Struct, counted.data + 0, element, value)
    BY <1>1, <1>2, <1>3, <1>4, <1>5, ThenAgrees
  <1>8. element.ok => /\ st.ok /\ element.at > st.at
                      /\ At(src, json_skip_whitespace(src, st.at)) # "]"
    <2>1. ASSUME element.ok PROVE element.at > st.at
      <3>1. element.at \in Nat
        BY <1>6 DEF State
      <3> QED
        BY <1>1, <1>3, <1>6, <2>1, <3>1
    <2> QED
      BY <1>4, <1>6, <2>1
  <1>9. ASSUME element.ok, element.at <= Len(src)
        PROVE  /\ value.at = element.at
               /\ value.dom \in Nat /\ element.dom = st.dom + ElementOfArray + Struct + value.dom
               /\ value.data \in Seq(Scribed) /\ st.data + Len(value.data) <= element.data
    <2>1. /\ value.at = element.at
          /\ value.dom \in Nat /\ element.dom = counted.dom + Struct + value.dom
          /\ value.data \in Seq(Scribed)
          /\ counted.data + 0 + Len(value.data) <= element.data
      BY <1>7, <1>9 DEF Agrees
    <2>2. counted.dom = st.dom + ElementOfArray /\ counted.data = st.data + 0
      BY <1>2, <1>6, <1>9
    <2>3. element.dom = st.dom + ElementOfArray + Struct + value.dom
      BY <2>1, <2>2
    <2>4. st.data + Len(value.data) <= element.data
      <3>1. Len(value.data) \in Nat /\ element.data \in Nat
        BY <1>6, <2>1 DEF State
      <3>2. \A d, v, e \in Nat : d + 0 + 0 + v <= e => d + v <= e
        OBVIOUS
      <3>3. st.data + 0 + 0 + Len(value.data) <= element.data
        BY <2>1, <2>2
      <3> QED
        BY <1>1, <3>1, <3>2, <3>3
    <2> QED
      BY <2>1, <2>3, <2>4
  <1> QED
    BY <1>6, <1>8, <1>9 DEF ElementAgrees, element, value

(* An element and the rest of the array, put together by both passes.      *)
LEMMA ElementSums ==
    ASSUME NEW src \in Texts, NEW st \in State, st.dom = 0, st.data = 0,
           NEW element \in State, NEW value, ElementAgrees(src, st, element, value),
           element.ok, element.at <= Len(src),
           NEW after \in State, NEW rest,
           Agrees(src, element.dom + 0, element.data + 0, after, rest),
           NEW read, read.at = rest.at,
           read.dom = ElementOfArray + Struct + value.dom + rest.dom,
           read.data = value.data \o rest.data
    PROVE  Agrees(src, 0, 0, after, read)
  <1>1. /\ value.dom \in Nat
        /\ element.dom = 0 + ElementOfArray + Struct + value.dom
        /\ value.data \in Seq(Scribed)
        /\ 0 + Len(value.data) <= element.data
    BY DEF ElementAgrees
  <1>2. ASSUME after.ok, after.at <= Len(src)
        PROVE  /\ read.at = after.at
               /\ read.dom \in Nat /\ after.dom = 0 + read.dom
               /\ read.data \in Seq(Scribed) /\ 0 + Len(read.data) <= after.data
    <2>1. /\ rest.at = after.at
          /\ rest.dom \in Nat /\ after.dom = element.dom + 0 + rest.dom
          /\ rest.data \in Seq(Scribed)
          /\ element.data + 0 + Len(rest.data) <= after.data
      BY <1>2 DEF Agrees
    <2>2. read.dom \in Nat /\ after.dom = 0 + read.dom
      <3>1. ElementOfArray \in Nat /\ Struct \in Nat
        BY DEF ElementOfArray, Struct
      <3>2. after.dom = 0 + ElementOfArray + Struct + value.dom + 0 + rest.dom
        BY <1>1, <2>1
      <3> QED
        BY <1>1, <2>1, <3>1, <3>2
    <2>3. /\ read.data \in Seq(Scribed)
          /\ Len(read.data) = Len(value.data) + Len(rest.data)
      BY <1>1, <2>1
    <2>4. 0 + Len(read.data) <= after.data
      <3>1. Len(value.data) \in Nat /\ Len(rest.data) \in Nat
        BY <1>1, <2>1
      <3>2. element.data \in Nat /\ after.data \in Nat
        BY DEF State
      <3>3. \A v, r, e, a \in Nat : 0 + v <= e /\ e + 0 + r <= a => 0 + (v + r) <= a
        OBVIOUS
      <3>4. 0 + (Len(value.data) + Len(rest.data)) <= after.data
        BY <1>1, <2>1, <3>1, <3>2, <3>3
      <3> QED
        BY <2>3, <3>4
    <2> QED
      BY <2>1, <2>2, <2>3, <2>4
  <1> QED
    BY <1>2 DEF Agrees

(* An element and the rest of its array on which the passes agree.         *)
LEMMA ElementJoins ==
    ASSUME NEW src \in Texts, NEW st \in State, st.dom = 0, st.data = 0,
           NEW element \in State, NEW value, ElementAgrees(src, st, element, value),
           element.ok, element.at <= Len(src),
           NEW after \in State, NEW rest,
           Agrees(src, element.dom + 0, element.data + 0, after, rest),
           NEW reads, NEW here, value = reads.value[here],
           rest = reads.elements[value.at][TRUE],
           NEW read, read = ElementRead(reads, here)
    PROVE  Agrees(src, 0, 0, after, read)
  <1>1. /\ read.at = rest.at
        /\ read.dom = ElementOfArray + Struct + value.dom + rest.dom
        /\ read.data = value.data \o rest.data
    BY DEF ElementRead, Done
  <1> QED
    BY <1>1, ElementSums, ZenonT(60)

ElementsCases(src, sizes, here, comma) ==
    LET c == At(src, here.at)
        next == ElementsSize(src, sizes, here, comma)
    IN  /\ ~here.ok \/ here.at >= Len(src) => next = Refused
        /\ here.ok /\ c = "]" => next = [here EXCEPT !.at = @ + 1]
        /\ here.ok /\ c \notin {"]", Outside} =>
              next = AfterElement(sizes, ElementSize(sizes, PastComma(src, here, comma)))

(* The first pass on the rest of an array, case by case.                   *)
LEMMA ElementsIs ==
    ASSUME NEW src \in Texts, NEW sizes, NEW here \in State, NEW comma
    PROVE  ElementsCases(src, sizes, here, comma)
  <1> DEFINE c == At(src, here.at)
             refused == ~here.ok \/ here.at >= Len(src)
             closed == here.ok /\ c = "]"
             open == here.ok /\ c \notin {"]", Outside}
             end == [here EXCEPT !.at = @ + 1]
             after == AfterElement(sizes, ElementSize(sizes, PastComma(src, here, comma)))
             next == ElementsSize(src, sizes, here, comma)
  <1>1. next = CASE refused -> Refused [] closed -> end [] open -> after
    BY DEF ElementsSize
  <1>2. here.at \in Nat
    BY DEF State
  <1>3. here.at >= Len(src) <=> c = Outside
    BY <1>2, OutsideText
  <1>4. ~(refused /\ closed) /\ ~(refused /\ open) /\ ~(closed /\ open)
    BY <1>3 DEF Outside
  <1> HIDE DEF c, refused, closed, open, end, after, next
  <1>5. /\ refused => next = Refused
        /\ closed => next = end
        /\ open => next = after
    BY <1>1, <1>4
  <1> QED
    BY <1>5 DEF ElementsCases, c, refused, closed, open, end, after, next

(* Nothing is skipped where there is no whitespace.                        *)
LEMMA NotBlank ==
    ASSUME NEW src \in Texts, NEW o \in Nat, At(src, o) \notin Space
    PROVE  json_skip_whitespace(src, o) = o
  <1>1. Outside \notin Space
    BY DEF Outside, Space
  <1>2. \A k \in o .. o - 1 : At(src, k) \in Space
    OBVIOUS
  <1> QED
    BY <1>1, <1>2, PastRunIs DEF json_skip_whitespace

(* Both read the rest of an array alike.                                   *)
LEMMA ElementsInStep ==
    ASSUME NEW src \in Texts, NEW sizes, NEW reads,
           Advancing(sizes), Lockstep(src, sizes, reads),
           NEW o \in Nat, NEW comma \in BOOLEAN
    PROVE  Agrees(src, 0, 0, ArraySize(src, sizes, Started(o), comma),
                             ArrayElements(src, reads, o, comma))
  <1> DEFINE here == json_skip_all_skippables(src, Started(o))
             first == PastComma(src, here, comma)
             element == ElementSize(sizes, first)
             after == AfterElement(sizes, element)
             size == ElementsSize(src, sizes, here, comma)
             there == json_skip_whitespace(src, o)
             start == BehindComma(src, there, comma)
             read == ArrayElements(src, reads, o, comma)
  <1>1. /\ here \in State
        /\ here.ok => here.at = there /\ here.dom = 0 /\ here.data = 0
    BY HereInStep
  <1>2. ArraySize(src, sizes, Started(o), comma) = size
    BY DEF ArraySize
  <1>3. read = ElementsFrom(src, reads, start)
    BY DEF ArrayElements
  <1>4. LoopCases(src, reads, start)
    BY LoopIs
  <1> HIDE DEF here
  <1>5. ElementsCases(src, sizes, here, comma)
    BY <1>1, ElementsIs
  <1>6. here.at \in Nat /\ Len(src) \in Nat
    BY <1>1 DEF State, Texts
  <1>7. CASE ~here.ok \/ here.at >= Len(src)
    <2>1. size = Refused
      BY <1>5, <1>7 DEF ElementsCases
    <2>2. Refused.ok = FALSE
      BY DEF Refused
    <2> QED
      BY <1>2, <2>1, <2>2 DEF Agrees
  <1>8. CASE here.ok /\ At(src, here.at) = "]"
    <2>1. start = here.at
      BY <1>1, <1>8 DEF BehindComma
    <2>2. read = Done(here.at + 1, 0, <<>>, <<>>)
      BY <1>3, <1>4, <1>8, <2>1 DEF LoopCases
    <2>3. Agrees(src, 0, 0, [here EXCEPT !.at = @ + 1], read)
      BY <1>1, <1>8, <2>2, ClosedInStep
    <2>4. size = [here EXCEPT !.at = @ + 1]
      BY <1>5, <1>8 DEF ElementsCases
    <2> QED
      BY <1>2, <2>3, <2>4
  <1>9. CASE here.ok /\ here.at < Len(src) /\ At(src, here.at) # "]"
    <2>1. size = after
      <3>1. At(src, here.at) # Outside
        BY <1>6, <1>9, OutsideText
      <3> QED
        BY <1>5, <1>9, <3>1 DEF ElementsCases
    <2>2. /\ first \in State
          /\ first.ok => /\ here.ok /\ first.dom = here.dom /\ first.data = here.data
                         /\ first.at = BehindComma(src, here.at, comma)
      BY <1>1, CommaInStep
    <2> HIDE DEF first
    <2> DEFINE value == reads.value[first.at]
    <2>3. element \in State /\ ElementAgrees(src, first, element, value)
      BY <2>2, ElementInStep
    <2> HIDE DEF element
    <2>4. element.at \in Nat /\ first.at \in Nat
      BY <2>2, <2>3 DEF State
    <2> DEFINE part == sizes.elements[element.at][TRUE]
               rest == reads.elements[element.at][TRUE]
    <2>5. after = Then(element, part)
      BY DEF AfterElement
    <2>6. /\ part \in State /\ (part.ok => part.at >= element.at + 1)
          /\ Agrees(src, 0, 0, part, rest)
      BY <2>4, CallsReturn DEF Lockstep
    <2> HIDE DEF part, after, value, read
    <2>7. /\ after \in State
          /\ after.ok => element.ok /\ part.ok /\ after.at = part.at
          /\ Agrees(src, element.dom + 0, element.data + 0, after, rest)
      <3>1. 0 \in Nat
        OBVIOUS
      <3> QED
        BY <2>3, <2>5, <2>6, <3>1, ThenAgrees, ThenState
    <2>8. ASSUME after.ok, after.at <= Len(src) PROVE Agrees(src, 0, 0, after, read)
      <3>1. element.ok /\ element.at <= Len(src)
        <4>1. after.at \in Nat
          BY <2>7 DEF State
        <4> QED
          BY <1>6, <2>4, <2>6, <2>7, <2>8, <4>1
      <3>2. /\ first.ok /\ element.at > first.at /\ value.at = element.at
            /\ At(src, json_skip_whitespace(src, first.at)) # "]"
        BY <2>3, <3>1 DEF ElementAgrees
      <3>3. first.dom = 0 /\ first.data = 0 /\ first.at = start
        BY <1>1, <2>2, <3>2
      <3>4. At(src, first.at) # Outside
        <4>1. ~(first.at >= Len(src))
          BY <1>6, <2>4, <3>1, <3>2
        <4> QED
          BY <2>4, <4>1, OutsideText
      <3>5. At(src, first.at) # "]"
        <4>1. "]" \notin Space
          BY DEF Space
        <4>2. At(src, first.at) = "]" => json_skip_whitespace(src, first.at) = first.at
          BY <2>4, <4>1, NotBlank
        <4> QED
          BY <3>2, <4>2
      <3> DEFINE place == first.at
      <3>6. read = ElementRead(reads, place)
        BY <1>3, <1>4, <3>3, <3>4, <3>5 DEF LoopCases, read
      <3>7. value = reads.value[place]
        BY DEF value
      <3>8. rest = reads.elements[value.at][TRUE]
        BY <3>2
      <3> HIDE DEF rest, place
      <3> QED
        BY <2>2, <2>3, <2>7, <3>1, <3>3, <3>6, <3>7, <3>8, ElementJoins
    <2>9. Agrees(src, 0, 0, after, read)
      BY <2>8 DEF Agrees
    <2> QED
      BY <1>2, <2>1, <2>9 DEF read
  <1> QED
    BY <1>6, <1>7, <1>8, <1>9

(* Behind the opening bracket both passes go on as the loop does.          *)
LEMMA OpenedInStep ==
    ASSUME NEW src \in Texts, NEW here \in State, NEW char, NEW part \in State, NEW rest,
           Agrees(src, 0, 0, part, rest), NEW size,
           size = Then(More(Expect(src, here, char), Struct, 0), part),
           NEW read, read.at = rest.at, read.dom = Struct + rest.dom, read.data = rest.data
    PROVE  Agrees(src, here.dom, here.data, size, read)
  <1> DEFINE behind == Expect(src, here, char)
             counted == More(behind, Struct, 0)
  <1>1. Struct \in Nat /\ 0 \in Nat /\ here.dom \in Nat /\ here.data \in Nat
    BY DEF Struct, State
  <1>2. /\ behind \in State
        /\ behind.ok => behind.dom = here.dom /\ behind.data = here.data
    BY ExpectState
  <1> HIDE DEF behind
  <1>3. /\ counted \in State /\ (counted.ok <=> behind.ok)
        /\ behind.ok => counted.dom = behind.dom + Struct /\ counted.data = behind.data + 0
    <2>1. Struct \in Nat /\ 0 \in Nat
      BY <1>1
    <2> QED
      BY <1>2, <2>1, MoreState
  <1>4. size = Then(counted, part)
    BY DEF counted, behind
  <1> HIDE DEF counted
  <1>5. Agrees(src, counted.dom + 0, counted.data + 0, size, rest)
    <2>1. 0 \in Nat
      OBVIOUS
    <2> QED
      BY <1>3, <1>4, <2>1, ThenAgrees
  <1>6. size \in State /\ (size.ok => counted.ok)
    BY <1>3, <1>4, ThenState
  <1>7. ASSUME size.ok, size.at <= Len(src)
        PROVE  /\ read.at = size.at
               /\ read.dom \in Nat /\ size.dom = here.dom + read.dom
               /\ read.data \in Seq(Scribed) /\ here.data + Len(read.data) <= size.data
    <2>1. /\ rest.at = size.at
          /\ rest.dom \in Nat /\ size.dom = counted.dom + 0 + rest.dom
          /\ rest.data \in Seq(Scribed) /\ counted.data + 0 + Len(rest.data) <= size.data
      BY <1>5, <1>7 DEF Agrees
    <2>2. counted.dom = here.dom + Struct /\ counted.data = here.data + 0
      BY <1>2, <1>3, <1>6, <1>7
    <2>3. read.dom \in Nat /\ size.dom = here.dom + read.dom
      <3>1. size.dom = here.dom + Struct + 0 + rest.dom
        BY <2>1, <2>2
      <3> QED
        BY <1>1, <2>1, <3>1
    <2>4. here.data + Len(read.data) <= size.data
      <3>1. Len(rest.data) \in Nat /\ size.data \in Nat
        BY <1>6, <2>1 DEF State
      <3>2. \A d, r, s \in Nat : d + 0 + 0 + r <= s => d + r <= s
        OBVIOUS
      <3>3. here.data + 0 + 0 + Len(rest.data) <= size.data
        BY <2>1, <2>2
      <3>4. here.data + Len(rest.data) <= size.data
        BY <1>1, <3>1, <3>2, <3>3
      <3> QED
        BY <3>4
    <2> QED
      BY <2>1, <2>3, <2>4
  <1> QED
    BY <1>7 DEF Agrees

(* ValueRead, one case a line.                                             *)
ValueReadCases(src, reads, here) ==
    LET c == At(src, here)
        next == ValueRead(src, reads, here)
    IN  /\ c = "\"" => next = json_parse_string(reads, here)
        /\ c = "{" => next = json_parse_object(reads, here)
        /\ c = "[" => next = json_parse_array(reads, here)
        /\ c \in Digit \cup {"-"} => next = json_parse_number(src, here)
        /\ c \in {"t", "f", "n"} => next = WordRead(here, Word(src, here))

(* The second pass on a value, case by case.                               *)
LEMMA ValueReadIs ==
    ASSUME NEW src, NEW reads, NEW here
    PROVE  ValueReadCases(src, reads, here)
  <1> DEFINE c == At(src, here)
             number == Digit \cup {"-", "+", "."}
             str == json_parse_string(reads, here)
             obj == json_parse_object(reads, here)
             arr == json_parse_array(reads, here)
             num == json_parse_number(src, here)
             word == WordRead(here, Word(src, here))
             next == ValueRead(src, reads, here)
  <1>1. next = CASE c = "\"" -> str
                 [] c = "{" -> obj
                 [] c = "[" -> arr
                 [] c \in number -> num
                 [] OTHER -> word
    BY DEF ValueRead
  <1>2. /\ "\"" \notin number /\ "{" \notin number /\ "[" \notin number
        /\ "\"" # "{" /\ "\"" # "[" /\ "{" # "["
    BY DEF Digit
  <1>3. /\ c \in Digit \cup {"-"} => c \in number
        /\ c \in {"t", "f", "n"} => /\ c # "\"" /\ c # "{" /\ c # "["
                                    /\ c \notin number
    BY DEF Digit
  <1> HIDE DEF c, number, str, obj, arr, num, word, next
  <1>4. /\ c = "\"" => next = str
        /\ c = "{" => next = obj
        /\ c = "[" => next = arr
        /\ c \in number => next = num
    BY <1>1, <1>2
  <1>5. c # "\"" /\ c # "{" /\ c # "[" /\ c \notin number => next = word
    BY <1>1
  <1> QED
    BY <1>3, <1>4, <1>5 DEF ValueReadCases, c, str, obj, arr, num, word, next

(* Both take the same characters for a number.                             *)
LEMMA NumberInStep ==
    ASSUME NEW src \in Texts, NEW here \in State, here.ok,
           At(src, here.at) \in Digit \cup {"-"}
    PROVE  Agrees(src, here.dom, here.data, json_get_number_size(src, here),
                                            json_parse_number(src, here.at))
  <1> DEFINE size == json_get_number_size(src, here)
             start == here.at
             end == PastRun(src, start, NumberChars)
             chars == SubSeq(src, start + 1, end)
             read == json_parse_number(src, start)
  <1>1. start \in Nat /\ here.dom \in Nat /\ here.data \in Nat /\ Struct \in Nat
    BY DEF State, Struct
  <1>2. /\ size \in From(start + 1)
        /\ size.ok => /\ size.dom = here.dom + Struct
                      /\ size.data = here.data + (size.at - start + 1)
        /\ size.ok /\ size.at <= Len(src) => end = size.at
    BY NumberState
  <1>3. read.at = end /\ read.dom = Struct /\ read.data = Append(chars, Nul)
    BY DEF json_parse_number, Done, NumberChars
  <1> HIDE DEF size, start, end, read
  <1>4. ASSUME size.ok, size.at <= Len(src)
        PROVE  /\ read.at = size.at
               /\ read.dom \in Nat /\ size.dom = here.dom + read.dom
               /\ read.data \in Seq(Scribed) /\ here.data + Len(read.data) <= size.data
    <2>1. /\ end = size.at /\ end \in Nat /\ end >= start + 1 /\ end <= Len(src)
          /\ size.data = here.data + (end - start + 1)
      BY <1>2, <1>4 DEF From, State
    <2>2. chars \in Seq(Scribed) /\ Len(chars) = end - start
      <3>1. src \in Seq(Scribed)
        BY DEF Texts, Scribed
      <3>2. start + 1 \in Nat /\ Len(src) \in Nat
        BY <1>1 DEF Texts
      <3> QED
        BY <1>1, <2>1, <3>1, <3>2
    <2>3. Nul \in Scribed
      BY DEF Scribed
    <2> HIDE DEF chars
    <2>4. read.data \in Seq(Scribed) /\ Len(read.data) = end - start + 1
      BY <1>3, <2>2, <2>3
    <2> QED
      BY <1>1, <1>2, <1>3, <1>4, <2>1, <2>4
  <1> QED
    BY <1>4 DEF Agrees, size, read, start

(* Both read true, false and null alike.                                   *)
LEMMA WordInStep ==
    ASSUME NEW src \in Texts, NEW here \in State, here.ok
    PROVE  LET size == PastWord(here, Word(src, here.at))
           IN  /\ size.ok => At(src, here.at) \in {"t", "f", "n"}
               /\ Agrees(src, here.dom, here.data, size, WordRead(here.at, Word(src, here.at)))
  <1> DEFINE w == Word(src, here.at)
             size == PastWord(here, w)
             read == WordRead(here.at, w)
             len == Len(WordText[w])
  <1>1. here.at \in Nat /\ here.dom \in Nat /\ here.data \in Nat
    BY DEF State
  <1>2. \/ w = ""
        \/ At(src, here.at) \in {"t", "f", "n"} /\ len \in Nat \ {0}
    BY <1>1, WordStarts
  <1> HIDE DEF w
  <1>3. CASE w = ""
    <2>1. size = Refused
      BY <1>3 DEF PastWord
    <2>2. ~size.ok
      BY <2>1 DEF Refused
    <2> QED
      BY <2>2 DEF Agrees, w
  <1>4. CASE w # "" /\ At(src, here.at) \in {"t", "f", "n"} /\ len \in Nat \ {0}
    <2>1. size = [here EXCEPT !.at = @ + len]
      BY <1>4 DEF PastWord
    <2>2. read = Done(here.at + len, 0, <<>>, [type |-> w])
      BY <1>4 DEF WordRead
    <2>7. len \in Nat
      BY <1>4
    <2> HIDE DEF len, size, read
    <2>3. here.at + len \in Nat
      BY <1>1, <2>7
    <2>4. /\ size.at = here.at + len /\ size.dom = here.dom /\ size.data = here.data
      BY <2>1, <2>3, MovedState
    <2>5. /\ read.at = here.at + len /\ read.dom = 0 /\ read.data \in Seq(Scribed)
          /\ Len(read.data) = 0
      BY <2>2 DEF Done
    <2>6. Agrees(src, here.dom, here.data, size, read)
      BY <1>1, <2>4, <2>5 DEF Agrees
    <2> QED
      BY <1>4, <2>6 DEF size, read, w
  <1> QED
    BY <1>2, <1>3, <1>4

(* Both read an object and an array alike.                                 *)
LEMMA ObjectInStep ==
    ASSUME NEW src \in Texts, NEW sizes, NEW reads,
           Advancing(sizes), Lockstep(src, sizes, reads),
           NEW here \in State, here.ok
    PROVE  /\ At(src, here.at) = "{" =>
                 Agrees(src, here.dom, here.data, json_get_object_size(src, sizes, here),
                                                  json_parse_object(reads, here.at))
           /\ At(src, here.at) = "[" =>
                 Agrees(src, here.dom, here.data, json_get_array_size(src, sizes, here),
                                                  json_parse_array(reads, here.at))
  <1> DEFINE place == here.at + 1
             counted(char) == More(Expect(src, here, char), Struct, 0)
             members == sizes.members[place][FALSE]
             elements == sizes.elements[place][FALSE]
             readMembers == reads.members[place][FALSE]
             readElements == reads.elements[place][FALSE]
             object == json_parse_object(reads, here.at)
             array == json_parse_array(reads, here.at)
  <1>1. place \in Nat /\ FALSE \in BOOLEAN
    BY DEF State
  <1>2. ASSUME NEW char, At(src, here.at) = char PROVE counted(char).at = place
    <2> DEFINE behind == Expect(src, here, char)
    <2>1. behind \in State /\ (behind.ok <=> here.ok /\ At(src, here.at) = char)
          /\ (behind.ok => behind.at = place)
      BY ExpectState
    <2> HIDE DEF behind, place
    <2>2. Struct \in Nat /\ 0 \in Nat
      BY DEF Struct
    <2>3. More(behind, Struct, 0).at = behind.at
      BY <1>2, <2>1, <2>2, MoreState
    <2> QED
      BY <1>2, <2>1, <2>3 DEF behind
  <1>3. /\ members \in State /\ elements \in State
        /\ Agrees(src, 0, 0, members, readMembers)
        /\ Agrees(src, 0, 0, elements, readElements)
    BY <1>1, CallsReturn DEF Lockstep
  <1>4. /\ object.at = readMembers.at /\ object.dom = Struct + readMembers.dom
        /\ object.data = readMembers.data
    BY DEF json_parse_object, Done
  <1>5. /\ array.at = readElements.at /\ array.dom = Struct + readElements.dom
        /\ array.data = readElements.data
    BY DEF json_parse_array, Done
  <1>6. ASSUME At(src, here.at) = "{"
        PROVE  Agrees(src, here.dom, here.data, json_get_object_size(src, sizes, here), object)
    <2> DEFINE size == json_get_object_size(src, sizes, here)
    <2>1. size = Then(counted("{"), members)
      BY <1>2, <1>6 DEF json_get_object_size
    <2> HIDE DEF members, readMembers, object, size
    <2> QED
      BY <1>3, <1>4, <2>1, OpenedInStep DEF size
  <1>7. ASSUME At(src, here.at) = "["
        PROVE  Agrees(src, here.dom, here.data, json_get_array_size(src, sizes, here), array)
    <2> DEFINE size == json_get_array_size(src, sizes, here)
    <2>1. size = Then(counted("["), elements)
      BY <1>2, <1>7 DEF json_get_array_size
    <2> HIDE DEF elements, readElements, array, size
    <2> QED
      BY <1>3, <1>5, <2>1, OpenedInStep DEF size
  <1> QED
    BY <1>6, <1>7

(* Both read a value alike, and none begins with a bracket that closes.    *)
LEMMA ValueInStep ==
    ASSUME NEW src \in Texts, NEW sizes, NEW reads,
           Advancing(sizes), Lockstep(src, sizes, reads), NEW o \in Nat
    PROVE  LET size == json_get_value_size(src, sizes, Started(o))
           IN  /\ Agrees(src, Struct, 0, size, json_parse_value(src, reads, o))
               /\ size.ok => At(src, json_skip_whitespace(src, o)) # "]"
  <1> DEFINE before == json_skip_all_skippables(src, Started(o))
             here == More(before, Struct, 0)
             there == json_skip_whitespace(src, o)
             size == ValueSize(src, sizes, here)
             read == ValueRead(src, reads, there)
             c == At(src, there)
  <1>1. /\ before \in State
        /\ before.ok => before.at = there /\ before.dom = 0 /\ before.data = 0
    BY HereInStep
  <1> HIDE DEF before
  <1>2. Struct \in Nat /\ 0 \in Nat
    BY DEF Struct
  <1>3. /\ here \in State /\ (here.ok <=> before.ok)
        /\ before.ok => /\ here.at = before.at /\ here.dom = before.dom + Struct
                        /\ here.data = before.data + 0
    BY <1>1, <1>2, MoreState
  <1>4. /\ json_get_value_size(src, sizes, Started(o)) = size
        /\ json_parse_value(src, reads, o) = read
    BY DEF json_get_value_size, json_parse_value, before
  <1>5. ValueSizeCases(src, sizes, here) /\ ValueReadCases(src, reads, there)
    BY ValueSizeIs, ValueReadIs
  <1> HIDE DEF here, there
  <1>6. here.ok => here.at = there /\ here.dom = Struct /\ here.data = 0
    BY <1>1, <1>2, <1>3
  <1>7. here.at \in Nat
    BY <1>3 DEF State
  <1> HIDE DEF size, read
  <1>8. /\ Agrees(src, Struct, 0, size, read)
        /\ size.ok => c # "]"
    <2>1. CASE ~here.ok
      <3>1. size = Refused
        BY <1>5, <2>1 DEF ValueSizeCases, size
      <3>2. ~size.ok
        BY <3>1 DEF Refused
      <3> QED
        BY <3>2 DEF Agrees
    <2>2. CASE here.ok /\ c = "\""
      <3>1. size = json_get_string_size(src, sizes, here)
        BY <1>5, <1>6, <2>2 DEF ValueSizeCases, size
      <3>2. read = json_parse_string(reads, here.at)
        BY <1>5, <1>6, <2>2 DEF ValueReadCases, read
      <3>3. Agrees(src, here.dom, here.data, size, read)
        BY <1>3, <3>1, <3>2, StringInStep
      <3> QED
        BY <1>6, <2>2, <3>3
    <2>3. CASE here.ok /\ c = "{"
      <3>1. size = json_get_object_size(src, sizes, here)
        BY <1>5, <1>6, <2>3 DEF ValueSizeCases, size
      <3>2. read = json_parse_object(reads, here.at)
        BY <1>5, <1>6, <2>3 DEF ValueReadCases, read
      <3>3. Agrees(src, here.dom, here.data, size, read)
        BY <1>3, <1>6, <2>3, <3>1, <3>2, ObjectInStep
      <3> QED
        BY <1>6, <2>3, <3>3
    <2>4. CASE here.ok /\ c = "["
      <3>1. size = json_get_array_size(src, sizes, here)
        BY <1>5, <1>6, <2>4 DEF ValueSizeCases, size
      <3>2. read = json_parse_array(reads, here.at)
        BY <1>5, <1>6, <2>4 DEF ValueReadCases, read
      <3>3. Agrees(src, here.dom, here.data, size, read)
        BY <1>3, <1>6, <2>4, <3>1, <3>2, ObjectInStep
      <3> QED
        BY <1>6, <2>4, <3>3
    <2>5. CASE here.ok /\ c \in Digit \cup {"-"}
      <3>1. size = json_get_number_size(src, here)
        BY <1>5, <1>6, <2>5 DEF ValueSizeCases, size
      <3>2. read = json_parse_number(src, here.at)
        BY <1>5, <1>6, <2>5 DEF ValueReadCases, read
      <3>3. Agrees(src, here.dom, here.data, size, read)
        BY <1>3, <1>6, <2>5, <3>1, <3>2, NumberInStep
      <3>4. "]" \notin Digit \cup {"-"}
        BY DEF Digit
      <3> QED
        BY <1>6, <2>5, <3>3, <3>4
    <2>6. CASE here.ok /\ c \notin {"\"", "{", "["} /\ c \notin Digit \cup {"-"}
      <3> DEFINE w == Word(src, here.at)
      <3>1. size = PastWord(here, w)
        BY <1>5, <1>6, <2>6 DEF ValueSizeCases, size
      <3>2. /\ size.ok => c \in {"t", "f", "n"}
            /\ Agrees(src, here.dom, here.data, size, WordRead(here.at, w))
        BY <1>3, <1>6, <2>6, <3>1, WordInStep
      <3>3. ASSUME size.ok PROVE read = WordRead(here.at, w)
        BY <1>5, <1>6, <2>6, <3>2, <3>3 DEF ValueReadCases, read
      <3>4. ASSUME size.ok PROVE Agrees(src, Struct, 0, size, read)
        BY <1>6, <2>6, <3>2, <3>3, <3>4
      <3>5. Agrees(src, Struct, 0, size, read)
        BY <3>4 DEF Agrees
      <3> QED
        BY <3>2, <3>5
    <2> QED
      BY <2>1, <2>2, <2>3, <2>4, <2>5, <2>6
  <1> QED
    BY <1>4, <1>8 DEF there

(* Passes in step are in step a turn later.                                *)
LEMMA TurnInStep ==
    ASSUME NEW src \in Texts, NEW sizes, NEW reads,
           Advancing(sizes), Lockstep(src, sizes, reads)
    PROVE  Lockstep(src, SizeTurn(src, sizes), ReadTurn(src, reads))
  <1> DEFINE size == SizeTurn(src, sizes)
             read == ReadTurn(src, reads)
  <1>1. ASSUME NEW o \in Nat, NEW high \in Nat
        PROVE  StringAgrees(src, size.string[o][high], read.string[o][high])
    <2>1. /\ size.string[o][high] = StringSize(src, sizes.string, o, high)
          /\ read.string[o][high] = StringText(src, reads.string, o, high)
      BY DEF SizeTurn, ReadTurn
    <2>2. \A p, h \in Nat : /\ sizes.string[p][h] \in State
                            /\ StringAgrees(src, sizes.string[p][h], reads.string[p][h])
      BY CallsReturn DEF Lockstep
    <2> DEFINE s == sizes.string
               r == reads.string
    <2>3. StringAgrees(src, StringSize(src, s, o, high), StringText(src, r, o, high))
      <3>1. \A p, h \in Nat : s[p][h] \in State /\ StringAgrees(src, s[p][h], r[p][h])
        BY <2>2
      <3> HIDE DEF s, r
      <3> QED
        BY <3>1, StringsInStep
    <2> QED
      BY <2>1, <2>3
  <1>2. ASSUME NEW o \in Nat
        PROVE  /\ Agrees(src, Struct, 0, size.value[o], read.value[o])
               /\ size.value[o].ok => At(src, json_skip_whitespace(src, o)) # "]"
    <2>1. /\ size.value[o] = json_get_value_size(src, sizes, Started(o))
          /\ read.value[o] = json_parse_value(src, reads, o)
      BY DEF SizeTurn, ReadTurn
    <2> QED
      BY <2>1, ValueInStep
  <1>3. ASSUME NEW o \in Nat, NEW comma \in BOOLEAN
        PROVE  /\ Agrees(src, 0, 0, size.members[o][comma], read.members[o][comma])
               /\ Agrees(src, 0, 0, size.elements[o][comma], read.elements[o][comma])
    <2>1. /\ size.members[o][comma] = ObjectSize(src, sizes, Started(o), comma)
          /\ read.members[o][comma] = ObjectMembers(src, reads, o, comma)
          /\ size.elements[o][comma] = ArraySize(src, sizes, Started(o), comma)
          /\ read.elements[o][comma] = ArrayElements(src, reads, o, comma)
      BY DEF SizeTurn, ReadTurn
    <2> QED
      BY <2>1, MembersInStep, ElementsInStep
  <1> HIDE DEF size, read
  <1>4. Lockstep(src, size, read)
    BY <1>1, <1>2, <1>3 DEF Lockstep
  <1> QED
    BY <1>4 DEF size, read

(* The two passes are in step, whatever the number of turns.               *)
LEMMA PassesInStep ==
    ASSUME NEW src \in Texts, NEW n \in Nat
    PROVE  Lockstep(src, Sizing(src)[n], Reading(src)[n])
  <1> DEFINE S == {k \in Nat : Lockstep(src, Sizing(src)[k], Reading(src)[k])}
  <1>1. 0 \in S
    <2>1. Sizing(src)[0] = NoSizes /\ Reading(src)[0] = NoReads
      BY SizingTurns, ReadingTurns
    <2>2. ~Refused.ok
      BY DEF Refused
    <2>3. Lockstep(src, NoSizes, NoReads)
      BY <2>2 DEF Lockstep, StringAgrees, Agrees, NoSizes
    <2> QED
      BY <2>1, <2>3
  <1>2. ASSUME NEW k \in S PROVE k + 1 \in S
    <2>1. /\ Sizing(src)[k + 1] = SizeTurn(src, Sizing(src)[k])
          /\ Reading(src)[k + 1] = ReadTurn(src, Reading(src)[k])
      BY SizingTurns, ReadingTurns
    <2>2. Advancing(Sizing(src)[k])
      BY SizingAdvances
    <2>3. Lockstep(src, SizeTurn(src, Sizing(src)[k]), ReadTurn(src, Reading(src)[k]))
      BY <2>2, TurnInStep
    <2> QED
      BY <2>1, <2>3
  <1> HIDE DEF S
  <1>3. S = Nat
    BY <1>1, <1>2, AllNaturals DEF S
  <1> QED
    BY <1>3 DEF S
-----------------------------------------------------------------------------
(* The first pass ends.  Two turns that were given the same calls from     *)
(* `o' on make the same of what lies before: a value needs parts from      *)
(* behind its first character, a part needs values from `o' on as well.    *)

SameValues(a, b, o) == \A p \in Nat : p >= o => a.value[p] = b.value[p]

SameParts(a, b, o) ==
    /\ \A p, high \in Nat : p >= o => a.string[p][high] = b.string[p][high]
    /\ \A p \in Nat, comma \in BOOLEAN :
          p >= o => /\ a.members[p][comma] = b.members[p][comma]
                    /\ a.elements[p][comma] = b.elements[p][comma]

(* The rest of a string depends on what is behind its first character      *)
(* only.                                                                   *)
LEMMA StringSame ==
    ASSUME NEW src \in Texts, NEW a, NEW b, NEW o \in Nat, NEW high \in Nat,
           SameParts(a, b, o + 1)
    PROVE  StringSize(src, a.string, o, high) = StringSize(src, b.string, o, high)
  <1> DEFINE c == At(src, o)
             escape == At(src, o + 1)
             codepoint == json_hexadecimal_value(src, o + 2)
             left == StringSize(src, a.string, o, high)
             right == StringSize(src, b.string, o, high)
  <1>1. /\ a.string[o + 1][high] = b.string[o + 1][high]
        /\ a.string[o + 2][high] = b.string[o + 2][high]
    BY DEF SameParts
  <1>2. UnicodeSize(src, a.string, o + 1, high, codepoint) =
           UnicodeSize(src, b.string, o + 1, high, codepoint)
    <2>1. Waiting(codepoint) \in Nat
      BY HexValue, WaitingHalf
    <2>2. o + 1 + 5 \in Nat /\ o + 1 + 5 >= o + 1
      OBVIOUS
    <2>3. a.string[o + 1 + 5][Waiting(codepoint)] = b.string[o + 1 + 5][Waiting(codepoint)]
      BY <2>1, <2>2 DEF SameParts
    <2> QED
      BY <2>3 DEF UnicodeSize
  <1>3. StringSizeCases(src, a.string, o, high) /\ StringSizeCases(src, b.string, o, high)
    BY StringSizeIs
  <1>4. CASE c = "\""
    BY <1>3, <1>4 DEF StringSizeCases
  <1>5. CASE c \in Breaks
    BY <1>3, <1>5 DEF StringSizeCases
  <1>6. CASE c = "\\" /\ escape \in Escapes
    BY <1>1, <1>3, <1>6 DEF StringSizeCases
  <1>7. CASE c = "\\" /\ escape = "u"
    BY <1>2, <1>3, <1>7 DEF StringSizeCases
  <1>8. CASE c = "\\" /\ escape \notin Escapes /\ escape # "u"
    BY <1>3, <1>8 DEF StringSizeCases
  <1>9. CASE c \notin Breaks /\ c # "\"" /\ c # "\\"
    BY <1>1, <1>3, <1>9 DEF StringSizeCases
  <1> QED
    BY <1>4, <1>5, <1>6, <1>7, <1>8, <1>9

(* So does a string with its quotes.                                       *)
LEMMA GetStringSame ==
    ASSUME NEW src \in Texts, NEW a, NEW b, NEW o \in Nat, SameParts(a, b, o + 1),
           NEW st \in From(o)
    PROVE  json_get_string_size(src, a, st) = json_get_string_size(src, b, st)
  <1>1. st.at \in Nat /\ (st.ok => st.at >= o)
    BY DEF From, State
  <1>2. st.ok => a.string[st.at + 1][0] = b.string[st.at + 1][0]
    <2> SUFFICES ASSUME st.ok PROVE a.string[st.at + 1][0] = b.string[st.at + 1][0]
      OBVIOUS
    <2>1. st.at + 1 \in Nat /\ st.at + 1 >= o + 1 /\ 0 \in Nat
      BY <1>1
    <2> QED
      BY <2>1 DEF SameParts
  <1> QED
    BY <1>2 DEF json_get_string_size

(* A member depends on the values from its own offset on, and on the       *)
(* other parts behind.                                                     *)
LEMMA MemberSame ==
    ASSUME NEW src \in Texts, NEW a, NEW b, NEW o \in Nat, Advancing(a),
           SameValues(a, b, o), SameParts(a, b, o + 1), NEW st \in From(o)
    PROVE  MemberSize(src, a, st) = MemberSize(src, b, st)
  <1> DEFINE key == json_get_string_size(src, a, st)
             colon == Expect(src, json_skip_all_skippables(src, key), ":")
             value == json_skip_all_skippables(src, colon)
             counted == More(value, ElementOfObject, 0)
  <1>1. o + 1 \in Nat /\ o + 1 + 1 \in Nat /\ ElementOfObject \in Nat /\ 0 \in Nat
    BY DEF ElementOfObject
  <1>2. key = json_get_string_size(src, b, st)
    BY GetStringSame
  <1>3. /\ MemberSize(src, a, st) = Then(counted, a.value[value.at])
        /\ MemberSize(src, b, st) = Then(counted, b.value[value.at])
    BY <1>2 DEF MemberSize
  <1>4. key \in From(o + 1)
    BY GetStringAdvances
  <1> HIDE DEF key
  <1>5. json_skip_all_skippables(src, key) \in From(o + 1)
    BY <1>1, <1>4, FromStep
  <1>6. colon \in From(o + 1 + 1)
    BY <1>1, <1>5, FromStep
  <1> HIDE DEF colon
  <1>7. value \in From(o + 1 + 1)
    BY <1>1, <1>6, FromStep
  <1> HIDE DEF value
  <1>8. value \in State /\ value.at \in Nat /\ (value.ok => value.at >= o)
    BY <1>7 DEF From, State
  <1>9. CASE value.ok
    BY <1>3, <1>8, <1>9 DEF SameValues
  <1>10. CASE ~value.ok
    <2>1. ~counted.ok
      BY <1>1, <1>8, <1>10, MoreState
    <2> QED
      BY <1>3, <2>1 DEF Then
  <1> QED
    BY <1>9, <1>10

(* The comma does not take an offset back.                                 *)
LEMMA CommaAdvances ==
    ASSUME NEW src \in Texts, NEW o \in Nat, NEW here \in From(o), NEW comma \in BOOLEAN
    PROVE  PastComma(src, here, comma) \in From(o)
  <1>1. o + 1 \in Nat /\ o <= o + 1
    OBVIOUS
  <1>2. Expect(src, here, ",") \in From(o + 1)
    BY FromStep
  <1>3. json_skip_all_skippables(src, Expect(src, here, ",")) \in From(o + 1)
    BY <1>1, <1>2, FromStep
  <1>4. json_skip_all_skippables(src, Expect(src, here, ",")) \in From(o)
    BY <1>1, <1>3, FromStep
  <1> QED
    BY <1>4 DEF PastComma

(* The rest of an object depends on the same, for its first member begins  *)
(* no earlier.                                                             *)
LEMMA ObjectSame ==
    ASSUME NEW src \in Texts, NEW a, NEW b, NEW o \in Nat, Advancing(a),
           SameValues(a, b, o), SameParts(a, b, o + 1), NEW comma \in BOOLEAN
    PROVE  ObjectSize(src, a, Started(o), comma) = ObjectSize(src, b, Started(o), comma)
  <1> DEFINE here == json_skip_all_skippables(src, Started(o))
             first == PastComma(src, here, comma)
             member == MemberSize(src, a, first)
  <1>1. here \in From(o)
    BY FromStart, FromStep
  <1> HIDE DEF here
  <1>2. first \in From(o)
    BY <1>1, CommaAdvances
  <1> HIDE DEF first
  <1>3. member = MemberSize(src, b, first)
    BY <1>2, MemberSame
  <1>4. member \in From(o + 1)
    BY <1>2, MemberAdvances
  <1> DEFINE closed == here.ok /\ At(src, here.at) = "}"
             behind == [here EXCEPT !.at = @ + 1]
  <1>5. /\ ObjectSize(src, a, Started(o), comma) =
              IF closed THEN behind ELSE AfterMember(src, a, member)
        /\ ObjectSize(src, b, Started(o), comma) =
              IF closed THEN behind ELSE AfterMember(src, b, member)
    BY <1>3 DEF ObjectSize, MembersSize, here, first
  <1> HIDE DEF closed, behind
  <1> HIDE DEF member
  <1>6. member \in State /\ member.at \in Nat /\ (member.ok => member.at >= o + 1)
    BY <1>4 DEF From, State
  <1>7. AfterMember(src, a, member) = AfterMember(src, b, member)
    <2>1. AfterMemberCases(src, a, member) /\ AfterMemberCases(src, b, member)
      BY <1>6, AfterMemberIs
    <2>2. Len(src) \in Nat
      BY DEF Texts
    <2>3. CASE ~member.ok \/ member.at = Len(src)
      BY <2>1, <2>3 DEF AfterMemberCases
    <2>4. CASE member.ok /\ member.at > Len(src)
      BY <2>1, <2>4 DEF AfterMemberCases
    <2>5. CASE member.ok /\ member.at < Len(src)
      <3>1. a.members[member.at][TRUE] = b.members[member.at][TRUE]
        BY <1>6, <2>5 DEF SameParts
      <3> QED
        BY <2>1, <2>5, <3>1 DEF AfterMemberCases
    <2> QED
      BY <1>6, <2>2, <2>3, <2>4, <2>5
  <1> QED
    BY <1>5, <1>7

(* The rest of an array likewise.                                          *)
LEMMA ArraySame ==
    ASSUME NEW src \in Texts, NEW a, NEW b, NEW o \in Nat, Advancing(a),
           SameValues(a, b, o), SameParts(a, b, o + 1), NEW comma \in BOOLEAN
    PROVE  ArraySize(src, a, Started(o), comma) = ArraySize(src, b, Started(o), comma)
  <1> DEFINE here == json_skip_all_skippables(src, Started(o))
             first == PastComma(src, here, comma)
             counted == More(first, ElementOfArray, 0)
             element == ElementSize(a, first)
  <1>1. here \in From(o)
    BY FromStart, FromStep
  <1> HIDE DEF here
  <1>2. first \in From(o)
    BY <1>1, CommaAdvances
  <1> HIDE DEF first
  <1>3. first \in State /\ first.at \in Nat /\ (first.ok => first.at >= o)
        /\ ElementOfArray \in Nat /\ 0 \in Nat
    BY <1>2 DEF From, State, ElementOfArray
  <1>4. /\ element = ElementSize(b, first)
        /\ element \in State
        /\ element.ok => element.at >= o + 1
    <2>1. /\ ElementSize(a, first) = Then(counted, a.value[first.at])
          /\ ElementSize(b, first) = Then(counted, b.value[first.at])
      BY DEF ElementSize
    <2>2. a.value[first.at] \in From(first.at + 1)
      BY <1>3 DEF Advancing
    <2>3. a.value[first.at] \in State /\ a.value[first.at].at \in Nat
          /\ (a.value[first.at].ok => a.value[first.at].at >= first.at + 1)
      BY <2>2 DEF From, State
    <2>4. counted \in State /\ (counted.ok <=> first.ok)
      BY <1>3, MoreState
    <2> HIDE DEF counted
    <2>5. CASE first.ok
      <3>1. a.value[first.at] = b.value[first.at]
        BY <1>3, <2>5 DEF SameValues
      <3>2. /\ Then(counted, a.value[first.at]) \in State
            /\ Then(counted, a.value[first.at]).ok =>
                  /\ a.value[first.at].ok
                  /\ Then(counted, a.value[first.at]).at = a.value[first.at].at
        BY <2>3, <2>4, ThenState
      <3> QED
        BY <1>3, <2>1, <2>3, <2>5, <3>1, <3>2
    <2>6. CASE ~first.ok
      <3>1. ElementSize(a, first) = Refused /\ ElementSize(b, first) = Refused
        BY <2>1, <2>4, <2>6 DEF Then
      <3> QED
        BY <3>1, StartState
    <2> QED
      BY <2>5, <2>6
  <1>5. /\ ArraySize(src, a, Started(o), comma) =
              CASE ~here.ok \/ here.at >= Len(src) -> Refused
                [] here.ok /\ At(src, here.at) = "]" -> [here EXCEPT !.at = @ + 1]
                [] here.ok /\ At(src, here.at) \notin {"]", Outside} -> AfterElement(a, element)
        /\ ArraySize(src, b, Started(o), comma) =
              CASE ~here.ok \/ here.at >= Len(src) -> Refused
                [] here.ok /\ At(src, here.at) = "]" -> [here EXCEPT !.at = @ + 1]
                [] here.ok /\ At(src, here.at) \notin {"]", Outside} -> AfterElement(b, element)
    BY <1>4 DEF ArraySize, ElementsSize, here, first
  <1> HIDE DEF element
  <1>6. AfterElement(a, element) = AfterElement(b, element)
    <2>1. CASE element.ok
      <3>1. element.at \in Nat
        BY <1>4 DEF State
      <3>2. a.elements[element.at][TRUE] = b.elements[element.at][TRUE]
        BY <1>4, <2>1, <3>1 DEF SameParts
      <3> QED
        BY <3>2 DEF AfterElement
    <2>2. CASE ~element.ok
      BY <2>2 DEF AfterElement, Then
    <2> QED
      BY <2>1, <2>2
  <1> QED
    BY <1>5, <1>6

(* An object and an array depend on what is behind their bracket.          *)
LEMMA BracketSame ==
    ASSUME NEW src \in Texts, NEW a, NEW b, NEW o \in Nat, SameParts(a, b, o + 1),
           NEW st \in From(o)
    PROVE  /\ json_get_object_size(src, a, st) = json_get_object_size(src, b, st)
           /\ json_get_array_size(src, a, st) = json_get_array_size(src, b, st)
  <1>1. ASSUME NEW char
        PROVE  LET opened == More(Expect(src, st, char), Struct, 0)
               IN  opened.ok => opened.at \in Nat /\ opened.at >= o + 1
    <2> DEFINE opened == More(Expect(src, st, char), Struct, 0)
    <2>1. o + 1 \in Nat /\ Struct \in Nat /\ 0 \in Nat
      BY DEF Struct
    <2>2. Expect(src, st, char) \in From(o + 1)
      BY FromStep
    <2>3. opened \in From(o + 1)
      BY <2>1, <2>2, FromStep
    <2> HIDE DEF opened
    <2>4. opened.ok => opened.at \in Nat /\ opened.at >= o + 1
      BY <2>3 DEF From, State
    <2> QED
      BY <2>4 DEF opened
  <1> DEFINE object == More(Expect(src, st, "{"), Struct, 0)
             array == More(Expect(src, st, "["), Struct, 0)
  <1>2. /\ object.ok => object.at \in Nat /\ object.at >= o + 1
        /\ array.ok => array.at \in Nat /\ array.at >= o + 1
    BY <1>1
  <1>3. /\ json_get_object_size(src, a, st) = Then(object, a.members[object.at][FALSE])
        /\ json_get_object_size(src, b, st) = Then(object, b.members[object.at][FALSE])
        /\ json_get_array_size(src, a, st) = Then(array, a.elements[array.at][FALSE])
        /\ json_get_array_size(src, b, st) = Then(array, b.elements[array.at][FALSE])
    BY DEF json_get_object_size, json_get_array_size
  <1> HIDE DEF object, array
  <1>4. /\ object.ok => a.members[object.at][FALSE] = b.members[object.at][FALSE]
        /\ array.ok => a.elements[array.at][FALSE] = b.elements[array.at][FALSE]
    BY <1>2 DEF SameParts
  <1>5. /\ ~object.ok => \A part : Then(object, part) = Refused
        /\ ~array.ok => \A part : Then(array, part) = Refused
    BY DEF Then
  <1>6. json_get_object_size(src, a, st) = json_get_object_size(src, b, st)
    BY <1>3, <1>4, <1>5
  <1>7. json_get_array_size(src, a, st) = json_get_array_size(src, b, st)
    BY <1>3, <1>4, <1>5
  <1> QED
    BY <1>6, <1>7

(* A value depends on what is behind its first character.                  *)
LEMMA ValueSame ==
    ASSUME NEW src \in Texts, NEW a, NEW b, NEW o \in Nat, SameParts(a, b, o + 1)
    PROVE  json_get_value_size(src, a, Started(o)) = json_get_value_size(src, b, Started(o))
  <1> DEFINE here == More(json_skip_all_skippables(src, Started(o)), Struct, 0)
             c == At(src, here.at)
  <1>1. here \in From(o)
    <2>1. json_skip_all_skippables(src, Started(o)) \in From(o)
      BY FromStart, FromStep
    <2>2. Struct \in Nat /\ 0 \in Nat
      BY DEF Struct
    <2> QED
      BY <2>1, <2>2, FromStep
  <1>2. /\ json_get_value_size(src, a, Started(o)) = ValueSize(src, a, here)
        /\ json_get_value_size(src, b, Started(o)) = ValueSize(src, b, here)
    BY DEF json_get_value_size
  <1> HIDE DEF here
  <1>3. ValueSizeCases(src, a, here) /\ ValueSizeCases(src, b, here)
    BY ValueSizeIs
  <1>4. json_get_string_size(src, a, here) = json_get_string_size(src, b, here)
    BY <1>1, GetStringSame
  <1>5. /\ json_get_object_size(src, a, here) = json_get_object_size(src, b, here)
        /\ json_get_array_size(src, a, here) = json_get_array_size(src, b, here)
    BY <1>1, BracketSame
  <1>6. CASE ~here.ok
    BY <1>2, <1>3, <1>6 DEF ValueSizeCases
  <1>7. CASE here.ok /\ c = "\""
    BY <1>2, <1>3, <1>4, <1>7 DEF ValueSizeCases
  <1>8. CASE here.ok /\ c = "{"
    BY <1>2, <1>3, <1>5, <1>8 DEF ValueSizeCases
  <1>9. CASE here.ok /\ c = "["
    BY <1>2, <1>3, <1>5, <1>9 DEF ValueSizeCases
  <1>10. CASE here.ok /\ c \in Digit \cup {"-"}
    BY <1>2, <1>3, <1>10 DEF ValueSizeCases
  <1>11. CASE here.ok /\ c \notin {"\"", "{", "["} /\ c \notin Digit \cup {"-"}
    BY <1>2, <1>3, <1>11 DEF ValueSizeCases
  <1> QED
    BY <1>6, <1>7, <1>8, <1>9, <1>10, <1>11

(* From the end of the text on nothing is let through.                     *)
LEMMA RefusedBehind ==
    ASSUME NEW src \in Texts, NEW calls, NEW o \in Nat, o >= Len(src)
    PROVE  /\ \A high \in Nat : SizeTurn(src, calls).string[o][high] = Refused
           /\ SizeTurn(src, calls).value[o] = Refused
           /\ \A comma \in BOOLEAN : /\ SizeTurn(src, calls).members[o][comma] = Refused
                                     /\ SizeTurn(src, calls).elements[o][comma] = Refused
  <1> DEFINE here == json_skip_all_skippables(src, Started(o))
  <1>1. At(src, o) = Outside
    BY OutsideText
  <1>2. json_skip_whitespace(src, o) = o
    BY Blanks
  <1>3. /\ here \in State
        /\ here.ok => here.at = o /\ At(src, here.at) = Outside
    BY <1>1, <1>2, HereInStep
  <1> HIDE DEF here
  <1>4. ~Refused.ok /\ \A part : Then(Refused, part) = Refused
    BY DEF Refused, Then
  <1>5. \A char : char # Outside => Expect(src, here, char) = Refused
    BY <1>3 DEF Expect
  <1>6. /\ Outside \in Breaks /\ Outside \notin Digit /\ Outside \notin {"\"", "{", "[", "]", "}", ",", "-"}
        /\ Outside \notin {"t", "f", "n"}
    BY DEF Breaks, Outside, Digit
  <1>7. json_skip_all_skippables(src, Refused) = Refused
    BY <1>4 DEF json_skip_all_skippables
  <1>8. ASSUME NEW high \in Nat PROVE SizeTurn(src, calls).string[o][high] = Refused
    <2>1. StringSizeCases(src, calls.string, o, high)
      BY StringSizeIs
    <2>2. StringSize(src, calls.string, o, high) = Refused
      BY <1>1, <1>6, <2>1 DEF StringSizeCases
    <2> QED
      BY <2>2 DEF SizeTurn
  <1>9. ASSUME NEW comma \in BOOLEAN PROVE SizeTurn(src, calls).members[o][comma] = Refused
    <2> DEFINE first == PastComma(src, here, comma)
               key == json_get_string_size(src, calls, first)
    <2>1. first.ok => At(src, first.at) = Outside
      BY <1>3, <1>4, <1>5, <1>6, <1>7 DEF PastComma
    <2> HIDE DEF first
    <2>2. key = Refused
      BY <1>6, <2>1 DEF json_get_string_size
    <2> HIDE DEF key
    <2>3. MemberSize(src, calls, first) = Refused
      <3>1. Expect(src, json_skip_all_skippables(src, key), ":") = Refused
        BY <1>4, <1>7, <2>2 DEF Expect
      <3>2. More(Refused, ElementOfObject, 0) = Refused
        BY <1>4 DEF More
      <3> QED
        BY <1>4, <1>7, <3>1, <3>2 DEF MemberSize, key
    <2>4. AfterMember(src, calls, Refused) = Refused
      <3>1. Refused \in State
        BY StartState
      <3>2. AfterMemberCases(src, calls, Refused)
        BY <3>1, AfterMemberIs
      <3> QED
        BY <1>4, <3>2 DEF AfterMemberCases
    <2>5. ~(here.ok /\ At(src, here.at) = "}")
      BY <1>3, <1>6
    <2>6. ObjectSize(src, calls, Started(o), comma) = Refused
      BY <2>3, <2>4, <2>5 DEF ObjectSize, MembersSize, here, first
    <2> QED
      BY <2>6 DEF SizeTurn
  <1>10. ASSUME NEW comma \in BOOLEAN PROVE SizeTurn(src, calls).elements[o][comma] = Refused
    <2>1. ElementsCases(src, calls, here, comma)
      BY <1>3, ElementsIs
    <2>2. ~here.ok \/ here.at >= Len(src)
      BY <1>3
    <2>3. ElementsSize(src, calls, here, comma) = Refused
      BY <2>1, <2>2 DEF ElementsCases
    <2> QED
      BY <2>3 DEF SizeTurn, ArraySize, here
  <1>11. SizeTurn(src, calls).value[o] = Refused
    <2> DEFINE start == More(here, Struct, 0)
    <2>1. start.ok => start.at = o /\ At(src, start.at) = Outside
      <3>1. Struct \in Nat /\ 0 \in Nat
        BY DEF Struct
      <3>2. (start.ok <=> here.ok) /\ (here.ok => start.at = here.at)
        BY <1>3, <3>1, MoreState
      <3> HIDE DEF start
      <3> QED
        BY <1>3, <3>2
    <2>2. SizeTurn(src, calls).value[o] = ValueSize(src, calls, start)
      BY DEF SizeTurn, json_get_value_size, here
    <2> HIDE DEF start
    <2>3. ValueSizeCases(src, calls, start)
      BY ValueSizeIs
    <2>4. CASE ~start.ok
      BY <2>2, <2>3, <2>4 DEF ValueSizeCases
    <2>5. CASE start.ok
      <3>1. start.at = o
        BY <2>1, <2>5
      <3>2. Word(src, o) = ""
        BY <1>1, <1>6, WordStarts
      <3>3. PastWord(start, Word(src, start.at)) = Refused
        BY <3>1, <3>2 DEF PastWord
      <3>4. At(src, start.at) \notin {"\"", "{", "["} /\ At(src, start.at) \notin Digit \cup {"-"}
        BY <1>6, <2>1, <2>5
      <3> QED
        BY <2>2, <2>3, <2>5, <3>3, <3>4 DEF ValueSizeCases
    <2> QED
      BY <2>4, <2>5
  <1> QED
    BY <1>8, <1>9, <1>10, <1>11

(* After k turns the values that start k \div 2 characters before the end, *)
(* or later, and the parts a character further on, are those of any later  *)
(* turn.                                                                   *)
Settled(src, k) ==
    LET now == Sizing(src)[k]
        next == Sizing(src)[k + 1]
    IN  \A o \in Nat :
            /\ 2 * Len(src) <= k + 2 * o => now.value[o] = next.value[o]
            /\ 2 * Len(src) < k + 2 * o =>
                  /\ \A high \in Nat : now.string[o][high] = next.string[o][high]
                  /\ \A comma \in BOOLEAN : /\ now.members[o][comma] = next.members[o][comma]
                                            /\ now.elements[o][comma] = next.elements[o][comma]

(* Of what is settled, all that begins at an offset or behind it.          *)
LEMMA SettledFrom ==
    ASSUME NEW src \in Texts, NEW k \in Nat, Settled(src, k), NEW o \in Nat
    PROVE  LET now == Sizing(src)[k]
               next == Sizing(src)[k + 1]
           IN  /\ 2 * Len(src) <= k + 2 * o => SameValues(now, next, o)
               /\ 2 * Len(src) < k + 2 * o => SameParts(now, next, o)
  <1> DEFINE now == Sizing(src)[k]
             next == Sizing(src)[k + 1]
  <1>1. Len(src) \in Nat
    BY DEF Texts
  <1>2. \A p \in Nat : p >= o => k + 2 * o <= k + 2 * p
    OBVIOUS
  <1>3. ASSUME 2 * Len(src) <= k + 2 * o PROVE SameValues(now, next, o)
    <2>1. ASSUME NEW p \in Nat, p >= o PROVE now.value[p] = next.value[p]
      <3>1. 2 * Len(src) <= k + 2 * p
        BY <1>1, <1>2, <1>3, <2>1
      <3> QED
        BY <3>1 DEF Settled
    <2> QED
      BY <2>1 DEF SameValues
  <1>4. ASSUME 2 * Len(src) < k + 2 * o PROVE SameParts(now, next, o)
    <2>1. ASSUME NEW p \in Nat, p >= o PROVE 2 * Len(src) < k + 2 * p
      BY <1>1, <1>4, <2>1
    <2>2. ASSUME NEW p \in Nat, NEW high \in Nat, p >= o
          PROVE  now.string[p][high] = next.string[p][high]
      BY <2>1, <2>2 DEF Settled
    <2>3. ASSUME NEW p \in Nat, NEW comma \in BOOLEAN, p >= o
          PROVE  /\ now.members[p][comma] = next.members[p][comma]
                 /\ now.elements[p][comma] = next.elements[p][comma]
      BY <2>1, <2>3 DEF Settled
    <2> QED
      BY <2>2, <2>3 DEF SameParts
  <1> QED
    BY <1>3, <1>4

(* A turn settles the values of one more rank, and of the other parts one  *)
(* more.                                                                   *)
LEMMA SettledNext ==
    ASSUME NEW src \in Texts, NEW k \in Nat, Settled(src, k)
    PROVE  Settled(src, k + 1)
  <1> DEFINE a == Sizing(src)[k]
             b == Sizing(src)[k + 1]
             c == Sizing(src)[k + 1 + 1]
  <1>1. b = SizeTurn(src, a) /\ c = SizeTurn(src, b)
    <2>1. k + 1 \in Nat /\ k + 1 # 0 /\ k + 1 - 1 = k
      OBVIOUS
    <2>2. k + 1 + 1 \in Nat /\ k + 1 + 1 # 0 /\ k + 1 + 1 - 1 = k + 1
      OBVIOUS
    <2> QED
      BY <2>1, <2>2, SizingTurns
  <1>2. Advancing(a)
    BY SizingAdvances
  <1>3. Len(src) \in Nat
    BY DEF Texts
  <1>4. \A o \in Nat : /\ 2 * Len(src) <= k + 2 * o => SameValues(a, b, o)
                       /\ 2 * Len(src) < k + 2 * o => SameParts(a, b, o)
    BY SettledFrom
  <1> HIDE DEF a, b, c
  <1>5. ASSUME NEW o \in Nat, 2 * Len(src) <= k + 1 + 2 * o
        PROVE  b.value[o] = c.value[o]
    <2>1. o + 1 \in Nat /\ 2 * Len(src) < k + 2 * (o + 1)
      BY <1>3, <1>5
    <2>2. SameParts(a, b, o + 1)
      BY <1>4, <2>1
    <2>3. json_get_value_size(src, a, Started(o)) = json_get_value_size(src, b, Started(o))
      BY <2>2, ValueSame
    <2> QED
      BY <1>1, <2>3 DEF SizeTurn
  <1>6. ASSUME NEW o \in Nat, 2 * Len(src) < k + 1 + 2 * o
        PROVE  /\ \A high \in Nat : b.string[o][high] = c.string[o][high]
               /\ \A comma \in BOOLEAN : /\ b.members[o][comma] = c.members[o][comma]
                                         /\ b.elements[o][comma] = c.elements[o][comma]
    <2>1. o + 1 \in Nat /\ 2 * Len(src) < k + 2 * (o + 1) /\ 2 * Len(src) <= k + 2 * o
      BY <1>3, <1>6
    <2>2. SameParts(a, b, o + 1) /\ SameValues(a, b, o)
      BY <1>4, <2>1
    <2>3. ASSUME NEW high \in Nat PROVE b.string[o][high] = c.string[o][high]
      <3>1. StringSize(src, a.string, o, high) = StringSize(src, b.string, o, high)
        BY <2>2, StringSame
      <3> QED
        BY <1>1, <3>1 DEF SizeTurn
    <2>4. ASSUME NEW comma \in BOOLEAN PROVE b.members[o][comma] = c.members[o][comma]
      <3>1. ObjectSize(src, a, Started(o), comma) = ObjectSize(src, b, Started(o), comma)
        BY <1>2, <2>2, ObjectSame
      <3> QED
        BY <1>1, <3>1 DEF SizeTurn
    <2>5. ASSUME NEW comma \in BOOLEAN PROVE b.elements[o][comma] = c.elements[o][comma]
      <3>1. ArraySize(src, a, Started(o), comma) = ArraySize(src, b, Started(o), comma)
        BY <1>2, <2>2, ArraySame
      <3> QED
        BY <1>1, <3>1 DEF SizeTurn
    <2> QED
      BY <2>3, <2>4, <2>5
  <1> QED
    BY <1>5, <1>6 DEF Settled, b, c

(* After n turns the parts of the text near enough to its end are          *)
(* settled.                                                                *)
LEMMA SettledAlways ==
    ASSUME NEW src \in Texts, NEW n \in Nat
    PROVE  Settled(src, n)
  <1> DEFINE S == {k \in Nat : Settled(src, k)}
  <1>1. 0 \in S
    <2>1. Sizing(src)[0] = NoSizes /\ Sizing(src)[0 + 1] = SizeTurn(src, NoSizes)
      BY SizingTurns
    <2>2. Len(src) \in Nat
      BY DEF Texts
    <2>3. ASSUME NEW o \in Nat, 2 * Len(src) <= 0 + 2 * o
          PROVE  /\ NoSizes.value[o] = SizeTurn(src, NoSizes).value[o]
                 /\ \A high \in Nat :
                       NoSizes.string[o][high] = SizeTurn(src, NoSizes).string[o][high]
                 /\ \A comma \in BOOLEAN :
                       /\ NoSizes.members[o][comma] = SizeTurn(src, NoSizes).members[o][comma]
                       /\ NoSizes.elements[o][comma] = SizeTurn(src, NoSizes).elements[o][comma]
      <3>1. o >= Len(src)
        BY <2>2, <2>3
      <3>2. /\ NoSizes.value[o] = Refused
            /\ \A high \in Nat : NoSizes.string[o][high] = Refused
            /\ \A comma \in BOOLEAN : /\ NoSizes.members[o][comma] = Refused
                                      /\ NoSizes.elements[o][comma] = Refused
        BY DEF NoSizes
      <3> QED
        BY <3>1, <3>2, RefusedBehind
    <2>4. \A o \in Nat : 2 * Len(src) < 0 + 2 * o => 2 * Len(src) <= 0 + 2 * o
      BY <2>2
    <2> QED
      BY <2>1, <2>3, <2>4 DEF Settled
  <1>2. ASSUME NEW k \in S PROVE k + 1 \in S
    BY SettledNext
  <1> HIDE DEF S
  <1>3. S = Nat
    BY <1>1, <1>2, AllNaturals DEF S
  <1> QED
    BY <1>3 DEF S

(* The first pass does not change any more once it had the turns of its    *)
(* text.                                                                   *)
LEMMA SizingEnds ==
    ASSUME NEW src \in Texts, NEW n \in Nat, n >= Turns(src)
    PROVE  Sizing(src)[n].value[0] = Sizing(src)[Turns(src)].value[0]
  <1> DEFINE T == Turns(src)
             S == {k \in Nat : Sizing(src)[T + k].value[0] = Sizing(src)[T].value[0]}
  <1>1. Len(src) \in Nat /\ T \in Nat /\ 2 * Len(src) <= T
    BY DEF Texts, Turns
  <1>2. 0 \in S
    BY <1>1
  <1>3. ASSUME NEW k \in S PROVE k + 1 \in S
    <2>1. T + k \in Nat /\ 0 \in Nat /\ 2 * Len(src) <= T + k + 2 * 0
          /\ T + k + 1 = T + (k + 1)
      BY <1>1
    <2>2. Settled(src, T + k)
      BY <2>1, SettledAlways
    <2>3. Sizing(src)[T + k].value[0] = Sizing(src)[T + k + 1].value[0]
      BY <2>1, <2>2 DEF Settled
    <2> QED
      BY <2>1, <2>3
  <1> HIDE DEF S, T
  <1>4. S = Nat
    BY <1>2, <1>3, AllNaturals DEF S
  <1>5. n - T \in Nat /\ n = T + (n - T)
    BY <1>1 DEF T
  <1>6. Sizing(src)[n].value[0] = Sizing(src)[T].value[0]
    BY <1>4, <1>5 DEF S
  <1> QED
    BY <1>6 DEF T
-----------------------------------------------------------------------------
(* The second pass ends, for the texts it is given: where a turn of the    *)
(* first pass lets a part of the text through, the turn of the second has  *)
(* read that part as any later one does.                                   *)

Through(src, size) == size.ok /\ size.at <= Len(src)

Alike(src, sizes, a, b) ==
    /\ \A o, high \in Nat :
          Through(src, sizes.string[o][high]) => a.string[o][high] = b.string[o][high]
    /\ \A o \in Nat : Through(src, sizes.value[o]) => a.value[o] = b.value[o]
    /\ \A o \in Nat, comma \in BOOLEAN :
          /\ Through(src, sizes.members[o][comma]) => a.members[o][comma] = b.members[o][comma]
          /\ Through(src, sizes.elements[o][comma]) => a.elements[o][comma] = b.elements[o][comma]

(* Two second passes that are alike read the rest of a string alike, if    *)
(* the first lets it through.                                              *)
LEMMA StringAlike ==
    ASSUME NEW src \in Texts, NEW sizes, Advancing(sizes), NEW a, NEW b, Alike(src, sizes, a, b),
           NEW o \in Nat, NEW high \in Nat, Through(src, StringSize(src, sizes.string, o, high))
    PROVE  StringText(src, a.string, o, high) = StringText(src, b.string, o, high)
  <1> DEFINE c == At(src, o)
             escape == At(src, o + 1)
             codepoint == json_hexadecimal_value(src, o + 2)
             size == StringSize(src, sizes.string, o, high)
  <1>1. StringSizeCases(src, sizes.string, o, high)
    BY StringSizeIs
  <1>2. StringTextCases(src, a.string, o, high) /\ StringTextCases(src, b.string, o, high)
    BY StringTextIs
  <1>3. Refused.ok = FALSE
    BY DEF Refused
  <1>4. codepoint \in Int /\ Waiting(codepoint) \in Nat
    BY HexValue, WaitingHalf
  <1>5. ASSUME NEW p \in Nat, NEW h \in Nat, NEW data \in Nat,
               size = More(sizes.string[p][h], 0, data)
        PROVE  a.string[p][h] = b.string[p][h]
    <2> DEFINE part == sizes.string[p][h]
    <2>1. part \in State /\ 0 \in Nat
      BY CallsReturn
    <2> HIDE DEF part
    <2>2. (More(part, 0, data).ok <=> part.ok) /\ (part.ok => More(part, 0, data).at = part.at)
      BY <2>1, MoreState
    <2>3. Through(src, part)
      BY <1>5, <2>2 DEF Through, part
    <2> QED
      BY <2>3 DEF Alike, part
  <1> HIDE DEF size
  <1>6. CASE c = "\""
    BY <1>2, <1>6 DEF StringTextCases
  <1>7. CASE c \in Breaks
    <2>1. size = Refused
      BY <1>1, <1>7 DEF StringSizeCases, size
    <2> QED
      BY <1>3, <2>1 DEF Through, size
  <1>8. CASE c = "\\" /\ escape \in Escapes
    <2>1. size = More(sizes.string[o + 2][high], 0, 1)
      BY <1>1, <1>8 DEF StringSizeCases, size
    <2>2. escape # "u"
      BY <1>8 DEF Escapes
    <2>3. a.string[o + 2][high] = b.string[o + 2][high]
      BY <1>5, <2>1
    <2> QED
      BY <1>2, <1>8, <2>2, <2>3 DEF StringTextCases
  <1>9. CASE c = "\\" /\ escape = "u"
    <2>1. size = UnicodeSize(src, sizes.string, o + 1, high, codepoint)
      BY <1>1, <1>9 DEF StringSizeCases, size
    <2>2. size # Refused
      BY <1>3 DEF Through, size
    <2>3. size = More(sizes.string[o + 1 + 5][Waiting(codepoint)], 0,
                      1 + MoreBytes(codepoint, high))
      BY <2>1, <2>2 DEF UnicodeSize
    <2>4. o + 1 + 5 = o + 6 /\ o + 6 \in Nat
      OBVIOUS
    <2>5. 1 + MoreBytes(codepoint, high) \in Nat
      BY <1>4, MoreBytesBound
    <2>6. a.string[o + 6][Waiting(codepoint)] = b.string[o + 6][Waiting(codepoint)]
      BY <1>4, <1>5, <2>3, <2>4, <2>5
    <2> QED
      BY <1>2, <1>9, <2>6 DEF StringTextCases
  <1>10. CASE c = "\\" /\ escape \notin Escapes /\ escape # "u"
    <2>1. size = Refused
      BY <1>1, <1>10 DEF StringSizeCases, size
    <2> QED
      BY <1>3, <2>1 DEF Through, size
  <1>11. CASE c \notin Breaks /\ c # "\"" /\ c # "\\"
    <2>1. size = More(sizes.string[o + 1][high], 0, 1)
      BY <1>1, <1>11 DEF StringSizeCases, size
    <2>2. c # Outside
      BY <1>11 DEF Breaks
    <2>3. a.string[o + 1][high] = b.string[o + 1][high]
      BY <1>5, <2>1
    <2> QED
      BY <1>2, <1>11, <2>2, <2>3 DEF StringTextCases
  <1> QED
    BY <1>6, <1>7, <1>8, <1>9, <1>10, <1>11

(* And a string with its quotes,                                           *)
LEMMA GetStringAlike ==
    ASSUME NEW src \in Texts, NEW sizes, Advancing(sizes), NEW a, NEW b, Alike(src, sizes, a, b),
           NEW st \in State, Through(src, json_get_string_size(src, sizes, st))
    PROVE  json_parse_string(a, st.at) = json_parse_string(b, st.at)
  <1> DEFINE size == json_get_string_size(src, sizes, st)
             counted == More(st, Struct, 0)
             part == sizes.string[st.at + 1][0]
  <1>1. st.at + 1 \in Nat /\ Struct \in Nat /\ 0 \in Nat
    BY DEF State, Struct
  <1>2. size = Then(counted, part)
    BY DEF Through, json_get_string_size, Refused
  <1>3. counted \in State
    BY <1>1, MoreState
  <1>4. part \in State
    BY <1>1, CallsReturn
  <1> HIDE DEF counted, part, size
  <1>5. size.ok => part.ok /\ size.at = part.at
    BY <1>2, <1>3, <1>4, ThenState
  <1>6. Through(src, part)
    BY <1>5 DEF Through, size
  <1>7. a.string[st.at + 1][0] = b.string[st.at + 1][0]
    BY <1>1, <1>6 DEF Alike, part
  <1> QED
    BY <1>7 DEF json_parse_string

(* a member,                                                               *)
LEMMA MemberAlike ==
    ASSUME NEW src \in Texts, NEW sizes, Advancing(sizes), NEW a, NEW b, Alike(src, sizes, a, b),
           Lockstep(src, sizes, a), NEW st \in State, Through(src, MemberSize(src, sizes, st))
    PROVE  /\ json_parse_string(a, st.at) = json_parse_string(b, st.at)
           /\ MemberValue(src, a, st.at) = MemberValue(src, b, st.at)
  <1> DEFINE size == json_get_string_size(src, sizes, st)
             before == json_skip_all_skippables(src, size)
             behind == Expect(src, before, ":")
             start == json_skip_all_skippables(src, behind)
             counted == More(start, ElementOfObject, 0)
             part == sizes.value[start.at]
             member == MemberSize(src, sizes, st)
             key == json_parse_string(a, st.at)
  <1>1. /\ size \in State
        /\ Agrees(src, st.dom, st.data, size, key)
    BY StringInStep
  <1>2. member = Then(counted, part)
    BY DEF MemberSize
  <1>3. Through(src, size) => key = json_parse_string(b, st.at)
    BY GetStringAlike
  <1> HIDE DEF size
  <1>4. /\ before \in State
        /\ before.ok => /\ size.ok /\ before.at = json_skip_whitespace(src, size.at)
                        /\ before.at >= size.at
    BY <1>1, SkipState
  <1> HIDE DEF before
  <1>5. /\ behind \in State
        /\ behind.ok => before.ok /\ behind.at = before.at + 1
    BY <1>4, ExpectState
  <1> HIDE DEF behind
  <1>6. /\ start \in State
        /\ start.ok => /\ behind.ok /\ start.at = json_skip_whitespace(src, behind.at)
                       /\ start.at >= behind.at
    BY <1>5, SkipState
  <1> HIDE DEF start
  <1>7. counted \in State /\ (counted.ok <=> start.ok)
    <2>1. ElementOfObject \in Nat /\ 0 \in Nat
      BY DEF ElementOfObject
    <2> QED
      BY <1>6, <2>1, MoreState
  <1>8. /\ start.at \in Nat /\ before.at \in Nat /\ size.at \in Nat /\ behind.at \in Nat
        /\ Len(src) \in Nat
    BY <1>1, <1>4, <1>5, <1>6 DEF State, Texts
  <1>9. part \in State /\ part.at \in Nat /\ (part.ok => part.at >= start.at + 1)
    <2>1. part \in State /\ (part.ok => part.at >= start.at + 1)
      BY <1>8, CallsReturn
    <2> QED
      BY <2>1 DEF State
  <1> HIDE DEF counted, member, key
  <1>10. member.ok /\ member.at <= Len(src)
    BY DEF Through, member
  <1>11. start.ok /\ part.ok /\ member.at = part.at
    <2> HIDE DEF part
    <2> QED
      BY <1>2, <1>7, <1>9, <1>10, ThenState
  <1>12. /\ Through(src, part) /\ Through(src, size)
         /\ size.ok /\ start.at = json_skip_whitespace(src, json_skip_whitespace(src, size.at) + 1)
    BY <1>4, <1>5, <1>6, <1>8, <1>9, <1>10, <1>11 DEF Through
  <1>13. key.at = size.at
    BY <1>1, <1>12 DEF Agrees, Through
  <1>14. key = json_parse_string(b, st.at)
    BY <1>3, <1>12
  <1>15. a.value[start.at] = b.value[start.at]
    BY <1>8, <1>12 DEF Alike
  <1>16. /\ MemberValue(src, a, st.at) = a.value[start.at]
         /\ MemberValue(src, b, st.at) = b.value[start.at]
    <2>1. MemberValue(src, a, st.at) =
             a.value[json_skip_whitespace(src, json_skip_whitespace(src, key.at) + 1)]
      BY DEF MemberValue, key
    <2>2. MemberValue(src, b, st.at) =
             b.value[json_skip_whitespace(src, json_skip_whitespace(src, key.at) + 1)]
      BY <1>14 DEF MemberValue
    <2> QED
      BY <1>12, <1>13, <2>1, <2>2
  <1> QED
    BY <1>14, <1>15, <1>16 DEF key

(* the rest of an object,                                                  *)
LEMMA MembersAlike ==
    ASSUME NEW src \in Texts, NEW sizes, Advancing(sizes), NEW a, NEW b, Alike(src, sizes, a, b),
           Lockstep(src, sizes, a), NEW o \in Nat, NEW comma \in BOOLEAN,
           Through(src, ObjectSize(src, sizes, Started(o), comma))
    PROVE  ObjectMembers(src, a, o, comma) = ObjectMembers(src, b, o, comma)
  <1> DEFINE here == json_skip_all_skippables(src, Started(o))
             first == PastComma(src, here, comma)
             member == MemberSize(src, sizes, first)
             after == AfterMember(src, sizes, member)
             size == ObjectSize(src, sizes, Started(o), comma)
             there == json_skip_whitespace(src, o)
             start == BehindComma(src, there, comma)
  <1>1. here \in State /\ (here.ok => here.at = there)
    BY HereInStep
  <1> DEFINE behind == [here EXCEPT !.at = @ + 1]
  <1>2. size = IF here.ok /\ At(src, here.at) = "}" THEN behind ELSE after
    BY DEF ObjectSize, MembersSize
  <1>3. /\ ObjectMembers(src, a, o, comma) = MembersFrom(src, a, start)
        /\ ObjectMembers(src, b, o, comma) = MembersFrom(src, b, start)
    BY DEF ObjectMembers
  <1>4. LoopCases(src, a, start) /\ LoopCases(src, b, start)
    BY LoopIs
  <1> HIDE DEF here, behind
  <1>5. CASE here.ok /\ At(src, here.at) = "}"
    <2>1. start = here.at
      BY <1>1, <1>5 DEF BehindComma
    <2> HIDE DEF start
    <2> QED
      BY <1>3, <1>4, <1>5, <2>1 DEF LoopCases
  <1>6. CASE ~(here.ok /\ At(src, here.at) = "}")
    <2>1. size = after
      BY <1>2, <1>6
    <2>2. /\ first \in State
          /\ first.ok => here.ok /\ first.at = BehindComma(src, here.at, comma)
      BY <1>1, CommaInStep
    <2> HIDE DEF first
    <2> DEFINE key == json_parse_string(a, first.at)
               value == MemberValue(src, a, first.at)
    <2>3. /\ member \in State
          /\ MemberAgrees(src, first, member, key, value)
      BY <2>2, MemberInStep
    <2>4. Through(src, member) => /\ key = json_parse_string(b, first.at)
                                  /\ value = MemberValue(src, b, first.at)
      BY <2>2, MemberAlike
    <2> HIDE DEF member
    <2>5. AfterMemberCases(src, sizes, member)
      BY <2>3, AfterMemberIs
    <2>6. Refused.ok = FALSE
      BY DEF Refused
    <2>7. member.at \in Nat /\ Len(src) \in Nat
      BY <2>3 DEF State, Texts
    <2>8. after.ok /\ after.at <= Len(src)
      BY <2>1 DEF Through
    <2> DEFINE part == sizes.members[member.at][TRUE]
    <2>9. member.ok /\ member.at <= Len(src) /\ after = Then(member, part)
      <3>1. ~(~member.ok \/ member.at = Len(src))
        BY <2>5, <2>6, <2>8 DEF AfterMemberCases
      <3>2. ~(member.ok /\ member.at > Len(src))
        <4>1. CASE member.ok /\ member.at > Len(src)
          <5>1. after = member
            BY <2>5, <4>1 DEF AfterMemberCases
          <5> QED
            BY <2>7, <2>8, <4>1, <5>1
        <4> QED
          BY <4>1
      <3>3. member.ok /\ member.at <= Len(src) /\ member.at < Len(src)
        BY <2>7, <3>1, <3>2
      <3> QED
        BY <2>5, <3>3 DEF AfterMemberCases
    <2>10. Through(src, part)
      <3>1. part \in State
        BY <2>7, CallsReturn
      <3> HIDE DEF part, after
      <3> QED
        BY <2>3, <2>8, <2>9, <3>1, ThenState DEF Through
    <2>11. a.members[member.at][TRUE] = b.members[member.at][TRUE]
      BY <2>7, <2>10 DEF Alike
    <2>12. first.ok /\ At(src, first.at) = "\"" /\ value.at = member.at
      BY <2>3, <2>9 DEF MemberAgrees
    <2>13. first.at = start
      BY <1>1, <2>2, <2>12
    <2>14. /\ key = json_parse_string(b, first.at)
           /\ value = MemberValue(src, b, first.at)
      BY <2>4, <2>9 DEF Through
    <2>15. MemberRead(src, a, first.at) = MemberRead(src, b, first.at)
      <3> DEFINE place == first.at
                 read(k, v, rest) ==
                    Done(rest.at, ElementOfObject + k.dom + Struct + v.dom + rest.dom,
                         k.data \o v.data \o rest.data,
                         <<[name |-> k.val.text, value |-> v.val]>> \o rest.val)
      <3>1. /\ MemberRead(src, a, place) =
                  read(json_parse_string(a, place), MemberValue(src, a, place),
                       a.members[MemberValue(src, a, place).at][TRUE])
            /\ MemberRead(src, b, place) =
                  read(json_parse_string(b, place), MemberValue(src, b, place),
                       b.members[MemberValue(src, b, place).at][TRUE])
        BY DEF MemberRead, MemberValue
      <3>2. /\ MemberValue(src, a, place).at = member.at
            /\ MemberValue(src, b, place) = MemberValue(src, a, place)
            /\ json_parse_string(b, place) = json_parse_string(a, place)
        BY <2>12, <2>14
      <3> HIDE DEF read, place
      <3>3. MemberRead(src, a, place) = MemberRead(src, b, place)
        BY <2>11, <3>1, <3>2
      <3> QED
        BY <3>3 DEF place
    <2>16. At(src, start) \notin {Outside, "}"}
      BY <2>12, <2>13 DEF Outside
    <2> HIDE DEF start
    <2> QED
      BY <1>3, <1>4, <2>13, <2>15, <2>16 DEF LoopCases
  <1> QED
    BY <1>5, <1>6

(* the rest of an array,                                                   *)
LEMMA ElementsAlike ==
    ASSUME NEW src \in Texts, NEW sizes, Advancing(sizes), NEW a, NEW b, Alike(src, sizes, a, b),
           Lockstep(src, sizes, a), NEW o \in Nat, NEW comma \in BOOLEAN,
           Through(src, ArraySize(src, sizes, Started(o), comma))
    PROVE  ArrayElements(src, a, o, comma) = ArrayElements(src, b, o, comma)
  <1> DEFINE here == json_skip_all_skippables(src, Started(o))
             first == PastComma(src, here, comma)
             element == ElementSize(sizes, first)
             after == AfterElement(sizes, element)
             size == ElementsSize(src, sizes, here, comma)
             there == json_skip_whitespace(src, o)
             start == BehindComma(src, there, comma)
  <1>1. here \in State /\ (here.ok => here.at = there)
    BY HereInStep
  <1>2. Through(src, size)
    BY DEF ArraySize
  <1>3. /\ ArrayElements(src, a, o, comma) = ElementsFrom(src, a, start)
        /\ ArrayElements(src, b, o, comma) = ElementsFrom(src, b, start)
    BY DEF ArrayElements
  <1>4. LoopCases(src, a, start) /\ LoopCases(src, b, start)
    BY LoopIs
  <1> HIDE DEF here
  <1>5. ElementsCases(src, sizes, here, comma)
    BY <1>1, ElementsIs
  <1>6. here.at \in Nat /\ Len(src) \in Nat
    BY <1>1 DEF State, Texts
  <1>7. CASE ~here.ok \/ here.at >= Len(src)
    <2>1. size = Refused
      BY <1>5, <1>7 DEF ElementsCases
    <2> QED
      BY <1>2, <2>1 DEF Through, Refused
  <1>8. CASE here.ok /\ At(src, here.at) = "]"
    <2>1. start = here.at
      BY <1>1, <1>8 DEF BehindComma
    <2> HIDE DEF start
    <2> QED
      BY <1>3, <1>4, <1>8, <2>1 DEF LoopCases
  <1>9. CASE here.ok /\ here.at < Len(src) /\ At(src, here.at) # "]"
    <2>1. size = after
      <3>1. At(src, here.at) # Outside
        BY <1>6, <1>9, OutsideText
      <3> QED
        BY <1>5, <1>9, <3>1 DEF ElementsCases
    <2>2. /\ first \in State
          /\ first.ok => here.ok /\ first.at = BehindComma(src, here.at, comma)
      BY <1>1, CommaInStep
    <2> HIDE DEF first
    <2> DEFINE value == a.value[first.at]
               counted == More(first, ElementOfArray, 0)
               whole == sizes.value[first.at]
    <2>3. element \in State /\ ElementAgrees(src, first, element, value)
      BY <2>2, ElementInStep
    <2>4. first.at \in Nat /\ ElementOfArray \in Nat /\ 0 \in Nat
      BY <2>2 DEF State, ElementOfArray
    <2>5. element = Then(counted, whole)
      BY DEF ElementSize
    <2> HIDE DEF element
    <2>6. element.ok => whole.ok /\ element.at = whole.at
      <3>1. counted \in State /\ whole \in State
        BY <2>2, <2>4, MoreState, CallsReturn
      <3> HIDE DEF counted, whole
      <3> QED
        BY <2>5, <3>1, ThenState
    <2> DEFINE part == sizes.elements[element.at][TRUE]
    <2>7. element.at \in Nat
      BY <2>3 DEF State
    <2>8. part \in State /\ part.at \in Nat /\ (part.ok => part.at >= element.at + 1)
      <3>1. part \in State /\ (part.ok => part.at >= element.at + 1)
        BY <2>7, CallsReturn
      <3> QED
        BY <3>1 DEF State
    <2>9. element.ok /\ element.at <= Len(src) /\ Through(src, part)
      <3>1. after = Then(element, part)
        BY DEF AfterElement
      <3>2. after.ok /\ after.at <= Len(src)
        BY <1>2, <2>1 DEF Through
      <3> HIDE DEF part, after
      <3>3. element.ok /\ part.ok /\ after.at = part.at
        BY <2>3, <2>8, <3>1, <3>2, ThenState
      <3> QED
        BY <1>6, <2>7, <2>8, <3>2, <3>3 DEF Through
    <2>10. a.value[first.at] = b.value[first.at]
      <3>1. Through(src, whole)
        BY <2>6, <2>9 DEF Through
      <3> QED
        BY <2>4, <3>1 DEF Alike
    <2>11. a.elements[element.at][TRUE] = b.elements[element.at][TRUE]
      BY <2>7, <2>9 DEF Alike
    <2>12. /\ first.ok /\ element.at > first.at /\ value.at = element.at
           /\ At(src, json_skip_whitespace(src, first.at)) # "]"
      BY <2>3, <2>9 DEF ElementAgrees
    <2>13. first.at = start
      BY <1>1, <2>2, <2>12
    <2>14. At(src, first.at) # Outside
      <3>1. ~(first.at >= Len(src))
        BY <1>6, <2>4, <2>7, <2>9, <2>12
      <3> QED
        BY <2>4, <3>1, OutsideText
    <2>15. At(src, first.at) # "]"
      <3>1. "]" \notin Space
        BY DEF Space
      <3>2. At(src, first.at) = "]" => json_skip_whitespace(src, first.at) = first.at
        BY <2>4, <3>1, NotBlank
      <3> QED
        BY <2>12, <3>2
    <2>16. ElementRead(a, first.at) = ElementRead(b, first.at)
      BY <2>10, <2>11, <2>12 DEF ElementRead
    <2> HIDE DEF start
    <2> QED
      BY <1>3, <1>4, <2>13, <2>14, <2>15, <2>16 DEF LoopCases
  <1> QED
    BY <1>6, <1>7, <1>8, <1>9

(* (behind a bracket, which is one character)                              *)
LEMMA OpenedAlike ==
    ASSUME NEW src \in Texts, NEW here \in State, NEW char, NEW opened,
           opened = More(Expect(src, here, char), Struct, 0)
    PROVE  /\ opened.at \in Nat
           /\ \A part \in State : Through(src, Then(opened, part)) =>
                 opened.at = here.at + 1 /\ Through(src, part)
  <1> DEFINE behind == Expect(src, here, char)
  <1>1. behind \in State /\ (behind.ok => behind.at = here.at + 1)
    BY ExpectState
  <1>2. opened = More(behind, Struct, 0)
    OBVIOUS
  <1> HIDE DEF behind
  <1>3. /\ opened \in State /\ (opened.ok <=> behind.ok)
        /\ behind.ok => opened.at = behind.at
    <2>1. Struct \in Nat /\ 0 \in Nat
      BY DEF Struct
    <2>2. /\ More(behind, Struct, 0) \in State
          /\ More(behind, Struct, 0).ok <=> behind.ok
          /\ behind.ok => More(behind, Struct, 0).at = behind.at
      BY <1>1, <2>1, MoreState
    <2> QED
      BY <1>2, <2>2
  <1>4. ASSUME NEW part \in State, Through(src, Then(opened, part))
        PROVE  opened.at = here.at + 1 /\ Through(src, part)
    BY <1>1, <1>3, <1>4, ThenState DEF Through
  <1> QED
    BY <1>3, <1>4 DEF State

(* an object and an array,                                                 *)
LEMMA BracketAlike ==
    ASSUME NEW src \in Texts, NEW sizes, Advancing(sizes), NEW a, NEW b, Alike(src, sizes, a, b),
           NEW here \in State
    PROVE  /\ Through(src, json_get_object_size(src, sizes, here)) =>
                 json_parse_object(a, here.at) = json_parse_object(b, here.at)
           /\ Through(src, json_get_array_size(src, sizes, here)) =>
                 json_parse_array(a, here.at) = json_parse_array(b, here.at)
  <1> DEFINE place == here.at + 1
             object == More(Expect(src, here, "{"), Struct, 0)
             array == More(Expect(src, here, "["), Struct, 0)
             members == sizes.members[object.at][FALSE]
             elements == sizes.elements[array.at][FALSE]
  <1>1. /\ json_get_object_size(src, sizes, here) = Then(object, members)
        /\ json_get_array_size(src, sizes, here) = Then(array, elements)
    BY DEF json_get_object_size, json_get_array_size
  <1>2. /\ object.at \in Nat
        /\ \A part \in State : Through(src, Then(object, part)) =>
              object.at = place /\ Through(src, part)
    BY OpenedAlike
  <1>3. /\ array.at \in Nat
        /\ \A part \in State : Through(src, Then(array, part)) =>
              array.at = place /\ Through(src, part)
    BY OpenedAlike
  <1> HIDE DEF object, array
  <1>4. members \in State /\ elements \in State
    BY <1>2, <1>3, CallsReturn
  <1>5. ASSUME Through(src, json_get_object_size(src, sizes, here))
        PROVE  json_parse_object(a, here.at) = json_parse_object(b, here.at)
    <2>1. object.at = place /\ Through(src, members)
      <3> HIDE DEF members
      <3> QED
        BY <1>1, <1>2, <1>4, <1>5
    <2>2. a.members[place][FALSE] = b.members[place][FALSE]
      BY <1>2, <2>1 DEF Alike
    <2> QED
      BY <2>2 DEF json_parse_object
  <1>6. ASSUME Through(src, json_get_array_size(src, sizes, here))
        PROVE  json_parse_array(a, here.at) = json_parse_array(b, here.at)
    <2>1. array.at = place /\ Through(src, elements)
      <3> HIDE DEF elements
      <3> QED
        BY <1>1, <1>3, <1>4, <1>6
    <2>2. a.elements[place][FALSE] = b.elements[place][FALSE]
      BY <1>3, <2>1 DEF Alike
    <2> QED
      BY <2>2 DEF json_parse_array
  <1> QED
    BY <1>5, <1>6

(* and a value.                                                            *)
LEMMA ValueAlike ==
    ASSUME NEW src \in Texts, NEW sizes, Advancing(sizes), NEW a, NEW b, Alike(src, sizes, a, b),
           NEW o \in Nat, Through(src, json_get_value_size(src, sizes, Started(o)))
    PROVE  json_parse_value(src, a, o) = json_parse_value(src, b, o)
  <1> DEFINE before == json_skip_all_skippables(src, Started(o))
             here == More(before, Struct, 0)
             there == json_skip_whitespace(src, o)
             size == ValueSize(src, sizes, here)
             c == At(src, there)
  <1>1. before \in State /\ (before.ok => before.at = there)
    BY HereInStep
  <1>2. Through(src, size)
    BY DEF json_get_value_size
  <1>3. /\ json_parse_value(src, a, o) = ValueRead(src, a, there)
        /\ json_parse_value(src, b, o) = ValueRead(src, b, there)
    BY DEF json_parse_value
  <1> HIDE DEF before
  <1>4. /\ here \in State /\ (here.ok <=> before.ok)
        /\ before.ok => here.at = before.at
    <2>1. Struct \in Nat /\ 0 \in Nat
      BY DEF Struct
    <2> QED
      BY <1>1, <2>1, MoreState
  <1> HIDE DEF here, there
  <1>5. ValueSizeCases(src, sizes, here)
    BY ValueSizeIs
  <1>6. ValueReadCases(src, a, there) /\ ValueReadCases(src, b, there)
    BY ValueReadIs
  <1>7. here.ok
    <2>1. ~here.ok => size = Refused
      BY <1>5 DEF ValueSizeCases
    <2>2. ~Through(src, Refused)
      BY DEF Through, Refused
    <2> HIDE DEF size
    <2> QED
      BY <1>2, <2>1, <2>2
  <1>8. here.at = there
    BY <1>1, <1>4, <1>7
  <1>9. CASE c = "\""
    <2>1. size = json_get_string_size(src, sizes, here)
      BY <1>5, <1>7, <1>8, <1>9 DEF ValueSizeCases
    <2>2. json_parse_string(a, there) = json_parse_string(b, there)
      BY <1>2, <1>4, <1>8, <2>1, GetStringAlike
    <2> QED
      BY <1>3, <1>6, <1>9, <2>2 DEF ValueReadCases
  <1>10. CASE c = "{"
    <2>1. size = json_get_object_size(src, sizes, here)
      BY <1>5, <1>7, <1>8, <1>10 DEF ValueSizeCases
    <2>2. json_parse_object(a, there) = json_parse_object(b, there)
      BY <1>2, <1>4, <1>8, <2>1, BracketAlike
    <2> QED
      BY <1>3, <1>6, <1>10, <2>2 DEF ValueReadCases
  <1>11. CASE c = "["
    <2>1. size = json_get_array_size(src, sizes, here)
      BY <1>5, <1>7, <1>8, <1>11 DEF ValueSizeCases
    <2>2. json_parse_array(a, there) = json_parse_array(b, there)
      BY <1>2, <1>4, <1>8, <2>1, BracketAlike
    <2> QED
      BY <1>3, <1>6, <1>11, <2>2 DEF ValueReadCases
  <1>12. CASE c \in Digit \cup {"-"}
    BY <1>3, <1>6, <1>12 DEF ValueReadCases
  <1>13. CASE c \notin {"\"", "{", "["} /\ c \notin Digit \cup {"-"}
    <2>1. size = PastWord(here, Word(src, here.at))
      BY <1>5, <1>7, <1>8, <1>13 DEF ValueSizeCases
    <2>2. c \in {"t", "f", "n"}
      BY <1>2, <1>4, <1>7, <1>8, <2>1, WordInStep DEF Through
    <2> QED
      BY <1>3, <1>6, <2>2 DEF ValueReadCases
  <1> QED
    BY <1>9, <1>10, <1>11, <1>12, <1>13

(* What a turn makes of second passes that are alike is alike.             *)
LEMMA TurnAlike ==
    ASSUME NEW src \in Texts, NEW sizes, Advancing(sizes), NEW a, NEW b, Alike(src, sizes, a, b),
           Lockstep(src, sizes, a)
    PROVE  Alike(src, SizeTurn(src, sizes), ReadTurn(src, a), ReadTurn(src, b))
  <1> DEFINE size == SizeTurn(src, sizes)
             left == ReadTurn(src, a)
             right == ReadTurn(src, b)
  <1>1. ASSUME NEW o \in Nat, NEW high \in Nat, Through(src, size.string[o][high])
        PROVE  left.string[o][high] = right.string[o][high]
    <2>1. /\ size.string[o][high] = StringSize(src, sizes.string, o, high)
          /\ left.string[o][high] = StringText(src, a.string, o, high)
          /\ right.string[o][high] = StringText(src, b.string, o, high)
      BY DEF SizeTurn, ReadTurn
    <2> QED
      BY <1>1, <2>1, StringAlike
  <1>2. ASSUME NEW o \in Nat, Through(src, size.value[o])
        PROVE  left.value[o] = right.value[o]
    <2>1. /\ size.value[o] = json_get_value_size(src, sizes, Started(o))
          /\ left.value[o] = json_parse_value(src, a, o)
          /\ right.value[o] = json_parse_value(src, b, o)
      BY DEF SizeTurn, ReadTurn
    <2> QED
      BY <1>2, <2>1, ValueAlike
  <1>3. ASSUME NEW o \in Nat, NEW comma \in BOOLEAN, Through(src, size.members[o][comma])
        PROVE  left.members[o][comma] = right.members[o][comma]
    <2>1. /\ size.members[o][comma] = ObjectSize(src, sizes, Started(o), comma)
          /\ left.members[o][comma] = ObjectMembers(src, a, o, comma)
          /\ right.members[o][comma] = ObjectMembers(src, b, o, comma)
      BY DEF SizeTurn, ReadTurn
    <2> QED
      BY <1>3, <2>1, MembersAlike
  <1>4. ASSUME NEW o \in Nat, NEW comma \in BOOLEAN, Through(src, size.elements[o][comma])
        PROVE  left.elements[o][comma] = right.elements[o][comma]
    <2>1. /\ size.elements[o][comma] = ArraySize(src, sizes, Started(o), comma)
          /\ left.elements[o][comma] = ArrayElements(src, a, o, comma)
          /\ right.elements[o][comma] = ArrayElements(src, b, o, comma)
      BY DEF SizeTurn, ReadTurn
    <2> QED
      BY <1>4, <2>1, ElementsAlike
  <1> HIDE DEF size, left, right
  <1>5. Alike(src, size, left, right)
    BY <1>1, <1>2, <1>3, <1>4 DEF Alike
  <1> QED
    BY <1>5 DEF size, left, right

(* One turn more changes nothing of the second pass where the first lets   *)
(* through.                                                                *)
LEMMA AlikeAlways ==
    ASSUME NEW src \in Texts, NEW n \in Nat
    PROVE  Alike(src, Sizing(src)[n], Reading(src)[n], Reading(src)[n + 1])
  <1> DEFINE Same(k) == Alike(src, Sizing(src)[k], Reading(src)[k], Reading(src)[k + 1])
             S == {k \in Nat : Same(k)}
  <1>1. 0 \in S
    <2>1. Sizing(src)[0] = NoSizes
      BY SizingTurns
    <2>2. ~Refused.ok
      BY DEF Refused
    <2>3. \A a, b : Alike(src, NoSizes, a, b)
      BY <2>2 DEF Alike, Through, NoSizes
    <2> QED
      BY <2>1, <2>3
  <1>2. ASSUME NEW k \in S PROVE k + 1 \in S
    <2>1. k + 1 \in Nat /\ k + 1 # 0 /\ k + 1 - 1 = k
      OBVIOUS
    <2>2. k + 1 + 1 \in Nat /\ k + 1 + 1 # 0 /\ k + 1 + 1 - 1 = k + 1
      OBVIOUS
    <2>3. /\ Sizing(src)[k + 1] = SizeTurn(src, Sizing(src)[k])
          /\ Reading(src)[k + 1] = ReadTurn(src, Reading(src)[k])
      BY <2>1, SizingTurns, ReadingTurns
    <2>4. Reading(src)[k + 1 + 1] = ReadTurn(src, Reading(src)[k + 1])
      BY <2>2, ReadingTurns
    <2>5. Advancing(Sizing(src)[k]) /\ Lockstep(src, Sizing(src)[k], Reading(src)[k])
      BY SizingAdvances, PassesInStep
    <2>6. Same(k)
      OBVIOUS
    <2>7. Alike(src, SizeTurn(src, Sizing(src)[k]), ReadTurn(src, Reading(src)[k]),
                     ReadTurn(src, Reading(src)[k + 1]))
      BY <2>5, <2>6, TurnAlike
    <2>8. Same(k + 1)
      BY <2>3, <2>4, <2>7
    <2> QED
      BY <2>1, <2>8
  <1> HIDE DEF S
  <1>3. S = Nat
    BY <1>1, <1>2, AllNaturals DEF S
  <1> QED
    BY <1>3 DEF S
-----------------------------------------------------------------------------
(* The two passes as a whole.                                              *)

(* json_parse on any text (json.h:2055-2164): where the first pass accepts *)
(* it, the second ends at the same character, fills the part of the        *)
(* allocation meant for the DOM exactly, and writes no more characters     *)
(* than the first counted, so nothing it writes lies over anything else.   *)
THEOREM PassesAgreeOnTexts ==
    ASSUME NEW src \in Texts
    PROVE  /\ Agree(Sizes(src), Written(src))
           /\ Fits(Sizes(src), Written(src))
  <1> DEFINE size == Sizing(src)[Turns(src)].value[0]
             read == Reading(src)[Turns(src)].value[0]
  <1>1. Turns(src) \in Nat /\ 0 \in Nat /\ Len(src) \in Nat
    BY DEF Turns, Texts
  <1>2. Agrees(src, Struct, 0, size, read)
    BY <1>1, PassesInStep DEF Lockstep
  <1>3. size \in State
    BY <1>1, SizingAdvances, CallsReturn
  <1>4. Sizes(src) = IF size.ok /\ json_skip_whitespace(src, size.at) = Len(src)
                     THEN size ELSE Refused
    BY DEF Sizes, AtEnd
  <1>5. /\ Written(src).at = read.at /\ Written(src).dom = Struct + read.dom
        /\ Written(src).data = read.data
    BY DEF Written, Done
  <1> HIDE DEF size, read
  <1>6. CASE size.ok /\ json_skip_whitespace(src, size.at) = Len(src)
    <2>1. size.at <= Len(src)
      <3>1. size.at \in Nat
        BY <1>3 DEF State
      <3>2. json_skip_whitespace(src, size.at) >= size.at
        BY <3>1, Blanks
      <3> QED
        BY <1>6, <3>2
    <2>2. /\ read.at = size.at /\ size.dom = Struct + read.dom
          /\ read.data \in Seq(Scribed) /\ 0 + Len(read.data) <= size.data
      BY <1>2, <1>6, <2>1 DEF Agrees
    <2>3. Len(read.data) \in Nat
      BY <2>2
    <2>4. Len(read.data) <= size.data
      BY <2>2, <2>3
    <2> QED
      BY <1>4, <1>5, <1>6, <2>2, <2>4 DEF Agree, Fits
  <1>7. CASE ~(size.ok /\ json_skip_whitespace(src, size.at) = Len(src))
    <2>1. Sizes(src) = Refused
      BY <1>4, <1>7
    <2> QED
      BY <2>1 DEF Agree, Fits, Refused
  <1> QED
    BY <1>6, <1>7

(* Both passes end (json.h:682-1453, 1461-2053).  With calls and rounds    *)
(* nested no deeper than twice the length of the text the first pass has   *)
(* come to its answer; and where it accepts the text, the second pass,     *)
(* whose loops run up to a bracket or a quote whatever comes before it,    *)
(* has come to its value.  Any more turns yield the same.                  *)
THEOREM TurnsSuffice ==
    ASSUME NEW src \in Texts, NEW n \in Nat, n >= Turns(src)
    PROVE  /\ Sizes(src) = AtEnd(src, Sizing(src)[n].value[0])
           /\ Sizes(src).ok =>
                 Reading(src)[n].value[0] = Reading(src)[Turns(src)].value[0]
  <1> DEFINE T == Turns(src)
             size(k) == Sizing(src)[k].value[0]
             read(k) == Reading(src)[k].value[0]
  <1>1. Len(src) \in Nat /\ T \in Nat /\ 0 \in Nat
    BY DEF Texts, Turns
  <1>2. \A k \in Nat : k >= T => size(k) = size(T)
    BY SizingEnds
  <1>3. Sizes(src) = AtEnd(src, size(T))
    BY DEF Sizes
  <1>4. ASSUME Sizes(src).ok
        PROVE  read(n) = read(T)
    <2> DEFINE S == {k \in Nat : read(T + k) = read(T)}
    <2>1. Through(src, size(T))
      <3>1. size(T) \in State
        BY <1>1, SizingAdvances, CallsReturn
      <3> HIDE DEF size
      <3>2. size(T).ok /\ json_skip_whitespace(src, size(T).at) = Len(src)
        BY <1>3, <1>4 DEF AtEnd, Refused
      <3>3. size(T).at \in Nat
        BY <3>1 DEF State
      <3>4. json_skip_whitespace(src, size(T).at) >= size(T).at
        BY <3>3, Blanks
      <3> QED
        BY <3>2, <3>4 DEF Through
    <2>2. 0 \in S
      BY <1>1
    <2>3. ASSUME NEW k \in S PROVE k + 1 \in S
      <3>1. T + k \in Nat /\ T + k >= T /\ T + k + 1 = T + (k + 1)
        BY <1>1
      <3>2. Through(src, size(T + k))
        <4>1. size(T + k) = size(T)
          BY <1>2, <3>1
        <4> HIDE DEF size
        <4> QED
          BY <2>1, <4>1
      <3>3. read(T + k) = read(T + k + 1)
        BY <1>1, <3>1, <3>2, AlikeAlways, SMTT(30) DEF Alike
      <3> QED
        BY <3>1, <3>3
    <2> HIDE DEF S, T, read
    <2>4. S = Nat
      BY <2>2, <2>3, AllNaturals DEF S
    <2>5. n - T \in Nat /\ n = T + (n - T)
      BY <1>1 DEF T
    <2> QED
      BY <2>4, <2>5 DEF S
  <1> QED
    BY <1>2, <1>3, <1>4
-----------------------------------------------------------------------------
(* The grammar's reading of a text, one character after the other.  What   *)
(* follows is about one run, reads: reads[o] is what the grammar makes of  *)
(* the first o characters.                                                 *)

FoldingReads(f, r, chars, D) ==
    f = [s \in SUBSET D |->
            IF s = {} THEN r ELSE Reads(f[s \ {Max(s)}], chars[Max(s)])]

(* The grammar of a text is a fold over its characters.                    *)
LEMMA ReadsAllIsChosen ==
    ASSUME NEW r, NEW chars
    PROVE  ReadsAll(r, chars)
             = (CHOOSE f : FoldingReads(f, r, chars, DOMAIN chars))[DOMAIN chars]
  BY DEF ReadsAll, FoldLeft, MapThenFoldSet, FoldingReads

(* There is a function for that fold.                                      *)
LEMMA FoldingReadsExists ==
    ASSUME NEW r, NEW chars, NEW n \in Nat
    PROVE  \E f : FoldingReads(f, r, chars, 1 .. n)
  <1> DEFINE S == {k \in Nat : \E f : FoldingReads(f, r, chars, 1 .. k)}
  <1>1. 0 \in S
    <2> DEFINE f == [s \in SUBSET {} |-> r]
    <2>1. FoldingReads(f, r, chars, {})
      BY DEF FoldingReads
    <2> HIDE DEF f
    <2>2. 1 .. 0 = {}
      OBVIOUS
    <2> QED
      BY <2>1, <2>2
  <1>2. ASSUME NEW k \in S PROVE k + 1 \in S
    <2>1. PICK f : FoldingReads(f, r, chars, 1 .. k)
      BY <1>2
    <2> DEFINE g == [s \in SUBSET (1 .. (k + 1)) |->
                        IF k + 1 \in s THEN Reads(f[s \ {k + 1}], chars[k + 1]) ELSE f[s]]
    <2>2. k \in Nat
      BY <1>2
    <2>3. ASSUME NEW s \in SUBSET (1 .. (k + 1))
          PROVE  g[s] = IF s = {} THEN r ELSE Reads(g[s \ {Max(s)}], chars[Max(s)])
      <3>1. CASE k + 1 \in s
        <4>1. Max(s) = k + 1
          <5>1. s \in SUBSET Nat /\ \A y \in s : k + 1 >= y
            BY <2>2
          <5> QED
            BY <3>1, <5>1, MaxIsGreatest
        <4>2. s \ {k + 1} \in SUBSET (1 .. k)
          BY <2>2
        <4>3. g[s \ {k + 1}] = f[s \ {k + 1}]
          BY <2>2, <4>2
        <4> QED
          BY <3>1, <4>1, <4>3
      <3>2. CASE k + 1 \notin s
        <4>1. s \in SUBSET (1 .. k)
          BY <2>2, <3>2
        <4>2. f[s] = IF s = {} THEN r ELSE Reads(f[s \ {Max(s)}], chars[Max(s)])
          BY <2>1, <4>1 DEF FoldingReads
        <4>3. CASE s = {}
          BY <3>2, <4>2, <4>3
        <4>4. CASE s # {}
          <5>1. g[s \ {Max(s)}] = f[s \ {Max(s)}]
            BY <3>2
          <5> QED
            BY <3>2, <4>2, <4>4, <5>1
        <4> QED
          BY <4>3, <4>4
      <3> QED
        BY <3>1, <3>2
    <2>4. g = [s \in SUBSET (1 .. (k + 1)) |-> g[s]]
      OBVIOUS
    <2> HIDE DEF g
    <2>5. FoldingReads(g, r, chars, 1 .. (k + 1))
      BY <2>3, <2>4 DEF FoldingReads
    <2> QED
      BY <2>2, <2>5
  <1> HIDE DEF S
  <1>3. S = Nat
    BY <1>1, <1>2, AllNaturals DEF S
  <1> QED
    BY <1>3 DEF S

(* The readings of the beginnings of a text, from `r' on.                  *)
RunFrom(reads, r, src) ==
    /\ reads[0] = r
    /\ \A o \in 0 .. Len(src) - 1 : reads[o + 1] = Reads(reads[o], src[o + 1])

(* A text has such a run, and ReadsAll is its end.                         *)
LEMMA RunExists ==
    ASSUME NEW r, NEW src \in Texts
    PROVE  \E reads : RunFrom(reads, r, src) /\ reads[Len(src)] = ReadsAll(r, src)
  <1> DEFINE n == Len(src)
             f == CHOOSE h : FoldingReads(h, r, src, 1 .. n)
             g == [i \in 0 .. n |-> f[1 .. i]]
  <1>1. n \in Nat /\ DOMAIN src = 1 .. n
    BY DEF Texts
  <1>2. FoldingReads(f, r, src, 1 .. n)
    BY <1>1, FoldingReadsExists
  <1>3. ReadsAll(r, src) = f[1 .. n]
    BY <1>1, ReadsAllIsChosen
  <1> HIDE DEF f, n
  <1>4. g[0] = r
    <2>1. f[{}] = r
      BY <1>2 DEF FoldingReads
    <2>2. 1 .. 0 = {}
      OBVIOUS
    <2> QED
      BY <1>1, <2>1, <2>2
  <1>5. ASSUME NEW o \in 0 .. n - 1 PROVE g[o + 1] = Reads(g[o], src[o + 1])
    <2> DEFINE i == o + 1
    <2>0. i \in Nat /\ o \in Nat /\ i >= 1 /\ i <= n /\ i - 1 = o
      BY <1>1
    <2> HIDE DEF i
    <2>1. 1 .. i # {} /\ (1 .. i) \ {i} = 1 .. (i - 1) /\ 1 .. i \in SUBSET (1 .. n)
      BY <1>1, <2>0, SMTT(30)
    <2>2. Max(1 .. i) = i
      <3>1. 1 .. i \in SUBSET Nat /\ i \in 1 .. i /\ \A y \in 1 .. i : i >= y
        BY <1>1, <2>0
      <3> QED
        BY <3>1, MaxIsGreatest
    <2>3. f[1 .. i] = Reads(f[(1 .. i) \ {Max(1 .. i)}], src[Max(1 .. i)])
      BY <1>2, <2>1 DEF FoldingReads
    <2>4. g[i] = f[1 .. i] /\ g[i - 1] = f[1 .. (i - 1)]
      BY <1>1, <2>0
    <2> HIDE DEF g
    <2> QED
      BY <2>0, <2>1, <2>2, <2>3, <2>4 DEF i
  <1>6. g[n] = f[1 .. n]
    BY <1>1
  <1> HIDE DEF g
  <1> QED
    BY <1>3, <1>4, <1>5, <1>6 DEF RunFrom, n

(* A run is determined.                                                    *)
LEMMA RunUnique ==
    ASSUME NEW r, NEW src \in Texts, NEW a, NEW b, RunFrom(a, r, src), RunFrom(b, r, src),
           NEW n \in 0 .. Len(src)
    PROVE  a[n] = b[n]
  <1> DEFINE S == {k \in Nat : k <= Len(src) => a[k] = b[k]}
  <1>1. Len(src) \in Nat
    BY DEF Texts
  <1>2. 0 \in S
    BY DEF RunFrom
  <1>3. ASSUME NEW k \in S PROVE k + 1 \in S
    <2>1. ASSUME k + 1 <= Len(src) PROVE a[k + 1] = b[k + 1]
      <3>1. k \in 0 .. Len(src) - 1 /\ a[k] = b[k]
        BY <1>1, <2>1
      <3> QED
        BY <3>1 DEF RunFrom
    <2> QED
      BY <2>1
  <1> HIDE DEF S
  <1>4. S = Nat
    BY <1>2, <1>3, AllNaturals DEF S
  <1> QED
    BY <1>1, <1>4 DEF S

(* A text can be read in two parts.                                        *)
LEMMA ReadsParts ==
    ASSUME NEW r, NEW left \in Texts, NEW right \in Texts
    PROVE  ReadsAll(r, left \o right) = ReadsAll(ReadsAll(r, left), right)
  <1> DEFINE src == left \o right
             m == Len(left)
             n == Len(right)
  <1>1. /\ src \in Texts /\ m \in Nat /\ n \in Nat /\ Len(src) = m + n
        /\ \A i \in 1 .. m : src[i] = left[i]
        /\ \A i \in 1 .. n : src[m + i] = right[i]
    BY DEF Texts
  <1> HIDE DEF src
  <1>2. PICK a : RunFrom(a, r, left) /\ a[m] = ReadsAll(r, left)
    BY RunExists
  <1>3. PICK b : RunFrom(b, a[m], right) /\ b[n] = ReadsAll(a[m], right)
    BY RunExists
  <1>4. PICK c : RunFrom(c, r, src) /\ c[Len(src)] = ReadsAll(r, src)
    BY <1>1, RunExists
  <1> HIDE DEF m, n
  <1> DEFINE d == [i \in Nat |-> IF i <= m THEN a[i] ELSE b[i - m]]
  <1>5. RunFrom(d, r, src)
    <2>1. d[0] = r
      BY <1>1, <1>2 DEF RunFrom
    <2>2. ASSUME NEW o \in 0 .. m + n - 1 PROVE d[o + 1] = Reads(d[o], src[o + 1])
      <3>1. CASE o < m
        <4>1. o \in 0 .. m - 1 /\ o + 1 \in 1 .. m /\ d[o] = a[o] /\ d[o + 1] = a[o + 1]
          BY <1>1, <3>1
        <4> HIDE DEF d
        <4> QED
          BY <1>1, <1>2, <4>1 DEF RunFrom, m
      <3>2. CASE o >= m
        <4> DEFINE p == o - m
        <4>1. /\ p \in 0 .. n - 1 /\ p + 1 \in 1 .. n /\ d[o + 1] = b[p + 1]
              /\ o + 1 = m + (p + 1)
          BY <1>1, <3>2
        <4>2. d[o] = b[p]
          <5>1. CASE o = m
            <6>1. d[o] = a[m] /\ p = 0
              BY <1>1, <5>1
            <6>2. b[0] = a[m]
              BY <1>3 DEF RunFrom
            <6> QED
              BY <6>1, <6>2
          <5>2. CASE o > m
            BY <1>1, <5>2
          <5> QED
            BY <1>1, <3>2, <5>1, <5>2
        <4> HIDE DEF d, p
        <4>3. b[p + 1] = Reads(b[p], right[p + 1])
          BY <1>3, <4>1 DEF RunFrom, n
        <4>4. src[o + 1] = right[p + 1]
          BY <1>1, <4>1
        <4> QED
          BY <4>1, <4>2, <4>3, <4>4
      <3> QED
        BY <1>1, <3>1, <3>2
    <2> HIDE DEF d
    <2> QED
      BY <1>1, <2>1, <2>2 DEF RunFrom
  <1>6. d[m + n] = b[n]
    <2>1. CASE n = 0
      BY <1>1, <1>3, <2>1 DEF RunFrom
    <2>2. CASE n # 0
      BY <1>1, <2>2
    <2> QED
      BY <2>1, <2>2
  <1> HIDE DEF d
  <1>7. c[m + n] = d[m + n]
    <2>1. m + n \in 0 .. Len(src)
      BY <1>1
    <2> QED
      BY <1>1, <1>4, <1>5, <2>1, RunUnique
  <1> QED
    BY <1>1, <1>2, <1>3, <1>4, <1>6, <1>7 DEF src, m, n
-----------------------------------------------------------------------------
(* The readings of the grammar, and what changes them.                     *)
NumberModes == {"minus", "zero", "int", "point", "frac", "e", "sign", "exp"}
StructureModes == {"value", "array", "object", "member", "colon", "after"}
TextModes == {"string", "escape", "unicode"}
Modes == NumberModes \cup StructureModes \cup TextModes \cup {"word", "stuck"}

Brackets == {"{", "["}

Readings ==
    [mode : Modes, open : Seq(Brackets), part : Seq(STRING), key : BOOLEAN, high : BOOLEAN]

(* As r, but for the mode.                                                 *)
OnlyMode(q, r, mode) ==
    /\ q \in Readings /\ q.mode = mode /\ q.open = r.open
    /\ q.part = r.part /\ q.key = r.key /\ q.high = r.high

(* A change of the mode keeps the reading one of Readings.                 *)
LEMMA InReadings ==
    ASSUME NEW r \in Readings, NEW mode \in Modes
    PROVE  OnlyMode(In(r, mode), r, mode)
  BY DEF OnlyMode, In, Readings

(* So does the failure.                                                    *)
LEMMA StuckReadings ==
    ASSUME NEW r \in Readings
    PROVE  OnlyMode(Stuck(r), r, "stuck")
  <1>1. "stuck" \in Modes
    BY DEF Modes
  <1> QED
    BY <1>1, InReadings DEF Stuck

(* So does a bracket opened.                                               *)
LEMMA BracketReadings ==
    ASSUME NEW r \in Readings, NEW bracket \in Brackets, NEW mode \in Modes
    PROVE  LET q == Opened(r, bracket, mode)
           IN  /\ q \in Readings /\ q.mode = mode /\ q.high = r.high
               /\ q.open = Append(r.open, bracket)
               /\ Closed(q) \in Readings /\ Closed(q).mode = "after"
               /\ Closed(q).high = r.high /\ Closed(q).open = r.open
  <1> DEFINE q == Opened(r, bracket, mode)
  <1>0. r.open \in Seq(Brackets)
    BY DEF Readings
  <1>1. r.open \in Seq(Brackets) /\ Append(r.open, bracket) \in Seq(Brackets)
    BY <1>0, Appended
  <1>2. /\ q \in Readings /\ q.mode = mode /\ q.high = r.high
        /\ q.open = Append(r.open, bracket)
    BY <1>1 DEF Opened, Readings
  <1> HIDE DEF q
  <1>3. Front(q.open) = r.open
    BY <1>1, <1>2, FrontAppend
  <1>4. /\ Closed(q) \in Readings /\ Closed(q).mode = "after"
        /\ Closed(q).high = q.high /\ Closed(q).open = r.open
    BY <1>1, <1>2, <1>3 DEF Closed, Readings, Modes, StructureModes
  <1> QED
    BY <1>2, <1>4 DEF q

(* So does a bracket closed.                                               *)
LEMMA ClosedReadings ==
    ASSUME NEW r \in Readings
    PROVE  /\ Closed(r) \in Readings /\ Closed(r).mode = "after" /\ Closed(r).high = r.high
           /\ \A open \in Seq(Brackets), bracket \in Brackets :
                 r.open = Append(open, bracket) => Closed(r).open = open
  <1>0. r.open \in Seq(Brackets)
    BY DEF Readings
  <1>1. /\ Front(r.open) \in Seq(Brackets)
        /\ \A open \in Seq(Brackets), bracket \in Brackets :
              r.open = Append(open, bracket) => Front(r.open) = open
    BY <1>0, FrontOf
  <1>3. /\ Closed(r) \in Readings /\ Closed(r).mode = "after" /\ Closed(r).high = r.high
        /\ Closed(r).open = Front(r.open)
    BY <1>1 DEF Closed, Readings, Modes, StructureModes
  <1> QED
    BY <1>1, <1>3

(* So does a string begun.                                                 *)
LEMMA QuotedReadings ==
    ASSUME NEW r \in Readings, NEW key \in BOOLEAN
    PROVE  LET q == Quoted(r, key)
           IN  /\ q \in Readings /\ q.mode = "string" /\ q.key = key
               /\ q.open = r.open /\ q.high = r.high
  BY DEF Quoted, Readings, Modes, TextModes

(* So does the part of a word or of a codepoint.                           *)
LEMMA PartReadings ==
    ASSUME NEW r \in Readings, NEW part \in Seq(STRING), NEW mode \in Modes
    PROVE  LET q == [r EXCEPT !.mode = mode, !.part = part]
           IN  /\ q \in Readings /\ q.mode = mode /\ q.part = part
               /\ q.open = r.open /\ q.high = r.high /\ q.key = r.key
  BY DEF Readings

(* So does the half of a surrogate pair.                                   *)
LEMMA HighReadings ==
    ASSUME NEW r \in Readings, NEW high \in BOOLEAN
    PROVE  LET q == [In(r, "string") EXCEPT !.high = high]
           IN  /\ q \in Readings /\ q.mode = "string" /\ q.high = high
               /\ q.open = r.open /\ q.key = r.key
  BY DEF In, Readings, Modes, TextModes

(* So does the first character of a value.                                 *)
LEMMA ValueStartsReadings ==
    ASSUME NEW r \in Readings, NEW c \in STRING
    PROVE  ValueStarts(r, c) \in Readings
  <1>1. \A mode \in Modes : In(r, mode) \in Readings
    BY InReadings DEF OnlyMode
  <1>2. Stuck(r) \in Readings
    BY StuckReadings DEF OnlyMode
  <1>3. Quoted(r, FALSE) \in Readings
    BY QuotedReadings
  <1>4. /\ "object" \in Modes /\ "array" \in Modes /\ "word" \in Modes /\ "value" \in Modes
        /\ "minus" \in Modes /\ "zero" \in Modes /\ "int" \in Modes
    BY DEF Modes, StructureModes, NumberModes
  <1>5. Opened(r, "{", "object") \in Readings /\ Opened(r, "[", "array") \in Readings
    BY <1>4, BracketReadings DEF Brackets
  <1>6. [r EXCEPT !.mode = "word", !.part = <<c>>] \in Readings
    <2>1. <<c>> \in Seq(STRING)
      BY Single
    <2> QED
      BY <1>4, <2>1, PartReadings
  <1> QED
    BY <1>1, <1>2, <1>3, <1>4, <1>5, <1>6 DEF ValueStarts

(* So does the first character behind one.                                 *)
LEMMA AfterValueReadings ==
    ASSUME NEW r \in Readings, NEW c
    PROVE  AfterValue(r, c) \in Readings
  <1>1. \A mode \in Modes : In(r, mode) \in Readings
    BY InReadings DEF OnlyMode
  <1>2. Stuck(r) \in Readings /\ Closed(r) \in Readings
    BY StuckReadings, ClosedReadings DEF OnlyMode
  <1>3. "after" \in Modes /\ "member" \in Modes /\ "value" \in Modes
    BY DEF Modes, StructureModes
  <1> QED
    BY <1>1, <1>2, <1>3 DEF AfterValue

(* So does a character outside of strings.                                 *)
LEMMA StructureReadings ==
    ASSUME NEW r \in Readings, NEW c \in STRING, r.mode \in StructureModes
    PROVE  Structure(r, c) \in Readings
  <1>1. \A mode \in StructureModes : In(r, mode) \in Readings
    BY InReadings DEF OnlyMode, Modes
  <1>2. Stuck(r) \in Readings /\ Closed(r) \in Readings
    BY StuckReadings, ClosedReadings DEF OnlyMode
  <1>3. ValueStarts(r, c) \in Readings /\ AfterValue(r, c) \in Readings
    BY ValueStartsReadings, AfterValueReadings
  <1>4. Quoted(r, TRUE) \in Readings
    BY QuotedReadings
  <1>5. \A mode \in StructureModes : Spaced(r, c, mode) \in Readings
    BY <1>1, <1>2 DEF Spaced
  <1>6. {"value", "array", "object", "member", "colon", "after"} = StructureModes
    BY DEF StructureModes
  <1> QED
    BY <1>1, <1>2, <1>3, <1>4, <1>5, <1>6 DEF Structure

(* So does a character in a number.                                        *)
LEMMA NumberReadings ==
    ASSUME NEW r \in Readings, NEW c
    PROVE  Number(r, c) \in Readings
  <1>1. \A mode \in NumberModes : In(r, mode) \in Readings
    BY InReadings DEF OnlyMode, Modes
  <1>2. Stuck(r) \in Readings /\ AfterValue(r, c) \in Readings
    BY StuckReadings, AfterValueReadings DEF OnlyMode
  <1> QED
    BY <1>1, <1>2 DEF Number, NumberModes

(* So does a character in a word.                                          *)
LEMMA KeywordReadings ==
    ASSUME NEW r \in Readings, NEW c \in STRING
    PROVE  Keyword(r, c) \in Readings
  <1>1. In(r, "after") \in Readings /\ Stuck(r) \in Readings
    BY InReadings, StuckReadings DEF OnlyMode, Modes, StructureModes
  <1>2. Append(r.part, c) \in Seq(STRING)
    <2>1. r.part \in Seq(STRING)
      BY DEF Readings
    <2> QED
      BY <2>1, Appended
  <1>3. \A part \in Seq(STRING) : [r EXCEPT !.part = part] \in Readings
    BY DEF Readings
  <1> QED
    BY <1>1, <1>2, <1>3 DEF Keyword

(* So does the last digit of a codepoint.                                  *)
LEMMA CodepointReadings ==
    ASSUME NEW r \in Readings, NEW digits
    PROVE  Codepoint(r, digits) \in Readings
  <1>1. In(r, "string") \in Readings /\ Stuck(r) \in Readings
    BY InReadings, StuckReadings DEF OnlyMode, Modes, TextModes
  <1>2. \A high \in BOOLEAN : [In(r, "string") EXCEPT !.high = high] \in Readings
    BY HighReadings
  <1> QED
    BY <1>1, <1>2 DEF Codepoint

(* So does a character in a string.                                        *)
LEMMA TextReadings ==
    ASSUME NEW r \in Readings, NEW c \in STRING, r.mode \in TextModes
    PROVE  Text(r, c) \in Readings
  <1>1. \A mode \in Modes : In(r, mode) \in Readings
    BY InReadings DEF OnlyMode
  <1>2. Stuck(r) \in Readings /\ \A digits : Codepoint(r, digits) \in Readings
    BY StuckReadings, CodepointReadings DEF OnlyMode
  <1>3. {"colon", "after", "escape", "string", "unicode"} \subseteq Modes
    BY DEF Modes, StructureModes, TextModes
  <1>4. Append(r.part, c) \in Seq(STRING) /\ <<>> \in Seq(STRING)
    <2>1. r.part \in Seq(STRING)
      BY DEF Readings
    <2> QED
      BY <2>1, Appended, Single
  <1>5. /\ [r EXCEPT !.part = Append(r.part, c)] \in Readings
        /\ [r EXCEPT !.mode = "unicode", !.part = <<>>] \in Readings
    BY <1>3, <1>4, PartReadings DEF Readings
  <1>6. CASE r.mode = "string"
    BY <1>1, <1>2, <1>3, <1>6 DEF Text
  <1>7. CASE r.mode = "escape"
    BY <1>1, <1>2, <1>3, <1>5, <1>7 DEF Text
  <1>8. CASE r.mode = "unicode"
    BY <1>2, <1>5, <1>8 DEF Text
  <1> QED
    BY <1>6, <1>7, <1>8 DEF TextModes

(* What Reads does in each group of modes.                                 *)
LEMMA ReadsIs ==
    ASSUME NEW r \in Readings, NEW c
    PROVE  /\ r.mode \in StructureModes => Reads(r, c) = Structure(r, c)
           /\ r.mode \in NumberModes => Reads(r, c) = Number(r, c)
           /\ r.mode = "word" => Reads(r, c) = Keyword(r, c)
           /\ r.mode \in TextModes => Reads(r, c) = Text(r, c)
           /\ r.mode = "stuck" => Reads(r, c) = r
  BY DEF Reads, StructureModes, NumberModes, TextModes

(* So does any character.                                                  *)
LEMMA ReadsReadings ==
    ASSUME NEW r \in Readings, NEW c \in STRING
    PROVE  Reads(r, c) \in Readings
  <1>1. r.mode \in Modes
    BY DEF Readings
  <1> QED
    BY <1>1, ReadsIs, StructureReadings, NumberReadings, KeywordReadings, TextReadings DEF Modes

(* One run of the grammar over a text.                                     *)
Run(src, reads) ==
    /\ \A o \in 0 .. Len(src) : reads[o] \in Readings
    /\ \A o \in Nat : o < Len(src) => reads[o + 1] = Reads(reads[o], At(src, o))

(* So does any text.                                                       *)
LEMMA RunReadings ==
    ASSUME NEW src \in Texts, NEW reads, RunFrom(reads, NothingYet, src)
    PROVE  Run(src, reads)
  <1>1. Len(src) \in Nat
    BY DEF Texts
  <1>2. NothingYet \in Readings
    BY DEF NothingYet, Readings, Modes, StructureModes
  <1>3. ASSUME NEW o \in Nat, o < Len(src)
        PROVE  /\ reads[o + 1] = Reads(reads[o], At(src, o)) /\ At(src, o) \in STRING
               /\ At(src, o) = src[o + 1]
    <2>1. o \in 0 .. Len(src) - 1 /\ o + 1 \in 1 .. Len(src)
      BY <1>1, <1>3
    <2>2. src[o + 1] \in STRING
      BY <2>1 DEF Texts
    <2> QED
      BY <1>3, <2>1, <2>2 DEF RunFrom, At
  <1> DEFINE S == {k \in Nat : k <= Len(src) => reads[k] \in Readings}
  <1>4. 0 \in S
    BY <1>2 DEF RunFrom
  <1>5. ASSUME NEW k \in S PROVE k + 1 \in S
    <2>1. ASSUME k + 1 <= Len(src) PROVE reads[k + 1] \in Readings
      <3>1. k < Len(src) /\ k \in Nat /\ reads[k] \in Readings
        BY <1>1, <2>1
      <3> HIDE DEF S
      <3> QED
        BY <1>3, <3>1, ReadsReadings
    <2> QED
      BY <2>1
  <1> HIDE DEF S
  <1>6. S = Nat
    BY <1>4, <1>5, AllNaturals DEF S
  <1>7. \A o \in 0 .. Len(src) : reads[o] \in Readings
    BY <1>1, <1>6 DEF S
  <1> QED
    BY <1>3, <1>7 DEF Run
-----------------------------------------------------------------------------
(* What AcceptsJson says of a whole text, of the reading at its end.       *)
Accepts(r) == Complete(r) \/ (r.mode = "minus" /\ r.open = <<>>)
Fails(src, reads) == ~Accepts(reads[Len(src)])

(* A text that ends before its value does is none of the grammar's.        *)
LEMMA UnfinishedFails ==
    ASSUME NEW src, NEW reads,
           \/ reads[Len(src)].open # <<>>
           \/ reads[Len(src)].mode \notin {"after", "zero", "int", "frac", "exp", "minus"}
    PROVE  Fails(src, reads)
  BY DEF Fails, Accepts, Complete

(* Characters that do not change a reading.                                *)
LEMMA Lingers ==
    ASSUME NEW src \in Texts, NEW reads, Run(src, reads), NEW o \in Nat, NEW end \in Nat,
           o <= end, end <= Len(src), NEW r, reads[o] = r,
           \A i \in o .. end - 1 : Reads(r, At(src, i)) = r
    PROVE  reads[end] = r
  <1> DEFINE S == {k \in Nat : o + k <= end => reads[o + k] = r}
  <1>1. Len(src) \in Nat
    BY DEF Texts
  <1>2. 0 \in S
    BY <1>1
  <1>3. ASSUME NEW k \in S PROVE k + 1 \in S
    <2>1. ASSUME o + (k + 1) <= end PROVE reads[o + (k + 1)] = r
      <3>1. /\ o + k \in Nat /\ o + k < Len(src) /\ o + k \in o .. end - 1
            /\ reads[o + k] = r /\ o + (k + 1) = (o + k) + 1
        BY <1>1, <2>1
      <3>2. reads[(o + k) + 1] = Reads(reads[o + k], At(src, o + k))
        BY <3>1 DEF Run
      <3> QED
        BY <3>1, <3>2
    <2> QED
      BY <2>1
  <1> HIDE DEF S
  <1>4. S = Nat
    BY <1>2, <1>3, AllNaturals DEF S
  <1>5. end - o \in Nat /\ o + (end - o) = end
    OBVIOUS
  <1>6. end - o \in S
    BY <1>4, <1>5
  <1> QED
    BY <1>5, <1>6 DEF S

(* Nor is one the grammar has failed on.                                   *)
LEMMA StuckFails ==
    ASSUME NEW src \in Texts, NEW reads, Run(src, reads), NEW o \in Nat, o <= Len(src),
           reads[o].mode = "stuck"
    PROVE  Fails(src, reads)
  <1>1. Len(src) \in Nat
    BY DEF Texts
  <1>2. reads[o] \in Readings
    BY <1>1 DEF Run
  <1>3. \A c : Reads(reads[o], c) = reads[o]
    BY <1>2, ReadsIs
  <1>4. reads[Len(src)] = reads[o]
    BY <1>1, <1>3, Lingers
  <1> QED
    BY <1>4, UnfinishedFails

(* A character that is refused.                                            *)
LEMMA RefusedFails ==
    ASSUME NEW src \in Texts, NEW reads, Run(src, reads), NEW o \in Nat, o < Len(src),
           Reads(reads[o], At(src, o)) = Stuck(reads[o])
    PROVE  Fails(src, reads)
  <1>1. Len(src) \in Nat /\ o + 1 \in Nat /\ o + 1 <= Len(src)
    BY DEF Texts
  <1>2. reads[o] \in Readings /\ reads[o + 1] = Stuck(reads[o])
    BY <1>1 DEF Run
  <1>3. reads[o + 1].mode = "stuck"
    BY <1>2, StuckReadings DEF OnlyMode
  <1> QED
    BY <1>1, <1>3, StuckFails

(* The mode it is in changes nothing.                                      *)
LEMMA InSame ==
    ASSUME NEW r \in Readings
    PROVE  In(r, r.mode) = r
  BY DEF In, Readings

(* Whitespace outside of values.                                           *)
LEMMA BlankReads ==
    ASSUME NEW r \in Readings, r.mode \in StructureModes, NEW c \in Space
    PROVE  Reads(r, c) = r
  <1>1. Reads(r, c) = Structure(r, c) /\ In(r, r.mode) = r
    BY ReadsIs, InSame
  <1>2. c \notin {"\"", "{", "[", "}", "]", ",", ":", "-", "0", "t", "f", "n"} /\ c \notin Digit
    BY DEF Space, Digit
  <1>3. CASE r.mode = "value"
    BY <1>1, <1>2, <1>3 DEF Structure, ValueStarts
  <1>4. CASE r.mode = "array"
    BY <1>1, <1>2, <1>4 DEF Structure
  <1>5. CASE r.mode \in {"object", "member", "colon"}
    BY <1>1, <1>2, <1>5 DEF Structure, Spaced
  <1>6. CASE r.mode = "after"
    BY <1>1, <1>2, <1>6 DEF Structure, AfterValue
  <1> QED
    BY <1>3, <1>4, <1>5, <1>6 DEF StructureModes

(* Whitespace between the parts of a value changes nothing.                *)
LEMMA BlanksRead ==
    ASSUME NEW src \in Texts, NEW reads, Run(src, reads), NEW o \in Nat, o <= Len(src),
           reads[o].mode \in StructureModes
    PROVE  /\ reads[json_skip_whitespace(src, o)] = reads[o]
           /\ json_skip_whitespace(src, o) \in Nat
           /\ json_skip_whitespace(src, o) >= o
           /\ json_skip_whitespace(src, o) <= Len(src)
  <1> DEFINE here == json_skip_whitespace(src, o)
  <1>1. /\ here \in Nat /\ here >= o /\ here <= Len(src)
        /\ \A i \in o .. here - 1 : At(src, i) \in Space
    <2>1. Outside \notin Space
      BY DEF Space, Outside
    <2> QED
      BY <2>1, Blanks, PastRunStops DEF json_skip_whitespace
  <1>2. reads[o] \in Readings
    BY DEF Run, Texts
  <1> HIDE DEF here
  <1>3. reads[here] = reads[o]
    BY <1>1, <1>2, BlankReads, Lingers
  <1> QED
    BY <1>1, <1>3 DEF here

(* A value has been read up to `o', inside of these brackets.  A number    *)
(* ends where something follows that ends it.                              *)
NumberEnds == Space \cup {"}", ",", "]", Outside}

ValueEnded(src, reads, o, open) ==
    /\ reads[o].open = open
    /\ ~reads[o].high
    /\ \/ reads[o].mode = "after"
       \/ reads[o].mode \in {"zero", "int", "frac", "exp"} /\ At(src, o) \in NumberEnds
       \/ reads[o].mode = "minus" /\ o = Len(src)

(* Behind the end of a value the grammar looks for what follows it,        *)
LEMMA EndedNext ==
    ASSUME NEW src \in Texts, NEW reads, Run(src, reads), NEW o \in Nat, o < Len(src),
           NEW open, ValueEnded(src, reads, o, open)
    PROVE  reads[o + 1] = AfterValue(reads[o], At(src, o))
  <1> DEFINE r == reads[o]
             c == At(src, o)
  <1>1. Len(src) \in Nat /\ r \in Readings /\ reads[o + 1] = Reads(r, c)
    BY DEF Run, Texts
  <1>2. c # Outside
    <2>1. ~(o >= Len(src))
      BY <1>1
    <2> QED
      BY <2>1, OutsideText
  <1> HIDE DEF c, r
  <1>3. CASE r.mode = "after"
    <2>1. Reads(r, c) = Structure(r, c)
      BY <1>1, <1>3, ReadsIs DEF StructureModes
    <2>2. Structure(r, c) = AfterValue(r, c)
      BY <1>3 DEF Structure
    <2> QED
      BY <1>1, <2>1, <2>2 DEF r, c
  <1>4. CASE r.mode \in {"zero", "int", "frac", "exp"} /\ c \in NumberEnds
    <2>1. Reads(r, c) = Number(r, c)
      BY <1>1, <1>4, ReadsIs DEF NumberModes
    <2>2. c \notin Digit /\ c \notin {".", "e", "E", "+", "-"}
      BY <1>2, <1>4 DEF NumberEnds, Space, Digit
    <2>3. Number(r, c) = AfterValue(r, c)
      BY <1>4, <2>2 DEF Number
    <2> QED
      BY <1>1, <2>1, <2>3 DEF r, c
  <1> QED
    <2>1. o # Len(src)
      BY <1>1
    <2> QED
      BY <1>3, <1>4, <2>1 DEF ValueEnded, r, c

(* Blanks in between change nothing.                                       *)
LEMMA EndedBlanks ==
    ASSUME NEW src \in Texts, NEW reads, Run(src, reads), NEW o \in Nat, o <= Len(src),
           NEW open, ValueEnded(src, reads, o, open)
    PROVE  ValueEnded(src, reads, json_skip_whitespace(src, o), open)
  <1> DEFINE here == json_skip_whitespace(src, o)
  <1>1. /\ here \in Nat /\ here >= o /\ here <= Len(src) /\ Len(src) \in Nat
        /\ \A i \in o .. here - 1 : At(src, i) \in Space
    <2>1. Outside \notin Space
      BY DEF Space, Outside
    <2>2. Len(src) \in Nat
      BY DEF Texts
    <2> QED
      BY <2>1, <2>2, Blanks, PastRunStops DEF json_skip_whitespace
  <1> HIDE DEF here
  <1>2. CASE here > o
    <2>1. o \in o .. here - 1 /\ o < Len(src) /\ o + 1 \in Nat /\ o + 1 <= here
      BY <1>1, <1>2
    <2>2. At(src, o) \in Space
      BY <1>1, <2>1
    <2>3. reads[o] \in Readings /\ reads[o + 1] = AfterValue(reads[o], At(src, o))
      BY <1>1, <2>1, EndedNext DEF Run
    <2>4. reads[o + 1] = In(reads[o], "after")
      BY <2>2, <2>3 DEF AfterValue, Space
    <2>5. OnlyMode(reads[o + 1], reads[o], "after")
      BY <2>3, <2>4, InReadings DEF Modes, StructureModes
    <2>6. \A i \in o + 1 .. here - 1 : Reads(reads[o + 1], At(src, i)) = reads[o + 1]
      <3>1. \A i \in o + 1 .. here - 1 : At(src, i) \in Space
        BY <1>1
      <3> QED
        BY <2>5, <3>1, BlankReads DEF OnlyMode, StructureModes
    <2>7. reads[here] = reads[o + 1]
      BY <1>1, <2>1, <2>6, Lingers
    <2> QED
      BY <2>5, <2>7 DEF OnlyMode, ValueEnded, here
  <1>3. CASE here = o
    BY <1>3 DEF here
  <1> QED
    BY <1>1, <1>2, <1>3

(* What may follow a value, by the innermost bracket.                      *)
LEMMA InsideIs ==
    ASSUME NEW r \in Readings, NEW open \in Seq(Brackets), NEW bracket \in Brackets,
           r.open = Append(open, bracket), NEW other
    PROVE  Inside(r, other) <=> other = bracket
  <1>1. /\ Len(r.open) = Len(open) + 1 /\ r.open[Len(open) + 1] = bracket /\ r.open # <<>>
    BY Appended
  <1>2. Last(r.open) = bracket
    BY <1>1 DEF Last
  <1> QED
    BY <1>1, <1>2 DEF Inside

(* What follows is a comma or the bracket that closes.                     *)
LEMMA AfterValueIs ==
    ASSUME NEW r \in Readings, NEW c, c \notin Space
    PROVE  /\ \A open \in Seq(Brackets) : r.open = Append(open, "{") =>
                 /\ c = "," => AfterValue(r, c) = In(r, "member")
                 /\ c = "}" => AfterValue(r, c) = Closed(r)
                 /\ c \notin {",", "}"} => AfterValue(r, c) = Stuck(r)
           /\ \A open \in Seq(Brackets) : r.open = Append(open, "[") =>
                 /\ c = "," => AfterValue(r, c) = In(r, "value")
                 /\ c = "]" => AfterValue(r, c) = Closed(r)
                 /\ c \notin {",", "]"} => AfterValue(r, c) = Stuck(r)
           /\ r.open = <<>> => AfterValue(r, c) = Stuck(r)
  <1>1. "{" \in Brackets /\ "[" \in Brackets
    BY DEF Brackets
  <1>2. ASSUME NEW open \in Seq(Brackets), r.open = Append(open, "{")
        PROVE  Inside(r, "{") /\ ~Inside(r, "[")
    BY <1>1, <1>2, InsideIs
  <1>3. ASSUME NEW open \in Seq(Brackets), r.open = Append(open, "[")
        PROVE  Inside(r, "[") /\ ~Inside(r, "{")
    BY <1>1, <1>3, InsideIs
  <1>4. r.open = <<>> => ~Inside(r, "[") /\ ~Inside(r, "{")
    BY DEF Inside
  <1> QED
    BY <1>2, <1>3, <1>4 DEF AfterValue
-----------------------------------------------------------------------------
(* Numbers, part by part.                                                  *)

(* Where a value is due, brackets or not.                                  *)
LEMMA ValueReads ==
    ASSUME NEW r \in Readings, r.mode \in {"value", "array"}, NEW c, c \notin Space,
           r.mode = "array" => c # "]"
    PROVE  Reads(r, c) = ValueStarts(r, c)
  <1>1. Reads(r, c) = Structure(r, c)
    BY ReadsIs DEF StructureModes
  <1> QED
    BY <1>1 DEF Structure

(* ValueStarts, one case a line.                                           *)
LEMMA ValueStartsIs ==
    ASSUME NEW r, NEW c
    PROVE  /\ c = "\"" => ValueStarts(r, c) = Quoted(r, FALSE)
           /\ c = "{" => ValueStarts(r, c) = Opened(r, "{", "object")
           /\ c = "[" => ValueStarts(r, c) = Opened(r, "[", "array")
           /\ c = "-" => ValueStarts(r, c) = In(r, "minus")
           /\ c = "0" => ValueStarts(r, c) = In(r, "zero")
           /\ c \in Digit \ {"0"} => ValueStarts(r, c) = In(r, "int")
           /\ c \in {"t", "f", "n"} =>
                 ValueStarts(r, c) = [r EXCEPT !.mode = "word", !.part = <<c>>]
           /\ c \notin {"\"", "{", "[", "-", "t", "f", "n"} \cup Digit \cup Space =>
                 ValueStarts(r, c) = Stuck(r)
  <1> DEFINE next == ValueStarts(r, c)
             string == Quoted(r, FALSE)
             object == Opened(r, "{", "object")
             array == Opened(r, "[", "array")
             minus == In(r, "minus")
             zero == In(r, "zero")
             int == In(r, "int")
             word == [r EXCEPT !.mode = "word", !.part = <<c>>]
             blank == In(r, "value")
             stuck == Stuck(r)
             digit == Digit \ {"0"}
             letter == {"t", "f", "n"}
  <1>1. next = CASE c = "\"" -> string
                 [] c = "{" -> object
                 [] c = "[" -> array
                 [] c = "-" -> minus
                 [] c = "0" -> zero
                 [] c \in digit -> int
                 [] c \in letter -> word
                 [] c \in Space -> blank
                 [] OTHER -> stuck
    BY DEF ValueStarts
  <1>2. /\ \A x \in {"\"", "{", "[", "-", "0"} : x \notin digit /\ x \notin letter /\ x \notin Space
        /\ \A x \in digit : x \notin letter /\ x \notin Space
        /\ \A x \in letter : x \notin Space
        /\ digit \subseteq Digit /\ "0" \in Digit
    BY DEF Digit, Space
  <1> HIDE DEF next, string, object, array, minus, zero, int, word, blank, stuck, digit, letter
  <1>3. c = "\"" => next = string
    BY <1>1, <1>2
  <1>4. c = "{" => next = object
    BY <1>1, <1>2
  <1>5. c = "[" => next = array
    BY <1>1, <1>2
  <1>6. c = "-" => next = minus
    BY <1>1, <1>2
  <1>7. c = "0" => next = zero
    BY <1>1, <1>2
  <1>8. c \in digit => next = int
    BY <1>1, <1>2
  <1>9. c \in letter => next = word
    BY <1>1, <1>2
  <1>10. ASSUME c # "\"", c # "{", c # "[", c # "-", c # "0", c \notin digit,
                c \notin letter, c \notin Space
         PROVE  next = stuck
    BY <1>1, <1>10
  <1>11. c \notin {"\"", "{", "[", "-", "t", "f", "n"} \cup Digit \cup Space => next = stuck
    BY <1>2, <1>10 DEF letter
  <1> QED
    BY <1>3, <1>4, <1>5, <1>6, <1>7, <1>8, <1>9, <1>11
    DEF next, string, object, array, minus, zero, int, word, stuck, digit, letter

(* What the grammar makes of the first character of a number.              *)
LEMMA NumberStarts ==
    ASSUME NEW r \in Readings, r.mode \in {"value", "array"}, NEW c \in Digit \cup {"-"}
    PROVE  /\ c = "-" => Reads(r, c) = In(r, "minus")
           /\ c = "0" => Reads(r, c) = In(r, "zero")
           /\ c \in Digit \ {"0"} => Reads(r, c) = In(r, "int")
  <1>1. c \notin Space /\ c # "]"
    BY DEF Digit, Space
  <1> QED
    BY <1>1, ValueReads, ValueStartsIs, ZenonT(60)

(* What it makes of the ones behind it.                                    *)
LEMMA NumberReads ==
    ASSUME NEW r \in Readings, NEW c
    PROVE  /\ r.mode = "minus" =>
                 /\ c = "0" => Reads(r, c) = In(r, "zero")
                 /\ c \in Digit \ {"0"} => Reads(r, c) = In(r, "int")
                 /\ c \notin Digit => Reads(r, c) = Stuck(r)
           /\ r.mode = "zero" /\ c \in Digit => Reads(r, c) = Stuck(r)
           /\ r.mode \in {"zero", "int"} /\ c = "." => Reads(r, c) = In(r, "point")
           /\ r.mode = "point" =>
                 Reads(r, c) = IF c \in Digit THEN In(r, "frac") ELSE Stuck(r)
           /\ r.mode \in {"zero", "int", "frac"} /\ c \in {"e", "E"} => Reads(r, c) = In(r, "e")
           /\ r.mode = "e" =>
                 /\ c \in Digit => Reads(r, c) = In(r, "exp")
                 /\ c \in {"+", "-"} => Reads(r, c) = In(r, "sign")
                 /\ c \notin Digit /\ c \notin {"+", "-"} => Reads(r, c) = Stuck(r)
           /\ r.mode = "sign" =>
                 Reads(r, c) = IF c \in Digit THEN In(r, "exp") ELSE Stuck(r)
           /\ r.mode \in {"int", "frac", "exp"} /\ c \in Digit => Reads(r, c) = r
  <1>1. /\ "0" \in Digit /\ "." \notin Digit /\ "e" \notin Digit /\ "E" \notin Digit
        /\ "+" \notin Digit /\ "-" \notin Digit
    BY DEF Digit
  <1>2. r.mode \in NumberModes => Reads(r, c) = Number(r, c)
    BY ReadsIs
  <1>3. In(r, r.mode) = r
    BY InSame
  <1>4. CASE r.mode = "minus"
    BY <1>1, <1>2, <1>4 DEF Number, NumberModes
  <1>5. CASE r.mode = "zero"
    BY <1>1, <1>2, <1>5 DEF Number, NumberModes
  <1>6. CASE r.mode = "int"
    BY <1>1, <1>2, <1>3, <1>6 DEF Number, NumberModes
  <1>7. CASE r.mode = "point"
    BY <1>1, <1>2, <1>7 DEF Number, NumberModes
  <1>8. CASE r.mode = "frac"
    BY <1>1, <1>2, <1>3, <1>8 DEF Number, NumberModes
  <1>9. CASE r.mode = "e"
    BY <1>1, <1>2, <1>9 DEF Number, NumberModes
  <1>10. CASE r.mode = "sign"
    BY <1>1, <1>2, <1>10 DEF Number, NumberModes
  <1>11. CASE r.mode = "exp"
    BY <1>1, <1>2, <1>3, <1>11 DEF Number, NumberModes
  <1> QED
    BY <1>4, <1>5, <1>6, <1>7, <1>8, <1>9, <1>10, <1>11

(* What can not follow a number.                                           *)
LEMMA NumberStops ==
    ASSUME NEW r \in Readings, NEW c, r.mode \in {"zero", "int", "frac", "exp"},
           c \notin NumberEnds, c \notin Digit,
           r.mode \in {"zero", "int"} => c # ".",
           r.mode # "exp" => c \notin {"e", "E"}
    PROVE  Reads(r, c) = Stuck(r)
  <1>1. Reads(r, c) = Number(r, c)
    BY ReadsIs DEF NumberModes
  <1>2. AfterValue(r, c) = Stuck(r)
    BY DEF AfterValue, NumberEnds
  <1> QED
    BY <1>1, <1>2 DEF Number

(* One character changes nothing but the mode.                             *)
LEMMA ModeMoves ==
    ASSUME NEW src, NEW reads, Run(src, reads), NEW o \in Nat, o < Len(src),
           NEW r, NEW before, OnlyMode(reads[o], r, before), NEW mode \in Modes,
           Reads(reads[o], At(src, o)) = In(reads[o], mode)
    PROVE  OnlyMode(reads[o + 1], r, mode)
  <1>1. reads[o + 1] = In(reads[o], mode) /\ reads[o] \in Readings
    BY DEF Run, OnlyMode
  <1>2. OnlyMode(reads[o + 1], reads[o], mode)
    BY <1>1, InReadings
  <1> QED
    BY <1>2 DEF OnlyMode

(* It takes as many digits as there are.                                   *)
LEMMA DigitsRead ==
    ASSUME NEW src \in Texts, NEW reads, Run(src, reads), NEW o \in Nat, o <= Len(src),
           NEW r, NEW mode \in {"int", "frac", "exp"}, OnlyMode(reads[o], r, mode)
    PROVE  /\ PastRun(src, o, Digit) \in Nat
           /\ PastRun(src, o, Digit) >= o
           /\ PastRun(src, o, Digit) <= Len(src)
           /\ At(src, PastRun(src, o, Digit)) \notin Digit
           /\ OnlyMode(reads[PastRun(src, o, Digit)], r, mode)
  <1> DEFINE end == PastRun(src, o, Digit)
  <1>1. /\ end \in Nat /\ end >= o /\ end <= Len(src) /\ At(src, end) \notin Digit
        /\ \A i \in o .. end - 1 : At(src, i) \in Digit
    <2>1. Outside \notin Digit
      BY DEF Digit, Outside
    <2> QED
      BY <2>1, PastRunStops, RunStaysInside
  <1> HIDE DEF end
  <1>2. reads[o] \in Readings /\ reads[o].mode = mode
    BY DEF OnlyMode
  <1>3. reads[end] = reads[o]
    BY <1>1, <1>2, NumberReads, Lingers
  <1> QED
    BY <1>1, <1>3 DEF end

(* What the first pass checks of the parts of a number.                    *)
Signed(src, o, sign, zero) ==
    /\ At(src, o) = "-" => At(src, sign) \in Digit \cup {Outside}
    /\ At(src, sign) = "0" => At(src, zero) \notin Digit

Pointed(src, int) == At(src, int) = "." => At(src, int + 1) \in Digit

Raised(src, frac, mark) ==
    At(src, frac) \in {"e", "E"} => At(src, mark) \in Digit \cup {Outside}

(* The sign and the digits before the point.                               *)
LEMMA IntegerMeets ==
    ASSUME NEW src \in Texts, NEW reads, Run(src, reads), NEW o \in Nat, o < Len(src),
           reads[o].mode \in {"value", "array"}, At(src, o) \in Digit \cup {"-"},
           NEW sign, sign = IF At(src, o) = "-" THEN o + 1 ELSE o,
           NEW zero, zero = IF At(src, sign) = "0" THEN sign + 1 ELSE sign,
           NEW int, int = PastRun(src, zero, Digit)
    PROVE  /\ ~Signed(src, o, sign, zero) => Fails(src, reads)
           /\ Signed(src, o, sign, zero) /\ At(src, sign) = Outside =>
                 int = Len(src) /\ OnlyMode(reads[int], reads[o], "minus")
           /\ Signed(src, o, sign, zero) /\ At(src, sign) # Outside =>
                 /\ int \in Nat /\ int <= Len(src) /\ At(src, int) \notin Digit
                 /\ \/ OnlyMode(reads[int], reads[o], "zero")
                    \/ OnlyMode(reads[int], reads[o], "int")
  <1> DEFINE r == reads[o]
             leading == At(src, sign)
             valid == Signed(src, o, sign, zero)
  <1>1. Len(src) \in Nat /\ r \in Readings
    BY DEF Run, Texts
  <1>2. "-" \notin Digit /\ Outside \notin Digit /\ "0" \in Digit /\ Outside # "0" /\ Outside # "-"
    BY DEF Digit, Outside
  <1>3. {"minus", "zero", "int"} \subseteq Modes
    BY DEF Modes, NumberModes
  <1>4. sign \in Nat /\ sign <= Len(src) /\ (leading # Outside => sign < Len(src))
    <2>1. sign \in Nat /\ sign <= Len(src)
      BY <1>1
    <2> QED
      BY <1>1, <2>1, OutsideText
  <1>5. At(src, o) = "-" => OnlyMode(reads[sign], r, "minus")
    <2>1. ASSUME At(src, o) = "-" PROVE OnlyMode(reads[o + 1], r, "minus")
      <3>1. Reads(r, At(src, o)) = In(r, "minus")
        BY <1>1, <2>1, NumberStarts
      <3>2. OnlyMode(r, r, r.mode)
        BY <1>1 DEF OnlyMode
      <3> QED
        BY <1>3, <3>1, <3>2, ModeMoves
    <2> QED
      BY <2>1
  <1>6. CASE leading = Outside
    <2>1. At(src, o) = "-"
      BY <1>2, <1>6
    <2>2. sign = Len(src) /\ zero = sign
      BY <1>1, <1>2, <1>4, <1>6, OutsideText
    <2>3. int = Len(src)
      BY <1>1, <1>2, <2>2, RunStaysInside
    <2>4. valid
      BY <1>2, <1>6 DEF Signed
    <2> QED
      BY <1>5, <1>6, <2>1, <2>2, <2>3, <2>4
  <1>7. CASE leading \notin Digit \cup {Outside}
    <2>1. At(src, o) = "-" /\ ~valid
      BY <1>7 DEF Signed
    <2>2. reads[sign] \in Readings /\ reads[sign].mode = "minus"
      BY <1>5, <2>1 DEF OnlyMode
    <2>3. Reads(reads[sign], leading) = Stuck(reads[sign])
      BY <1>7, <2>2, NumberReads
    <2>4. sign < Len(src)
      BY <1>4, <1>7
    <2>5. Fails(src, reads)
      BY <1>4, <2>3, <2>4, RefusedFails
    <2> QED
      BY <1>7, <2>1, <2>5
  <1>8. CASE leading = "0"
    <2>1. zero = sign + 1 /\ sign < Len(src) /\ zero \in Nat /\ zero <= Len(src)
      BY <1>1, <1>2, <1>4, <1>8
    <2>2. OnlyMode(reads[zero], r, "zero")
      <3>1. CASE At(src, o) = "-"
        <4>1. Reads(reads[sign], leading) = In(reads[sign], "zero")
          BY <1>5, <1>8, <3>1, NumberReads DEF OnlyMode
        <4> QED
          BY <1>3, <1>4, <1>5, <2>1, <3>1, <4>1, ModeMoves
      <3>2. CASE At(src, o) # "-"
        <4>1. sign = o
          BY <3>2
        <4>2. Reads(r, leading) = In(r, "zero")
          BY <1>1, <1>8, <4>1, NumberStarts
        <4>3. OnlyMode(r, r, r.mode)
          BY <1>1 DEF OnlyMode
        <4> QED
          BY <1>3, <2>1, <4>1, <4>2, <4>3, ModeMoves
      <3> QED
        BY <3>1, <3>2
    <2>3. ASSUME ~valid PROVE Fails(src, reads)
      <3>1. At(src, zero) \in Digit
        BY <1>2, <1>8, <2>3 DEF Signed
      <3>2. zero < Len(src)
        BY <1>1, <1>2, <2>1, <3>1, OutsideText
      <3>3. Reads(reads[zero], At(src, zero)) = Stuck(reads[zero])
        BY <2>2, <3>1, NumberReads DEF OnlyMode
      <3> QED
        BY <2>1, <3>2, <3>3, RefusedFails
    <2>4. ASSUME valid PROVE int = zero /\ At(src, zero) \notin Digit
      <3>1. At(src, zero) \notin Digit
        BY <1>8, <2>4 DEF Signed
      <3>2. \A i \in zero .. zero - 1 : At(src, i) \in Digit
        BY <2>1
      <3> QED
        BY <1>2, <2>1, <3>1, <3>2, PastRunIs
    <2> QED
      BY <1>2, <1>8, <2>1, <2>2, <2>3, <2>4
  <1>9. CASE leading \in Digit \ {"0"}
    <2>1. zero = sign /\ sign < Len(src) /\ sign + 1 \in Nat /\ sign + 1 <= Len(src)
      BY <1>1, <1>2, <1>4, <1>9
    <2>2. valid /\ leading # Outside
      BY <1>2, <1>9 DEF Signed
    <2>3. OnlyMode(reads[sign + 1], r, "int")
      <3>1. CASE At(src, o) = "-"
        <4>1. Reads(reads[sign], leading) = In(reads[sign], "int")
          BY <1>5, <1>9, <3>1, NumberReads DEF OnlyMode
        <4> QED
          BY <1>3, <1>4, <1>5, <2>1, <3>1, <4>1, ModeMoves
      <3>2. CASE At(src, o) # "-"
        <4>1. sign = o
          BY <3>2
        <4>2. Reads(r, leading) = In(r, "int")
          BY <1>1, <1>9, <4>1, NumberStarts
        <4>3. OnlyMode(r, r, r.mode)
          BY <1>1 DEF OnlyMode
        <4> QED
          BY <1>3, <2>1, <4>1, <4>2, <4>3, ModeMoves
      <3> QED
        BY <3>1, <3>2
    <2> DEFINE past == PastRun(src, sign + 1, Digit)
    <2>4. /\ past \in Nat /\ past >= sign + 1 /\ past <= Len(src)
          /\ At(src, past) \notin Digit /\ OnlyMode(reads[past], r, "int")
      BY <2>1, <2>3, DigitsRead
    <2>5. int = past
      <3>1. \A i \in sign + 1 .. past - 1 : At(src, i) \in Digit
        BY <1>2, <2>1, PastRunStops
      <3> HIDE DEF past
      <3>2. \A i \in sign .. past - 1 : At(src, i) \in Digit
        BY <1>4, <1>9, <3>1
      <3> QED
        BY <1>2, <1>4, <2>1, <2>4, <3>2, PastRunIs
    <2> QED
      BY <2>2, <2>4, <2>5
  <1> QED
    BY <1>6, <1>7, <1>8, <1>9

(* The point and the digits behind it.                                     *)
LEMMA FractionMeets ==
    ASSUME NEW src \in Texts, NEW reads, Run(src, reads), NEW int \in Nat, int <= Len(src),
           At(src, int) \notin Digit,
           NEW r, NEW whole \in {"zero", "int"}, OnlyMode(reads[int], r, whole),
           NEW frac, frac = IF At(src, int) = "." THEN PastRun(src, int + 1, Digit) ELSE int
    PROVE  /\ ~Pointed(src, int) => Fails(src, reads)
           /\ Pointed(src, int) =>
                 /\ frac \in Nat /\ frac <= Len(src) /\ At(src, frac) \notin Digit
                 /\ \/ OnlyMode(reads[frac], r, "frac")
                    \/ OnlyMode(reads[frac], r, whole) /\ At(src, frac) # "."
  <1>1. Len(src) \in Nat /\ Outside \notin Digit /\ Outside # "."
    BY DEF Texts, Digit, Outside
  <1>2. CASE At(src, int) # "."
    BY <1>2 DEF Pointed
  <1>3. CASE At(src, int) = "."
    <2> DEFINE next == int + 1
    <2>1. int < Len(src) /\ next \in Nat /\ next <= Len(src)
      BY <1>1, <1>3, OutsideText
    <2>2. OnlyMode(reads[next], r, "point")
      <3>1. Reads(reads[int], At(src, int)) = In(reads[int], "point")
        BY <1>3, NumberReads DEF OnlyMode
      <3>2. "point" \in Modes
        BY DEF Modes, NumberModes
      <3> QED
        BY <2>1, <3>1, <3>2, ModeMoves
    <2> HIDE DEF next
    <2>3. CASE At(src, next) = Outside
      <3>1. next = Len(src)
        BY <1>1, <2>1, <2>3, OutsideText
      <3>2. Fails(src, reads)
        BY <2>2, <3>1, UnfinishedFails DEF OnlyMode
      <3> QED
        BY <1>1, <1>3, <2>3, <3>2 DEF next, Pointed
    <2>4. CASE At(src, next) \notin Digit \cup {Outside}
      <3>1. next < Len(src)
        BY <1>1, <2>1, <2>4, OutsideText
      <3>2. Reads(reads[next], At(src, next)) = Stuck(reads[next])
        BY <2>2, <2>4, NumberReads DEF OnlyMode
      <3>3. Fails(src, reads)
        BY <2>1, <3>1, <3>2, RefusedFails
      <3> QED
        BY <1>3, <2>4, <3>3 DEF next, Pointed
    <2>5. CASE At(src, next) \in Digit
      <3>1. next < Len(src) /\ next + 1 \in Nat /\ next + 1 <= Len(src)
        BY <1>1, <2>1, <2>5, OutsideText
      <3>2. OnlyMode(reads[next + 1], r, "frac")
        <4>1. Reads(reads[next], At(src, next)) = In(reads[next], "frac")
          BY <2>2, <2>5, NumberReads DEF OnlyMode
        <4>2. "frac" \in Modes
          BY DEF Modes, NumberModes
        <4> QED
          BY <2>1, <2>2, <3>1, <4>1, <4>2, ModeMoves
      <3> DEFINE past == PastRun(src, next + 1, Digit)
      <3>3. /\ past \in Nat /\ past >= next + 1 /\ past <= Len(src)
            /\ At(src, past) \notin Digit /\ OnlyMode(reads[past], r, "frac")
        BY <3>1, <3>2, DigitsRead
      <3>4. PastRun(src, next, Digit) = past
        <4>1. \A i \in next + 1 .. past - 1 : At(src, i) \in Digit
          BY <1>1, <3>1, PastRunStops
        <4> HIDE DEF past
        <4>2. \A i \in next .. past - 1 : At(src, i) \in Digit
          BY <2>1, <2>5, <4>1
        <4> QED
          BY <1>1, <2>1, <3>3, <4>2, PastRunIs
      <3>5. frac = past
        BY <1>3, <3>4 DEF next
      <3> QED
        BY <1>3, <2>5, <3>3, <3>5 DEF next, Pointed
    <2> QED
      BY <2>3, <2>4, <2>5
  <1> QED
    BY <1>2, <1>3

(* The exponent.  Without digits it ends behind the end of the text.       *)
LEMMA ExponentMeets ==
    ASSUME NEW src \in Texts, NEW reads, Run(src, reads), NEW frac \in Nat, frac <= Len(src),
           At(src, frac) \notin Digit,
           NEW r, NEW so \in {"zero", "int", "frac"}, OnlyMode(reads[frac], r, so),
           so # "frac" => At(src, frac) # ".",
           NEW mark, mark = IF At(src, frac + 1) \in {"-", "+"} THEN frac + 2 ELSE frac + 1,
           NEW end, end = IF At(src, frac) \in {"e", "E"} THEN PastRun(src, mark + 1, Digit)
                          ELSE frac
    PROVE  /\ end \in Nat
           /\ ~Raised(src, frac, mark) => Fails(src, reads)
           /\ Raised(src, frac, mark) /\ end > Len(src) => Fails(src, reads)
           /\ Raised(src, frac, mark) /\ end <= Len(src) =>
                 /\ At(src, end) \notin Digit
                 /\ \/ OnlyMode(reads[end], r, "exp")
                    \/ /\ OnlyMode(reads[end], r, so) /\ At(src, end) \notin {"e", "E"}
                       /\ so # "frac" => At(src, end) # "."
  <1>1. /\ Len(src) \in Nat /\ Outside \notin Digit /\ Outside \notin {"e", "E", "-", "+"}
        /\ \A c \in {"-", "+"} : c \notin Digit
    BY DEF Texts, Digit, Outside
  <1>2. CASE At(src, frac) \notin {"e", "E"}
    <2>1. end = frac /\ Raised(src, frac, mark)
      BY <1>2 DEF Raised
    <2>2. end \in Nat /\ ~(end > Len(src)) /\ At(src, end) \notin {"e", "E"}
      BY <1>1, <1>2, <2>1
    <2> QED
      BY <2>1, <2>2
  <1>3. CASE At(src, frac) \in {"e", "E"}
    <2> DEFINE next == frac + 1
    <2>1. frac < Len(src) /\ next \in Nat /\ next <= Len(src)
      BY <1>1, <1>3, OutsideText
    <2>2. OnlyMode(reads[next], r, "e")
      <3>1. Reads(reads[frac], At(src, frac)) = In(reads[frac], "e")
        BY <1>3, NumberReads DEF OnlyMode
      <3>2. "e" \in Modes
        BY DEF Modes, NumberModes
      <3> QED
        BY <2>1, <3>1, <3>2, ModeMoves
    <2> HIDE DEF next
    <2>3. /\ mark \in Nat /\ mark <= Len(src)
          /\ \/ OnlyMode(reads[mark], r, "e") /\ At(src, mark) \notin {"+", "-"}
             \/ OnlyMode(reads[mark], r, "sign")
      <3>1. CASE At(src, next) \in {"-", "+"}
        <4>1. next < Len(src) /\ mark = next + 1
          BY <1>1, <2>1, <3>1, OutsideText DEF next
        <4>2. Reads(reads[next], At(src, next)) = In(reads[next], "sign")
          BY <1>1, <2>2, <3>1, NumberReads DEF OnlyMode
        <4>3. "sign" \in Modes
          BY DEF Modes, NumberModes
        <4>4. OnlyMode(reads[mark], r, "sign")
          BY <2>1, <2>2, <4>1, <4>2, <4>3, ModeMoves
        <4> QED
          BY <1>1, <2>1, <4>1, <4>4
      <3>2. CASE At(src, next) \notin {"-", "+"}
        <4>1. mark = next
          BY <3>2 DEF next
        <4> QED
          BY <2>1, <2>2, <3>2, <4>1
      <3> QED
        BY <3>1, <3>2
    <2>4. end = PastRun(src, mark + 1, Digit) /\ mark + 1 \in Nat
      BY <1>3, <2>3
    <2>5. end \in Nat /\ end >= mark + 1
      BY <1>1, <2>4, PastRunStops, SMTT(60)
    <2>6. CASE At(src, mark) = Outside
      <3>1. mark = Len(src)
        BY <1>1, <2>3, <2>6, OutsideText
      <3>2. reads[Len(src)].mode \in {"e", "sign"}
        BY <2>3, <3>1 DEF OnlyMode
      <3>3. Fails(src, reads)
        BY <3>2, UnfinishedFails
      <3> QED
        BY <1>1, <2>5, <3>1, <3>3
    <2>7. CASE At(src, mark) \notin Digit \cup {Outside}
      <3>1. mark < Len(src)
        BY <1>1, <2>3, <2>7, OutsideText
      <3>2. Reads(reads[mark], At(src, mark)) = Stuck(reads[mark])
        BY <2>3, <2>7, NumberReads DEF OnlyMode
      <3>3. Fails(src, reads)
        BY <2>3, <3>1, <3>2, RefusedFails
      <3> QED
        BY <1>3, <2>5, <2>7, <3>3 DEF Raised
    <2>8. CASE At(src, mark) \in Digit
      <3>1. mark < Len(src) /\ mark + 1 <= Len(src)
        BY <1>1, <2>3, <2>8, OutsideText
      <3>2. OnlyMode(reads[mark + 1], r, "exp")
        <4>1. Reads(reads[mark], At(src, mark)) = In(reads[mark], "exp")
          BY <2>3, <2>8, NumberReads DEF OnlyMode
        <4>2. "exp" \in Modes
          BY DEF Modes, NumberModes
        <4> QED
          BY <2>3, <3>1, <4>1, <4>2, ModeMoves
      <3>3. end <= Len(src) /\ At(src, end) \notin Digit /\ OnlyMode(reads[end], r, "exp")
        BY <2>4, <3>1, <3>2, DigitsRead
      <3>4. Raised(src, frac, mark)
        BY <2>8 DEF Raised
      <3> QED
        BY <1>1, <2>5, <3>3, <3>4
    <2> QED
      BY <2>6, <2>7, <2>8
  <1> QED
    BY <1>2, <1>3

(* The first pass and the grammar take the same numbers; what the first    *)
(* pass lets through behind the end of the text fails in both.             *)
LEMMA NumberMeets ==
    ASSUME NEW src \in Texts, NEW reads, Run(src, reads), NEW st \in State, st.ok,
           st.at < Len(src), At(src, st.at) \in Digit \cup {"-"},
           reads[st.at].mode \in {"value", "array"}, ~reads[st.at].high
    PROVE  LET next == json_get_number_size(src, st)
           IN  IF Through(src, next) THEN ValueEnded(src, reads, next.at, reads[st.at].open)
               ELSE Fails(src, reads)
  <1> DEFINE start == st.at
             r == reads[start]
             sign == IF At(src, start) = "-" THEN start + 1 ELSE start
             zero == IF At(src, sign) = "0" THEN sign + 1 ELSE sign
             int  == PastRun(src, zero, Digit)
             frac == IF At(src, int) = "." THEN PastRun(src, int + 1, Digit) ELSE int
             mark == IF At(src, frac + 1) \in {"-", "+"} THEN frac + 2 ELSE frac + 1
             end  == IF At(src, frac) \in {"e", "E"} THEN PastRun(src, mark + 1, Digit)
                     ELSE frac
             signed == Signed(src, start, sign, zero)
             pointed == Pointed(src, int)
             raised == Raised(src, frac, mark)
             ended == At(src, end) \in NumberEnds
             next == json_get_number_size(src, st)
  <1>1. next = IF signed /\ pointed /\ raised /\ ended
               THEN More([st EXCEPT !.at = end], Struct, end - start + 1) ELSE Refused
    BY DEF json_get_number_size, NumberEnds, Signed, Pointed, Raised
  <1>2. Len(src) \in Nat /\ start \in Nat /\ Outside \notin Digit /\ Outside \in NumberEnds
    BY DEF Texts, State, Digit, Outside, NumberEnds
  <1> DEFINE Meets == IF Through(src, next) THEN ValueEnded(src, reads, next.at, r.open)
                      ELSE Fails(src, reads)
  <1>5. Refused.ok = FALSE
    BY DEF Refused
  <1>6. ASSUME end \in Nat, signed, pointed, raised, ended
        PROVE  next.ok /\ next.at = end
    <2> DEFINE moved == [st EXCEPT !.at = end]
               count == end - start + 1
    <2>1. moved \in State /\ moved.ok /\ moved.at = end
      BY <1>6, MovedState, SMTT(60)
    <2>3. next = More(moved, Struct, count)
      BY <1>1, <1>6
    <2> HIDE DEF moved, count, next
    <2> QED
      BY <2>1, <2>3 DEF More, State
  <1> SUFFICES Meets
    OBVIOUS
  <1> HIDE DEF next
  <1>7. /\ sign = IF At(src, start) = "-" THEN start + 1 ELSE start
        /\ zero = IF At(src, sign) = "0" THEN sign + 1 ELSE sign
        /\ int = PastRun(src, zero, Digit)
    OBVIOUS
  <1> HIDE DEF sign, zero, int
  <1>4. /\ ~signed => Fails(src, reads)
        /\ signed /\ At(src, sign) = Outside => int = Len(src) /\ OnlyMode(reads[int], r, "minus")
        /\ signed /\ At(src, sign) # Outside =>
              /\ int \in Nat /\ int <= Len(src) /\ At(src, int) \notin Digit
              /\ \/ OnlyMode(reads[int], r, "zero")
                 \/ OnlyMode(reads[int], r, "int")
    BY <1>2, <1>7, IntegerMeets
  <1>8. CASE ~signed
    <2>1. next = Refused
      BY <1>1, <1>8
    <2> QED
      BY <1>4, <1>5, <1>8, <2>1 DEF Through
  <1>9. CASE signed /\ At(src, sign) = Outside
    <2>1. int = Len(src) /\ OnlyMode(reads[int], r, "minus") /\ At(src, int) = Outside
      BY <1>2, <1>4, <1>9, OutsideText
    <2>2. Outside \notin {".", "e", "E"}
      BY DEF Outside
    <2>3. frac = int /\ end = int /\ pointed /\ raised /\ ended
      BY <1>2, <2>1, <2>2 DEF Pointed, Raised
    <2>4. next.ok /\ next.at = Len(src)
      BY <1>2, <1>6, <1>9, <2>1, <2>3
    <2>5. ValueEnded(src, reads, Len(src), r.open)
      BY <2>1 DEF ValueEnded, OnlyMode
    <2> QED
      BY <1>2, <2>4, <2>5 DEF Through
  <1>10. CASE signed /\ At(src, sign) # Outside
    <2>1. PICK whole \in {"zero", "int"} : OnlyMode(reads[int], r, whole)
      BY <1>4, <1>10
    <2>2. int \in Nat /\ int <= Len(src) /\ At(src, int) \notin Digit
      BY <1>4, <1>10
    <2>9. frac = IF At(src, int) = "." THEN PastRun(src, int + 1, Digit) ELSE int
      OBVIOUS
    <2> HIDE DEF frac
    <2>3. /\ ~pointed => Fails(src, reads)
          /\ pointed =>
                /\ frac \in Nat /\ frac <= Len(src) /\ At(src, frac) \notin Digit
                /\ \/ OnlyMode(reads[frac], r, "frac")
                   \/ OnlyMode(reads[frac], r, whole) /\ At(src, frac) # "."
      BY <2>1, <2>2, <2>9, FractionMeets
    <2>4. CASE ~pointed
      <3>1. next = Refused
        BY <1>1, <2>4
      <3> QED
        BY <1>5, <2>3, <2>4, <3>1 DEF Through
    <2>5. CASE pointed
      <3>0. /\ frac \in Nat /\ frac <= Len(src) /\ At(src, frac) \notin Digit
            /\ \/ OnlyMode(reads[frac], r, "frac")
               \/ OnlyMode(reads[frac], r, whole) /\ At(src, frac) # "."
        BY <2>3, <2>5
      <3>1. PICK so \in {"zero", "int", "frac"} :
               OnlyMode(reads[frac], r, so) /\ (so # "frac" => At(src, frac) # ".")
        BY <3>0
      <3>8. mark = IF At(src, frac + 1) \in {"-", "+"} THEN frac + 2 ELSE frac + 1
        OBVIOUS
      <3> HIDE DEF mark
      <3>9. end = IF At(src, frac) \in {"e", "E"} THEN PastRun(src, mark + 1, Digit) ELSE frac
        OBVIOUS
      <3> HIDE DEF end, ended
      <3>2. /\ end \in Nat
            /\ ~raised => Fails(src, reads)
            /\ raised /\ end > Len(src) => Fails(src, reads)
            /\ raised /\ end <= Len(src) =>
                  /\ At(src, end) \notin Digit
                  /\ \/ OnlyMode(reads[end], r, "exp")
                     \/ /\ OnlyMode(reads[end], r, so) /\ At(src, end) \notin {"e", "E"}
                        /\ so # "frac" => At(src, end) # "."
        BY <3>0, <3>1, <3>8, <3>9, ExponentMeets
      <3>3. CASE ~raised
        <4>1. next = Refused
          BY <1>1, <3>3
        <4> QED
          BY <1>5, <3>2, <3>3, <4>1 DEF Through
      <3>4. CASE raised /\ end > Len(src)
        <4>1. Fails(src, reads)
          BY <3>2, <3>4
        <4>2. ended
          BY <1>2, <3>2, <3>4, OutsideText DEF ended
        <4>3. next.ok /\ next.at = end
          BY <1>2, <1>6, <1>10, <2>5, <3>2, <3>4, <4>2
        <4> QED
          BY <1>2, <3>2, <3>4, <4>1, <4>3 DEF Through
      <3>5. CASE raised /\ end <= Len(src) /\ ~ended
        <4>1. next = Refused
          BY <1>1, <3>5
        <4>2. end < Len(src)
          BY <1>2, <3>2, <3>5, OutsideText DEF ended
        <4>3. PICK mode \in {"zero", "int", "frac", "exp"} :
                 /\ OnlyMode(reads[end], r, mode) /\ At(src, end) \notin Digit
                 /\ mode \in {"zero", "int"} => At(src, end) # "."
                 /\ mode # "exp" => At(src, end) \notin {"e", "E"}
          BY <3>2, <3>5
        <4>4. Reads(reads[end], At(src, end)) = Stuck(reads[end])
          BY <3>5, <4>3, NumberStops DEF OnlyMode, ended
        <4>5. Fails(src, reads)
          BY <3>2, <4>2, <4>4, RefusedFails
        <4> QED
          BY <1>5, <4>1, <4>5 DEF Through
      <3>6. CASE raised /\ end <= Len(src) /\ ended
        <4>1. PICK mode \in {"zero", "int", "frac", "exp"} : OnlyMode(reads[end], r, mode)
          BY <3>2, <3>6
        <4>2. ValueEnded(src, reads, end, r.open)
          BY <3>6, <4>1 DEF ValueEnded, OnlyMode, ended
        <4>3. next.ok /\ next.at = end
          BY <1>6, <1>10, <2>5, <3>2, <3>6
        <4> QED
          BY <3>6, <4>2, <4>3 DEF Through
      <3> QED
        BY <1>2, <3>2, <3>3, <3>4, <3>5, <3>6
    <2> QED
      BY <2>4, <2>5
  <1> QED
    BY <1>8, <1>9, <1>10
-----------------------------------------------------------------------------
(* Words.                                                                  *)
WordNames == {"true", "false", "null"}

Signs == STRING \cup {"t", "r", "u", "e", "f", "a", "l", "s", "n"}

(* No two words start alike, and none is empty.                            *)
LEMMA WordLetters ==
    /\ \A w \in WordNames :
          /\ WordText[w] \in Seq(Signs) /\ Len(WordText[w]) \in Nat /\ Len(WordText[w]) >= 4
          /\ \A i \in 1 .. Len(WordText[w]) : WordText[w][i] # Outside
          /\ WordText[w][1] \in {"t", "f", "n"}
    /\ \A v, w \in WordNames : WordText[v][1] = WordText[w][1] => v = w
    /\ \A c \in {"t", "f", "n"} : \E w \in WordNames : WordText[w][1] = c
    /\ Words = {WordText[w] : w \in WordNames}
  <1>1. /\ WordText["true"] = <<"t", "r", "u", "e">>
        /\ WordText["false"] = <<"f", "a", "l", "s", "e">>
        /\ WordText["null"] = <<"n", "u", "l", "l">>
        /\ DOMAIN WordText = WordNames
    BY DEF WordText, WordNames
  <1>2. /\ WordText["true"] \in Seq(Signs) /\ Len(WordText["true"]) = 4
        /\ \A i \in 1 .. 4 : WordText["true"][i] # Outside
    <2> DEFINE t == <<"t", "r", "u", "e">>
    <2>1. t \in Seq(Signs) /\ Len(t) = 4
      <3>1. t \in Seq(Signs)
        <4>1. "t" \in Signs /\ "r" \in Signs /\ "u" \in Signs /\ "e" \in Signs
          BY DEF Signs
        <4> QED
          BY <4>1, Four, Zenon
      <3>2. Len(t) = 4
        OBVIOUS
      <3> QED
        BY <3>1, <3>2
    <2>2. \A i \in 1 .. 4 : t[i] \in {"t", "r", "u", "e"}
      OBVIOUS
    <2> HIDE DEF t
    <2>3. \A c \in {"t", "r", "u", "e"} : c # Outside
      BY DEF Outside
    <2>4. WordText["true"] = t
      BY <1>1 DEF t
    <2> QED
      BY <2>1, <2>2, <2>3, <2>4
  <1>3. /\ WordText["false"] \in Seq(Signs) /\ Len(WordText["false"]) = 5
        /\ \A i \in 1 .. 5 : WordText["false"][i] # Outside
    <2> DEFINE t == <<"f", "a", "l", "s", "e">>
    <2>1. t \in Seq(Signs) /\ Len(t) = 5
      <3>1. t \in Seq(Signs)
        <4>1. "f" \in Signs /\ "a" \in Signs /\ "l" \in Signs /\ "s" \in Signs /\ "e" \in Signs
          BY DEF Signs
        <4> QED
          BY <4>1, Five, Zenon
      <3>2. Len(t) = 5
        OBVIOUS
      <3> QED
        BY <3>1, <3>2
    <2>2. \A i \in 1 .. 5 : t[i] \in {"f", "a", "l", "s", "e"}
      OBVIOUS
    <2> HIDE DEF t
    <2>3. \A c \in {"f", "a", "l", "s", "e"} : c # Outside
      BY DEF Outside
    <2>4. WordText["false"] = t
      BY <1>1 DEF t
    <2> QED
      BY <2>1, <2>2, <2>3, <2>4
  <1>4. /\ WordText["null"] \in Seq(Signs) /\ Len(WordText["null"]) = 4
        /\ \A i \in 1 .. 4 : WordText["null"][i] # Outside
    <2> DEFINE t == <<"n", "u", "l", "l">>
    <2>1. t \in Seq(Signs) /\ Len(t) = 4
      <3>1. t \in Seq(Signs)
        <4>1. "n" \in Signs /\ "u" \in Signs /\ "l" \in Signs
          BY DEF Signs
        <4> QED
          BY <4>1, Four, Zenon
      <3>2. Len(t) = 4
        OBVIOUS
      <3> QED
        BY <3>1, <3>2
    <2>2. \A i \in 1 .. 4 : t[i] \in {"n", "u", "l"}
      OBVIOUS
    <2> HIDE DEF t
    <2>3. \A c \in {"n", "u", "l"} : c # Outside
      BY DEF Outside
    <2>4. WordText["null"] = t
      BY <1>1 DEF t
    <2> QED
      BY <2>1, <2>2, <2>3, <2>4
  <1>5. /\ WordText["true"][1] = "t" /\ WordText["false"][1] = "f"
        /\ WordText["null"][1] = "n"
    BY <1>1
  <1>6. Words = {WordText[w] : w \in WordNames}
    BY <1>1 DEF Words
  <1>7. \A w \in WordNames : Len(WordText[w]) \in Nat /\ Len(WordText[w]) >= 4
    <2>1. 4 \in Nat /\ 5 \in Nat /\ 4 >= 4 /\ 5 >= 4
      OBVIOUS
    <2> QED
      BY <1>2, <1>3, <1>4, <2>1, Zenon DEF WordNames
  <1> QED
    BY <1>2, <1>3, <1>4, <1>5, <1>6, <1>7 DEF WordNames

(* The first pass takes the word that the text has there.                  *)
LEMMA WordIs ==
    ASSUME NEW src, NEW o \in Nat
    PROVE  /\ Word(src, o) \in WordNames \cup {""}
           /\ \A w \in WordNames : Word(src, o) = w <=> Starts(src, o, WordText[w])
  <1> DEFINE t == Starts(src, o, WordText["true"])
             f == Starts(src, o, WordText["false"])
             n == Starts(src, o, WordText["null"])
             word == Word(src, o)
  <1>1. word = CASE t -> "true" [] f -> "false" [] n -> "null" [] OTHER -> ""
    BY DEF Word
  <1>2. ASSUME NEW w \in WordNames, Starts(src, o, WordText[w])
        PROVE  At(src, o) = WordText[w][1]
    <2>1. 1 \in 1 .. Len(WordText[w]) /\ o + 1 - 1 = o
      BY WordLetters
    <2> QED
      BY <1>2, <2>1 DEF Starts
  <1>3. ~(t /\ f) /\ ~(t /\ n) /\ ~(f /\ n)
    BY <1>2, WordLetters DEF WordNames
  <1> HIDE DEF t, f, n, word
  <1>4. /\ t => word = "true"
        /\ f => word = "false"
        /\ n => word = "null"
        /\ ~t /\ ~f /\ ~n => word = ""
    BY <1>1, <1>3
  <1> QED
    BY <1>4 DEF WordNames, t, f, n, word

(* One letter of a word.                                                   *)
Longer(r, c) == [r EXCEPT !.part = Append(r.part, c)]

(* The grammar on a character of a word.                                   *)
LEMMA KeywordIs ==
    ASSUME NEW r \in Readings, r.mode = "word", NEW w \in WordNames, NEW c \in STRING,
           NEW j \in Nat, j >= 1, j < Len(WordText[w]), Len(r.part) = j,
           \A i \in 1 .. j : r.part[i] = WordText[w][i]
    PROVE  /\ c # WordText[w][j + 1] => Reads(r, c) = Stuck(r)
           /\ c = WordText[w][j + 1] /\ j + 1 = Len(WordText[w]) => Reads(r, c) = In(r, "after")
           /\ c = WordText[w][j + 1] /\ j + 1 # Len(WordText[w]) =>
                 Reads(r, c) = Longer(r, c)
  <1> DEFINE t == WordText[w]
             q == Append(r.part, c)
             prefix == \E word \in Words : IsPrefix(q, word)
  <1>1. r.part \in Seq(Signs) /\ c \in Signs /\ t \in Seq(Signs) /\ Len(t) \in Nat
    <2>1. r.part \in Seq(STRING) /\ STRING \subseteq Signs
      BY DEF Readings, Signs
    <2>2. r.part \in Seq(Signs)
      BY <2>1, SeqLarger
    <2>3. t \in Seq(Signs) /\ Len(t) \in Nat
      BY WordLetters
    <2>4. c \in Signs
      BY DEF Signs
    <2> QED
      BY <2>2, <2>3, <2>4
  <1>2. /\ q \in Seq(Signs) /\ Len(q) = j + 1 /\ q[j + 1] = c
        /\ \A i \in 1 .. j : q[i] = t[i]
    BY <1>1, Appended
  <1>3. Reads(r, c) = CASE q \in Words -> In(r, "after")
                        [] q \notin Words /\ prefix -> [r EXCEPT !.part = q]
                        [] OTHER -> Stuck(r)
    BY ReadsIs DEF Keyword
  <1> HIDE DEF q
  <1>4. ASSUME NEW v \in WordNames, WordText[v][1] = q[1] PROVE v = w
    <2>1. q[1] = t[1]
      BY <1>2
    <2> QED
      BY <1>4, <2>1, WordLetters
  <1>5. q \in Words <=> c = t[j + 1] /\ j + 1 = Len(t)
    <2>1. ASSUME q \in Words PROVE q = t
      <3>1. PICK v \in WordNames : q = WordText[v]
        BY <2>1, WordLetters
      <3> QED
        BY <1>4, <3>1
    <2>2. ASSUME c = t[j + 1], j + 1 = Len(t) PROVE q = t
      <3>1. \A i \in 1 .. Len(t) : q[i] = t[i]
        BY <1>2, <2>2
      <3> HIDE DEF t
      <3> QED
        BY <1>1, <1>2, <2>2, <3>1
    <2>3. t \in Words
      BY WordLetters
    <2> QED
      BY <1>2, <2>1, <2>2, <2>3
  <1>6. prefix <=> c = t[j + 1]
    <2>1. ASSUME NEW v \in WordNames, IsPrefix(q, WordText[v])
          PROVE  c = t[j + 1]
      <3> DEFINE x == WordText[v]
      <3>1. x \in Seq(Signs) /\ Len(x) \in Nat
        BY WordLetters
      <3> HIDE DEF x
      <3>2. Len(q) <= Len(x) /\ SubSeq(q, 1, Len(q)) = SubSeq(x, 1, Len(q))
        BY <2>1 DEF IsPrefix, x
      <3>3. j + 1 \in 0 .. Len(q) /\ j + 1 \in 0 .. Len(x)
        BY <1>2, <3>1, <3>2
      <3>4. \A i \in 1 .. j + 1 : q[i] = x[i]
        BY <1>2, <3>1, <3>2, <3>3, FirstPart
      <3>5. q[1] = x[1]
        BY <3>4
      <3>6. v = w
        BY <1>4, <3>5 DEF x
      <3> QED
        BY <1>2, <3>4, <3>6 DEF x
    <2>2. ASSUME c = t[j + 1] PROVE IsPrefix(q, t)
      <3>1. \A i \in 1 .. j + 1 : q[i] = t[i]
        BY <1>2, <2>2
      <3>2. Len(q) <= Len(t)
        BY <1>1, <1>2
      <3> HIDE DEF t
      <3>3. j + 1 \in 0 .. Len(q) /\ j + 1 \in 0 .. Len(t)
        BY <1>1, <1>2, <3>2
      <3>4. SubSeq(q, 1, j + 1) = SubSeq(t, 1, j + 1)
        <4> DEFINE left == SubSeq(q, 1, j + 1)
                   right == SubSeq(t, 1, j + 1)
        <4>1. /\ left \in Seq(Signs) /\ Len(left) = j + 1
              /\ \A i \in 1 .. j + 1 : left[i] = q[i]
          BY <1>2, <3>3, FirstPart
        <4>2. /\ right \in Seq(Signs) /\ Len(right) = j + 1
              /\ \A i \in 1 .. j + 1 : right[i] = t[i]
          BY <1>1, <3>3, FirstPart
        <4> HIDE DEF left, right
        <4>3. \A i \in 1 .. j + 1 : left[i] = right[i]
          BY <3>1, <4>1, <4>2
        <4>4. left = right
          BY <4>1, <4>2, <4>3
        <4> QED
          BY <4>4 DEF left, right
      <3> QED
        BY <1>2, <3>2, <3>4 DEF IsPrefix
    <2>3. t \in Words
      BY WordLetters
    <2> HIDE DEF t
    <2> QED
      BY <2>1, <2>2, <2>3, WordLetters
  <1> HIDE DEF prefix, t
  <1>7. c # t[j + 1] => Reads(r, c) = Stuck(r)
    BY <1>3, <1>5, <1>6
  <1>8. c = t[j + 1] /\ j + 1 = Len(t) => Reads(r, c) = In(r, "after")
    BY <1>3, <1>5, <1>6
  <1>9. c = t[j + 1] /\ j + 1 # Len(t) => Reads(r, c) = [r EXCEPT !.part = q]
    BY <1>3, <1>5, <1>6
  <1> QED
    BY <1>7, <1>8, <1>9 DEF t, q, Longer

(* A character of a text is not the mark of its end.                       *)
LEMMA Character ==
    ASSUME NEW src \in Texts, NEW o \in Nat, o < Len(src)
    PROVE  At(src, o) \in STRING /\ At(src, o) # Outside
  <1>1. o + 1 \in 1 .. Len(src)
    BY DEF Texts
  <1>2. src[o + 1] \in STRING /\ src[o + 1] # Outside
    BY <1>1 DEF Texts
  <1> QED
    BY <1>2 DEF At

(* The part of a word, one letter longer.                                  *)
LEMMA LongerReadings ==
    ASSUME NEW r \in Readings, NEW c \in STRING
    PROVE  LET q == Longer(r, c)
           IN  /\ q \in Readings /\ q.mode = r.mode /\ q.open = r.open
               /\ q.high = r.high /\ q.key = r.key
               /\ Len(q.part) = Len(r.part) + 1 /\ q.part[Len(r.part) + 1] = c
               /\ \A i \in 1 .. Len(r.part) : q.part[i] = r.part[i]
  <1> DEFINE part == Append(r.part, c)
             q == Longer(r, c)
  <1>1. r.part \in Seq(STRING)
    BY DEF Readings
  <1>2. /\ part \in Seq(STRING) /\ Len(part) = Len(r.part) + 1
        /\ part[Len(r.part) + 1] = c
        /\ \A i \in 1 .. Len(r.part) : part[i] = r.part[i]
    BY <1>1, Appended
  <1>3. q = [r EXCEPT !.part = part]
    BY DEF Longer
  <1> HIDE DEF part, q
  <1>4. /\ q \in Readings /\ q.mode = r.mode /\ q.open = r.open
        /\ q.high = r.high /\ q.key = r.key /\ q.part = part
    BY <1>2, <1>3 DEF Readings
  <1> QED
    BY <1>2, <1>4 DEF q

(* The first letters of a word have been read.                             *)
SoFar(src, reads, o, t, j) ==
    LET r == reads[o + j]
    IN  /\ o + j <= Len(src)
        /\ r \in Readings /\ r.mode = "word" /\ r.open = reads[o].open /\ ~r.high
        /\ Len(r.part) = j
        /\ \A i \in 1 .. j : r.part[i] = t[i]

(* The letters of a word up to the last but one.                           *)
LEMMA WordsRead ==
    ASSUME NEW src \in Texts, NEW reads, Run(src, reads), NEW o \in Nat, o < Len(src),
           reads[o].mode \in {"value", "array"}, ~reads[o].high,
           NEW w \in WordNames, At(src, o) = WordText[w][1],
           NEW n \in Nat, n >= 1, n < Len(WordText[w]),
           \A i \in 1 .. n : At(src, o + i - 1) = WordText[w][i]
    PROVE  SoFar(src, reads, o, WordText[w], n)
  <1> DEFINE t == WordText[w]
             Same(j) == \A i \in 1 .. j : At(src, o + i - 1) = t[i]
             S == {j \in Nat : j >= 1 /\ j < Len(t) /\ Same(j) => SoFar(src, reads, o, t, j)}
  <1>1. /\ Len(src) \in Nat /\ Len(t) \in Nat /\ t[1] \in {"t", "f", "n"}
        /\ \A i \in 1 .. Len(t) : t[i] # Outside
    BY WordLetters DEF Texts
  <1>2. SoFar(src, reads, o, t, 1)
    <2> DEFINE r == reads[o]
               c == At(src, o)
               q == [r EXCEPT !.mode = "word", !.part = <<c>>]
    <2>1. r \in Readings /\ reads[o + 1] = Reads(r, c)
      BY <1>1 DEF Run
    <2>2. c \in STRING
      BY Character
    <2>3. c \in {"t", "f", "n"} /\ c \notin Space /\ c # "]"
      BY <1>1 DEF Space
    <2>4. <<c>> \in Seq(STRING) /\ "word" \in Modes
      <3>1. <<c>> \in Seq(STRING)
        BY <2>2, Single
      <3> QED
        BY <3>1 DEF Modes
    <2>7. c = t[1]
      OBVIOUS
    <2> HIDE DEF c, r, t
    <2>9. Reads(r, c) = ValueStarts(r, c)
      BY <2>1, <2>3, ValueReads DEF r
    <2>5. Reads(r, c) = q
      BY <2>3, <2>9, ValueStartsIs
    <2>6. /\ q \in Readings /\ q.mode = "word" /\ q.part = <<c>>
          /\ q.open = r.open /\ q.high = r.high
      BY <2>1, <2>4 DEF Readings
    <2> HIDE DEF q
    <2>8. Len(q.part) = 1 /\ \A i \in 1 .. 1 : q.part[i] = t[i]
      BY <2>6, <2>7
    <2> QED
      BY <1>1, <2>1, <2>5, <2>6, <2>8 DEF SoFar, r
  <1>3. 0 \in S
    OBVIOUS
  <1>4. ASSUME NEW j \in S PROVE j + 1 \in S
    <2>1. ASSUME j + 1 < Len(t), Same(j + 1), j >= 1
          PROVE  SoFar(src, reads, o, t, j + 1)
      <3> DEFINE r == reads[o + j]
                 c == At(src, o + j)
                 q == Longer(r, c)
      <3>1. j \in Nat /\ j < Len(t)
        BY <1>1, <2>1
      <3>2. Same(j)
        BY <2>1, <3>1
      <3>3. SoFar(src, reads, o, t, j)
        BY <2>1, <3>1, <3>2
      <3>4. c = t[j + 1] /\ c # Outside
        <4>1. j + 1 \in 1 .. j + 1 /\ o + (j + 1) - 1 = o + j /\ j + 1 \in 1 .. Len(t)
          BY <1>1, <2>1, <3>1
        <4> QED
          BY <1>1, <2>1, <4>1
      <3>5. o + j \in Nat /\ o + j < Len(src) /\ o + (j + 1) = o + j + 1
        BY <1>1, <3>1, <3>4, OutsideText
      <3>6. c \in STRING
        BY <3>5, Character
      <3>7. /\ r \in Readings /\ r.mode = "word" /\ r.open = reads[o].open /\ ~r.high
            /\ Len(r.part) = j /\ \A i \in 1 .. j : r.part[i] = t[i]
        BY <3>3 DEF SoFar
      <3>8. reads[o + (j + 1)] = Reads(r, c)
        BY <3>5 DEF Run
      <3>9. j >= 1 /\ j < Len(t) /\ j + 1 # Len(t)
        BY <1>1, <2>1, <3>1
      <3> HIDE DEF S, Same, r, c, q, t
      <3>10. c = t[j + 1] /\ j + 1 # Len(t) => Reads(r, c) = q
        BY <3>1, <3>6, <3>7, <3>9, KeywordIs DEF t, q
      <3>11. /\ q \in Readings /\ q.mode = "word" /\ q.open = r.open /\ q.high = r.high
             /\ Len(q.part) = j + 1 /\ q.part[j + 1] = c
             /\ \A i \in 1 .. j : q.part[i] = r.part[i]
        BY <3>6, <3>7, LongerReadings DEF q
      <3>12. \A i \in 1 .. j + 1 : q.part[i] = t[i]
        BY <3>1, <3>4, <3>7, <3>11
      <3>13. o + (j + 1) <= Len(src)
        BY <1>1, <3>5
      <3> QED
        BY <3>4, <3>7, <3>8, <3>9, <3>10, <3>11, <3>12, <3>13, ZenonT(60) DEF SoFar
    <2>2. j \in Nat
      OBVIOUS
    <2>3. j = 0 => j + 1 = 1
      OBVIOUS
    <2> QED
      BY <1>2, <2>1, <2>2, <2>3
  <1> HIDE DEF S
  <1>5. S = Nat
    BY <1>3, <1>4, AllNaturals DEF S
  <1> QED
    BY <1>5 DEF S

(* All the letters of a word end a value, and any other letter fails.      *)
LEMMA WordEnds ==
    ASSUME NEW src \in Texts, NEW reads, Run(src, reads), NEW o \in Nat, o < Len(src),
           reads[o].mode \in {"value", "array"}, ~reads[o].high,
           NEW w \in WordNames, At(src, o) = WordText[w][1]
    PROVE  LET end == o + Len(WordText[w])
           IN  /\ Starts(src, o, WordText[w]) =>
                     end <= Len(src) /\ ValueEnded(src, reads, end, reads[o].open)
               /\ ~Starts(src, o, WordText[w]) => Fails(src, reads)
  <1> DEFINE t == WordText[w]
  <1>1. /\ Len(src) \in Nat /\ Len(t) \in Nat /\ Len(t) >= 4
        /\ \A i \in 1 .. Len(t) : t[i] # Outside
    <2>1. Len(t) \in Nat /\ Len(t) >= 4 /\ \A i \in 1 .. Len(t) : t[i] # Outside
      BY WordLetters
    <2>2. Len(src) \in Nat
      BY DEF Texts
    <2> QED
      BY <2>1, <2>2
  <1>2. ASSUME NEW n \in Nat, n >= 1, n < Len(t), \A i \in 1 .. n : At(src, o + i - 1) = t[i]
        PROVE  /\ o + n \in Nat /\ o + n <= Len(src) /\ reads[o + n].mode = "word"
               /\ o + n < Len(src) =>
                     /\ At(src, o + n) # t[n + 1] => Fails(src, reads)
                     /\ At(src, o + n) = t[n + 1] /\ n + 1 = Len(t) =>
                           ValueEnded(src, reads, o + n + 1, reads[o].open)
    <2> DEFINE r == reads[o + n]
               c == At(src, o + n)
    <2>1. SoFar(src, reads, o, t, n)
      BY <1>2, WordsRead
    <2>2. o + n \in Nat /\ o + n <= Len(src)
      BY <2>1 DEF SoFar
    <2>3. /\ r \in Readings /\ r.mode = "word" /\ r.open = reads[o].open /\ ~r.high
          /\ Len(r.part) = n /\ \A i \in 1 .. n : r.part[i] = t[i]
      BY <2>1 DEF SoFar
    <2>4. ASSUME o + n < Len(src)
          PROVE  /\ c # t[n + 1] => Fails(src, reads)
                 /\ c = t[n + 1] /\ n + 1 = Len(t) =>
                       ValueEnded(src, reads, o + n + 1, reads[o].open)
      <3>1. c \in STRING
        BY <2>2, <2>4, Character
      <3>2. reads[o + n + 1] = Reads(r, c)
        BY <2>2, <2>4 DEF Run
      <3> HIDE DEF r, c, t
      <3>3. /\ c # t[n + 1] => Reads(r, c) = Stuck(r)
            /\ c = t[n + 1] /\ n + 1 = Len(t) => Reads(r, c) = In(r, "after")
        BY <1>2, <2>3, <3>1, KeywordIs DEF t
      <3>4. c # t[n + 1] => Fails(src, reads)
        BY <2>2, <2>4, <3>3, RefusedFails DEF r, c
      <3>5. ASSUME c = t[n + 1], n + 1 = Len(t)
            PROVE  ValueEnded(src, reads, o + n + 1, reads[o].open)
        <4>1. OnlyMode(In(r, "after"), r, "after")
          BY <2>3, InReadings DEF Modes, StructureModes
        <4> QED
          BY <2>3, <3>2, <3>3, <3>5, <4>1 DEF OnlyMode, ValueEnded
      <3> QED
        BY <3>4, <3>5
    <2> QED
      BY <2>2, <2>3, <2>4
  <1>3. ASSUME Starts(src, o, t)
        PROVE  o + Len(t) <= Len(src) /\ ValueEnded(src, reads, o + Len(t), reads[o].open)
    <2> DEFINE n == Len(t) - 1
    <2>1. n \in Nat /\ n >= 1 /\ n < Len(t) /\ n + 1 = Len(t) /\ n + 1 \in 1 .. Len(t)
          /\ o + (n + 1) - 1 = o + n /\ o + n + 1 = o + Len(t)
      BY <1>1
    <2> HIDE DEF n
    <2>2. \A i \in 1 .. n : At(src, o + i - 1) = t[i]
      BY <1>1, <1>3, <2>1 DEF Starts
    <2>3. At(src, o + n) = t[n + 1] /\ At(src, o + n) # Outside
      BY <1>1, <1>3, <2>1 DEF Starts
    <2>4. o + n \in Nat /\ o + n < Len(src)
      BY <1>1, <2>1, <2>3, OutsideText
    <2>5. ValueEnded(src, reads, o + n + 1, reads[o].open)
      BY <1>2, <2>1, <2>2, <2>3, <2>4
    <2> QED
      BY <1>1, <2>1, <2>4, <2>5
  <1>4. ASSUME ~Starts(src, o, t)
        PROVE  Fails(src, reads)
    <2> DEFINE D == {i \in Nat : i >= 1 /\ i <= Len(t) /\ At(src, o + i - 1) # t[i]}
    <2>1. PICK i \in 1 .. Len(t) : At(src, o + i - 1) # t[i]
      BY <1>4 DEF Starts
    <2>2. i \in D
      BY <1>1, <2>1
    <2>3. Min(D) \in D /\ \A k \in D : Min(D) <= k
      BY <2>2, LeastExists
    <2> DEFINE m == Min(D)
               n == m - 1
    <2>4. m \in Nat /\ m >= 1 /\ m <= Len(t) /\ At(src, o + m - 1) # t[m]
      BY <2>3
    <2>5. \A k \in Nat : k >= 1 /\ k < m => k \notin D
      BY <2>3, <2>4, SMTT(30)
    <2>6. \A k \in 1 .. m - 1 : At(src, o + k - 1) = t[k]
      <3> SUFFICES ASSUME NEW k \in 1 .. m - 1 PROVE At(src, o + k - 1) = t[k]
        OBVIOUS
      <3>1. k \in Nat /\ k >= 1 /\ k < m /\ k <= Len(t)
        BY <1>1, <2>4
      <3> HIDE DEF m
      <3> QED
        BY <2>5, <3>1
    <2> HIDE DEF m, D
    <2>7. m # 1
      <3>1. o + 1 - 1 = o
        OBVIOUS
      <3> QED
        BY <2>4, <3>1
    <2>8. n \in Nat /\ n >= 1 /\ n < Len(t) /\ m = n + 1 /\ o + m - 1 = o + n /\ m - 1 = n
      BY <1>1, <2>4, <2>7
    <2> HIDE DEF n
    <2>9. \A k \in 1 .. n : At(src, o + k - 1) = t[k]
      BY <2>6, <2>8
    <2>10. At(src, o + n) # t[n + 1]
      BY <2>4, <2>8
    <2>11. o + n \in Nat /\ o + n <= Len(src) /\ reads[o + n].mode = "word"
      BY <1>2, <2>8, <2>9
    <2>12. CASE o + n < Len(src)
      BY <1>2, <2>8, <2>9, <2>10, <2>12
    <2>13. CASE o + n = Len(src)
      BY <2>11, <2>13, UnfinishedFails
    <2> QED
      BY <1>1, <2>11, <2>12, <2>13
  <1> QED
    BY <1>3, <1>4

(* What a value that is no word may start with.                            *)
ValueMarks == {"\"", "{", "[", "-"} \cup Digit

(* Nothing else starts a value.                                            *)
LEMMA OtherStarts ==
    ASSUME NEW r, NEW c, c \notin ValueMarks \cup Space, c \notin {"t", "f", "n"}
    PROVE  ValueStarts(r, c) = Stuck(r)
  <1>1. c \notin {"\"", "{", "[", "-", "t", "f", "n"} \cup Digit \cup Space
    BY DEF ValueMarks
  <1> QED
    BY <1>1, ValueStartsIs

(* The first pass and the grammar take the same words.                     *)
LEMMA WordMeets ==
    ASSUME NEW src \in Texts, NEW reads, Run(src, reads), NEW st \in State, st.ok,
           st.at < Len(src), At(src, st.at) \notin ValueMarks \cup Space,
           reads[st.at].mode \in {"value", "array"}, ~reads[st.at].high,
           reads[st.at].mode = "array" => At(src, st.at) # "]"
    PROVE  LET next == PastWord(st, Word(src, st.at))
           IN  IF Through(src, next) THEN ValueEnded(src, reads, next.at, reads[st.at].open)
               ELSE Fails(src, reads)
  <1> DEFINE o == st.at
             c == At(src, o)
             word == Word(src, o)
             next == PastWord(st, word)
             open == reads[o].open
  <1>1. Len(src) \in Nat /\ o \in Nat
    <2>1. Len(src) \in Nat
      BY DEF Texts
    <2>2. o \in Nat
      BY DEF State
    <2> QED
      BY <2>1, <2>2
  <1>2. /\ word \in WordNames \cup {""}
        /\ \A w \in WordNames : word = w <=> Starts(src, o, WordText[w])
    BY <1>1, WordIs
  <1>5. ASSUME word \in WordNames
        PROVE  /\ Starts(src, o, WordText[word]) /\ At(src, o) = WordText[word][1]
               /\ WordText[word][1] \in {"t", "f", "n"}
    <2>1. word = word /\ Starts(src, o, WordText[word])
      BY <1>2, <1>5
    <2> HIDE DEF word
    <2>2. WordText[word][1] \in {"t", "f", "n"} /\ Len(WordText[word]) \in Nat /\ Len(WordText[word]) >= 4
      BY <1>5, WordLetters
    <2>3. 1 \in 1 .. Len(WordText[word]) /\ o + 1 - 1 = o
      BY <1>1, <2>2
    <2>4. At(src, o) = WordText[word][1]
      BY <2>1, <2>3 DEF Starts
    <2> QED
      BY <2>1, <2>2, <2>4
  <1>6. word = "" => ~Through(src, next)
    BY DEF Through, PastWord, Refused
  <1>7. ASSUME NEW w \in WordNames, word = w
        PROVE  next.ok /\ next.at = o + Len(WordText[w])
    <2> DEFINE end == o + Len(WordText[w])
    <2>1. w # ""
      BY DEF WordNames
    <2>2. end \in Nat
      <3>1. Len(WordText[w]) \in Nat /\ Len(WordText[w]) >= 4
        BY WordLetters
      <3> QED
        BY <1>1, <3>1
    <2>3. next = [st EXCEPT !.at = st.at + Len(WordText[w])]
      BY <1>7, <2>1 DEF PastWord
    <2>4. next = [st EXCEPT !.at = end]
      BY <2>3
    <2> HIDE DEF next, end
    <2>5. next.ok /\ next.at = end
      BY <2>2, <2>4, MovedState
    <2> QED
      BY <2>5 DEF end
  <1> DEFINE Meets == IF Through(src, next) THEN ValueEnded(src, reads, next.at, open)
                      ELSE Fails(src, reads)
  <1> SUFFICES Meets
    OBVIOUS
  <1> HIDE DEF word, next
  <1>3. CASE c \notin {"t", "f", "n"}
    <2>1. word = ""
      BY <1>2, <1>3, <1>5
    <2>2. ~Through(src, next)
      BY <1>6, <2>1
    <2>3. reads[o] \in Readings
      BY <1>1 DEF Run
    <2>4. Reads(reads[o], c) = Stuck(reads[o])
      <3>1. c \notin Space /\ (reads[o].mode = "array" => c # "]")
        OBVIOUS
      <3> HIDE DEF c
      <3>2. Reads(reads[o], c) = ValueStarts(reads[o], c)
        BY <2>3, <3>1, ValueReads
      <3>3. ValueStarts(reads[o], c) = Stuck(reads[o])
        BY <1>3, OtherStarts DEF c
      <3> QED
        BY <3>2, <3>3
    <2>5. Fails(src, reads)
      BY <1>1, <2>4, RefusedFails
    <2> QED
      BY <2>2, <2>5
  <1>4. CASE c \in {"t", "f", "n"}
    <2>1. PICK w \in WordNames : WordText[w][1] = c
      BY <1>4, WordLetters
    <2>2. /\ Starts(src, o, WordText[w]) =>
                /\ o + Len(WordText[w]) <= Len(src)
                /\ ValueEnded(src, reads, o + Len(WordText[w]), open)
          /\ ~Starts(src, o, WordText[w]) => Fails(src, reads)
      BY <1>1, <2>1, WordEnds
    <2>3. CASE Starts(src, o, WordText[w])
      <3>1. next.ok /\ next.at = o + Len(WordText[w])
        BY <1>2, <1>7, <2>3
      <3> QED
        BY <2>2, <2>3, <3>1 DEF Through
    <2>4. CASE ~Starts(src, o, WordText[w])
      <3>1. ASSUME word \in WordNames PROVE FALSE
        <4>1. WordText[word][1] = WordText[w][1] /\ Starts(src, o, WordText[word])
          BY <1>5, <2>1, <3>1
        <4>2. word = w
          BY <3>1, <4>1, WordLetters
        <4> QED
          BY <2>4, <4>1, <4>2
      <3> QED
        BY <1>2, <1>6, <2>2, <2>4, <3>1
    <2> QED
      BY <2>3, <2>4
  <1> QED
    BY <1>3, <1>4
-----------------------------------------------------------------------------
(* Strings.                                                                *)
Quote == "\""

(* In a string, what one character does.                                   *)
LEMMA StringReads ==
    ASSUME NEW r \in Readings, r.mode = "string", NEW c
    PROVE  /\ c = "\\" => Reads(r, c) = In(r, "escape")
           /\ r.high /\ c # "\\" => Reads(r, c) = Stuck(r)
           /\ ~r.high /\ c = Quote =>
                 Reads(r, c) = In(r, IF r.key THEN "colon" ELSE "after")
           /\ ~r.high /\ c \in Breaks \ {Outside} => Reads(r, c) = Stuck(r)
           /\ ~r.high /\ c \notin Breaks \cup {Quote, "\\"} => Reads(r, c) = r
  <1> DEFINE quote == Quote
             breaks == {Nul, "\t", "\r", "\n"}
             escape == In(r, "escape")
             end == In(r, IF r.key THEN "colon" ELSE "after")
             plain == CASE c = quote -> end
                        [] c = "\\" -> escape
                        [] c \in breaks -> Stuck(r)
                        [] OTHER -> r
  <1>1. Reads(r, c) = Text(r, c)
    BY ReadsIs DEF TextModes
  <1>2. Text(r, c) = IF r.high THEN (IF c = "\\" THEN escape ELSE Stuck(r)) ELSE plain
    <2>1. CASE r.high
      BY <2>1 DEF Text
    <2>2. CASE ~r.high
      BY <2>2 DEF Text, Quote
    <2> QED
      BY <2>1, <2>2
  <1>3. /\ quote # "\\" /\ quote \notin breaks /\ "\\" \notin breaks
        /\ breaks = Breaks \ {Outside}
    BY DEF Quote, Breaks, Nul, Outside
  <1> HIDE DEF quote, breaks, escape, end
  <1>4. /\ c = quote => plain = end
        /\ c = "\\" => plain = escape
        /\ c \in breaks => plain = Stuck(r)
        /\ c # quote /\ c # "\\" /\ c \notin breaks => plain = r
    BY <1>3
  <1> HIDE DEF plain
  <1> QED
    BY <1>1, <1>2, <1>3, <1>4 DEF quote, escape, end

(* Behind a backslash.                                                     *)
Coded(r) == [r EXCEPT !.mode = "unicode", !.part = <<>>]

(* What the grammar makes of the character behind a backslash.             *)
LEMMA EscapeReads ==
    ASSUME NEW r \in Readings, r.mode = "escape", NEW c
    PROVE  /\ c = "u" => Reads(r, c) = Coded(r)
           /\ c \in Escapes /\ ~r.high => Reads(r, c) = In(r, "string")
           /\ c # "u" /\ (c \notin Escapes \/ r.high) => Reads(r, c) = Stuck(r)
  <1> DEFINE coded == Coded(r)
             string == In(r, "string")
             next == CASE c = "u" -> coded
                       [] c \in Escapes /\ ~r.high -> string
                       [] OTHER -> Stuck(r)
  <1>1. Reads(r, c) = Text(r, c)
    BY ReadsIs DEF TextModes
  <1>2. Text(r, c) = next
    BY DEF Text, Coded
  <1>3. "u" \notin Escapes
    BY DEF Escapes
  <1> HIDE DEF coded, string
  <1>4. /\ c = "u" => next = coded
        /\ c \in Escapes /\ ~r.high => next = string
        /\ c # "u" /\ (c \notin Escapes \/ r.high) => next = Stuck(r)
    BY <1>3
  <1> HIDE DEF next
  <1> QED
    BY <1>1, <1>2, <1>4 DEF coded, string

(* A digit of a \u.                                                        *)
Hex == ToSet(HexDigits)

(* What it makes of a digit of a codepoint.                                *)
LEMMA HexReads ==
    ASSUME NEW r \in Readings, r.mode = "unicode", NEW c
    PROVE  /\ c \notin Hex => Reads(r, c) = Stuck(r)
           /\ c \in Hex /\ Len(r.part) < 3 => Reads(r, c) = Longer(r, c)
           /\ c \in Hex /\ ~(Len(r.part) < 3) =>
                 Reads(r, c) = Codepoint(r, Append(r.part, c))
  <1> DEFINE short == Len(r.part) < 3
             longer == Longer(r, c)
             whole == Codepoint(r, Append(r.part, c))
             next == CASE c \notin Hex -> Stuck(r)
                       [] c \in Hex /\ short -> longer
                       [] OTHER -> whole
  <1>1. Reads(r, c) = Text(r, c)
    BY ReadsIs DEF TextModes
  <1>2. DOMAIN json_hexadecimal_digit = Hex
    BY DEF json_hexadecimal_digit, Hex
  <1>3. Text(r, c) = next
    BY <1>2 DEF Text, Longer
  <1> HIDE DEF short, longer, whole
  <1>4. /\ c \notin Hex => next = Stuck(r)
        /\ c \in Hex /\ short => next = longer
        /\ c \in Hex /\ ~short => next = whole
    OBVIOUS
  <1> HIDE DEF next
  <1> QED
    BY <1>1, <1>3, <1>4 DEF short, longer, whole

(* The mark of the end is no digit.                                        *)
LEMMA OutsideHex == Outside \notin Hex
  <1>1. \A i \in 1 .. 22 : HexDigits[i] # Outside
    BY DEF HexDigits, Outside
  <1>2. DOMAIN HexDigits = 1 .. 22
    BY DEF HexDigits
  <1> QED
    BY <1>1, <1>2 DEF Hex, ToSet

(* The value of four characters depends on nothing else.                   *)
LEMMA HexSame ==
    ASSUME NEW a, NEW b, NEW m, NEW n, \A i \in 0 .. 3 : At(a, m + i) = At(b, n + i)
    PROVE  json_hexadecimal_value(a, m) = json_hexadecimal_value(b, n)
  <1>1. 0 \in 0 .. 3 /\ 1 \in 0 .. 3 /\ 2 \in 0 .. 3 /\ 3 \in 0 .. 3
    OBVIOUS
  <1>2. /\ At(a, m + 0) = At(b, n + 0) /\ At(a, m + 1) = At(b, n + 1)
        /\ At(a, m + 2) = At(b, n + 2) /\ At(a, m + 3) = At(b, n + 3)
    BY <1>1
  <1>3. (\A i \in 0 .. 3 : At(a, m + i) \in ToSet(HexDigits))
          <=> (\A i \in 0 .. 3 : At(b, n + i) \in ToSet(HexDigits))
    OBVIOUS
  <1> QED
    BY <1>2, <1>3 DEF json_hexadecimal_value

(* The first pass knows the value of four digits, and of nothing else.     *)
LEMMA HexKnown ==
    ASSUME NEW src, NEW offset \in Nat
    PROVE  json_hexadecimal_value(src, offset) # -1
              <=> \A i \in 0 .. 3 : At(src, offset + i) \in Hex
  <1> DEFINE digit(i) == json_hexadecimal_digit[At(src, offset + i)]
             hex == \A i \in 0 .. 3 : At(src, offset + i) \in Hex
             value == 4096 * digit(0) + 256 * digit(1) + 16 * digit(2) + digit(3)
  <1>1. json_hexadecimal_value(src, offset) = IF hex THEN value ELSE -1
    BY DEF json_hexadecimal_value, Hex
  <1>2. hex => \A i \in 0 .. 3 : digit(i) \in 0 .. 15
    BY DigitValue DEF Hex
  <1> HIDE DEF hex, digit
  <1>3. ASSUME hex PROVE value # -1
    <2>1. digit(0) \in 0 .. 15 /\ digit(1) \in 0 .. 15 /\ digit(2) \in 0 .. 15
          /\ digit(3) \in 0 .. 15
      BY <1>2, <1>3
    <2> DEFINE a == digit(0)
               b == digit(1)
               c == digit(2)
               d == digit(3)
    <2>2. a \in 0 .. 15 /\ b \in 0 .. 15 /\ c \in 0 .. 15 /\ d \in 0 .. 15
      BY <2>1, Zenon
    <2>3. value = 4096 * a + 256 * b + 16 * c + d
      BY Zenon
    <2> HIDE DEF a, b, c, d, value
    <2> QED
      BY <2>2, <2>3
  <1> HIDE DEF value
  <1> QED
    BY <1>1, <1>3 DEF hex

(* Within the same string.                                                 *)
SameText(q, r) == q \in Readings /\ q.open = r.open /\ q.key = r.key

(* The first digits behind \u, whose `u' is at the offset.                 *)
DigitsSoFar(src, reads, u, j) ==
    LET r == reads[u + 1 + j]
    IN  /\ u + 1 + j <= Len(src)
        /\ SameText(r, reads[u]) /\ r.high = reads[u].high /\ r.mode = "unicode"
        /\ Len(r.part) = j
        /\ \A i \in 1 .. j : r.part[i] = At(src, u + i)

(* The grammar before the first digit of a codepoint.                      *)
LEMMA FirstDigits ==
    ASSUME NEW src \in Texts, NEW reads, Run(src, reads), NEW u \in Nat, u < Len(src),
           reads[u].mode = "escape", At(src, u) = "u"
    PROVE  DigitsSoFar(src, reads, u, 0)
  <1> DEFINE r == reads[u]
             q == Coded(r)
  <1>1. Len(src) \in Nat
    BY DEF Texts
  <1>2. r \in Readings /\ reads[u + 1] = Reads(r, At(src, u))
    BY <1>1 DEF Run
  <1>3. Reads(r, At(src, u)) = q
    BY <1>2, EscapeReads
  <1>4. SameText(q, r) /\ q.mode = "unicode" /\ q.high = r.high /\ q.part = <<>>
    <2>1. "unicode" \in Modes
      BY DEF Modes, TextModes
    <2>2. <<>> \in Seq(STRING)
      OBVIOUS
    <2> QED
      BY <1>2, <2>1, <2>2 DEF Coded, SameText, Readings
  <1> HIDE DEF q
  <1>5. u + 1 + 0 = u + 1 /\ u + 1 <= Len(src) /\ Len(<<>>) = 0
    BY <1>1
  <1> QED
    BY <1>2, <1>3, <1>4, <1>5 DEF DigitsSoFar

(* The grammar from one of its digits to the next.                         *)
LEMMA NextDigit ==
    ASSUME NEW src \in Texts, NEW reads, Run(src, reads), NEW u \in Nat,
           NEW j \in 0 .. 3, DigitsSoFar(src, reads, u, j)
    PROVE  LET at == u + 1 + j
           IN  /\ At(src, at) \notin Hex => Fails(src, reads)
               /\ At(src, at) \in Hex => at < Len(src)
               /\ At(src, at) \in Hex /\ j < 3 => DigitsSoFar(src, reads, u, j + 1)
  <1> DEFINE at == u + 1 + j
             c == At(src, at)
             r == reads[at]
             q == Longer(r, c)
  <1>1. Len(src) \in Nat /\ at \in Nat /\ at <= Len(src)
    BY DEF Texts, DigitsSoFar
  <1>2. /\ SameText(r, reads[u]) /\ r.high = reads[u].high /\ r.mode = "unicode"
        /\ Len(r.part) = j
        /\ \A i \in 1 .. j : r.part[i] = At(src, u + i)
    BY DEF DigitsSoFar
  <1>3. r \in Readings
    BY <1>2 DEF SameText
  <1>4. at < Len(src) => c \in STRING /\ reads[at + 1] = Reads(r, c)
    BY <1>1, Character DEF Run
  <1>5. c \in Hex => at < Len(src)
    BY <1>1, OutsideText, OutsideHex
  <1>6. at = u + 1 + j /\ c = At(src, at)
    OBVIOUS
  <1> HIDE DEF at, r, c
  <1>7. ASSUME c \notin Hex PROVE Fails(src, reads)
    <2>1. CASE at < Len(src)
      <3>1. Reads(r, c) = Stuck(r)
        BY <1>2, <1>3, <1>7, HexReads
      <3> QED
        BY <1>1, <2>1, <3>1, RefusedFails DEF r, c
    <2>2. CASE at = Len(src)
      BY <1>2, <2>2, UnfinishedFails DEF r
    <2> QED
      BY <1>1, <2>1, <2>2
  <1>8. ASSUME c \in Hex, j < 3
        PROVE  DigitsSoFar(src, reads, u, j + 1)
    <2>1. at < Len(src) /\ c \in STRING /\ reads[at + 1] = Reads(r, c)
      BY <1>4, <1>5, <1>8
    <2>2. Reads(r, c) = q
      BY <1>2, <1>3, <1>8, HexReads
    <2>3. /\ q \in Readings /\ q.mode = "unicode" /\ q.open = r.open /\ q.key = r.key
          /\ q.high = r.high
          /\ Len(q.part) = j + 1 /\ q.part[j + 1] = c
          /\ \A i \in 1 .. j : q.part[i] = r.part[i]
      BY <1>2, <1>3, <2>1, LongerReadings
    <2> HIDE DEF q
    <2>4. u + 1 + (j + 1) = at + 1 /\ at + 1 <= Len(src) /\ u + (j + 1) = at
      BY <1>1, <1>6, <2>1
    <2>5. \A i \in 1 .. j + 1 : q.part[i] = At(src, u + i)
      <3> SUFFICES ASSUME NEW i \in 1 .. j + 1 PROVE q.part[i] = At(src, u + i)
        OBVIOUS
      <3>1. CASE i = j + 1
        BY <1>6, <2>3, <2>4, <3>1
      <3>2. CASE i # j + 1
        <4>1. i \in 1 .. j
          BY <3>2
        <4> QED
          BY <1>2, <2>3, <4>1
      <3> QED
        BY <3>1, <3>2
    <2>6. SameText(q, reads[u])
      BY <1>2, <2>3 DEF SameText
    <2>7. reads[u + 1 + (j + 1)] = q
      BY <2>1, <2>2, <2>4
    <2> QED
      BY <1>2, <2>3, <2>4, <2>5, <2>6, <2>7 DEF DigitsSoFar
  <1> QED
    BY <1>5, <1>7, <1>8 DEF at, c

(* What the four digits make of a reading.                                 *)
LEMMA CodepointIs ==
    ASSUME NEW r \in Readings, NEW digits
    PROVE  LET codepoint == json_hexadecimal_value(digits, 0)
               q == Codepoint(r, digits)
           IN  /\ ~(r.high <=> LowSurrogate(codepoint)) => q = Stuck(r)
               /\ (r.high <=> LowSurrogate(codepoint)) =>
                     /\ SameText(q, r) /\ q.mode = "string"
                     /\ q.high <=> HighSurrogate(codepoint)
  <1> DEFINE codepoint == json_hexadecimal_value(digits, 0)
             low == LowSurrogate(codepoint)
             high == HighSurrogate(codepoint)
             raised == [In(r, "string") EXCEPT !.high = TRUE]
             lowered == [In(r, "string") EXCEPT !.high = FALSE]
             same == In(r, "string")
             q == Codepoint(r, digits)
             stuck == Stuck(r)
             waits == r.high
             paired == IF waits THEN lowered ELSE stuck
  <1>1. q = CASE low -> paired
              [] ~low /\ waits -> stuck
              [] high /\ ~waits -> raised
              [] OTHER -> same
    BY DEF Codepoint
  <1>2. ~(low /\ high)
    <2>1. codepoint \in Int
      BY HexValue
    <2> HIDE DEF codepoint
    <2> QED
      BY <2>1 DEF LowSurrogate, HighSurrogate
  <1>3. /\ SameText(raised, r) /\ raised.mode = "string" /\ raised.high = TRUE
        /\ SameText(lowered, r) /\ lowered.mode = "string" /\ lowered.high = FALSE
    BY HighReadings DEF SameText
  <1>4. SameText(same, r) /\ same.mode = "string" /\ same.high = r.high
    <2>1. "string" \in Modes
      BY DEF Modes, TextModes
    <2>2. OnlyMode(same, r, "string")
      BY <2>1, InReadings
    <2> QED
      BY <2>2 DEF SameText, OnlyMode
  <1>10. (waits => paired = lowered) /\ (~waits => paired = stuck)
    OBVIOUS
  <1> HIDE DEF low, high, raised, lowered, same, q, stuck, waits, paired
  <1>5. ~(waits <=> low) => q = stuck
    <2>1. low /\ ~waits => q = stuck
      BY <1>1, <1>2, <1>10
    <2>2. ~low /\ waits => q = stuck
      BY <1>1
    <2> QED
      BY <2>1, <2>2
  <1>6. low /\ waits => q = lowered
    BY <1>1, <1>10
  <1>7. ~low /\ ~waits /\ high => q = raised
    BY <1>1
  <1>8. ~low /\ ~waits /\ ~high => q = same
    BY <1>1
  <1>9. (waits <=> low) => SameText(q, r) /\ q.mode = "string" /\ (q.high <=> high)
    <2>1. CASE low /\ waits
      BY <1>2, <1>3, <1>6, <2>1
    <2>2. CASE ~low /\ ~waits /\ high
      BY <1>3, <1>7, <2>2
    <2>3. CASE ~low /\ ~waits /\ ~high
      BY <1>4, <1>8, <2>3 DEF waits
    <2> QED
      BY <2>1, <2>2, <2>3
  <1> QED
    BY <1>5, <1>9 DEF low, high, q, waits, stuck

(* A whole \uXXXX.                                                         *)
LEMMA UnicodeReads ==
    ASSUME NEW src \in Texts, NEW reads, Run(src, reads), NEW u \in Nat, u < Len(src),
           reads[u].mode = "escape", At(src, u) = "u",
           NEW codepoint, codepoint = json_hexadecimal_value(src, u + 1)
    PROVE  \/ Fails(src, reads) /\ codepoint = -1
           \/ /\ codepoint # -1 /\ u + 5 <= Len(src)
              /\ ~(reads[u].high <=> LowSurrogate(codepoint)) => Fails(src, reads)
              /\ (reads[u].high <=> LowSurrogate(codepoint)) =>
                    /\ SameText(reads[u + 5], reads[u]) /\ reads[u + 5].mode = "string"
                    /\ reads[u + 5].high <=> HighSurrogate(codepoint)
  <1>1. Len(src) \in Nat
    BY DEF Texts
  <1>2. codepoint # -1 <=> \A i \in 0 .. 3 : At(src, u + 1 + i) \in Hex
    BY HexKnown
  <1>3. DigitsSoFar(src, reads, u, 0)
    BY FirstDigits
  <1>4. CASE codepoint = -1
    <2> DEFINE H(j) == At(src, u + 1 + j) \in Hex
               D(j) == DigitsSoFar(src, reads, u, j)
    <2>1. ~(H(0) /\ H(1) /\ H(2) /\ H(3))
      <3>1. PICK i \in 0 .. 3 : ~H(i)
        BY <1>2, <1>4
      <3>2. i = 0 \/ i = 1 \/ i = 2 \/ i = 3
        OBVIOUS
      <3> QED
        BY <3>1, <3>2
    <2>2. ASSUME NEW j \in 0 .. 3, D(j)
          PROVE  (H(j) \/ Fails(src, reads)) /\ (H(j) /\ j < 3 => D(j + 1))
      BY <2>2, NextDigit
    <2>3. 0 \in 0 .. 3 /\ 1 \in 0 .. 3 /\ 2 \in 0 .. 3 /\ 3 \in 0 .. 3
          /\ 0 < 3 /\ 1 < 3 /\ 2 < 3 /\ 0 + 1 = 1 /\ 1 + 1 = 2 /\ 2 + 1 = 3
      OBVIOUS
    <2> HIDE DEF D, H
    <2>4. (H(0) \/ Fails(src, reads)) /\ (H(0) => D(1))
      BY <1>3, <2>2, <2>3 DEF D
    <2>5. H(0) => (H(1) \/ Fails(src, reads)) /\ (H(1) => D(2))
      BY <2>2, <2>3, <2>4
    <2>6. H(0) /\ H(1) => (H(2) \/ Fails(src, reads)) /\ (H(2) => D(3))
      BY <2>2, <2>3, <2>4, <2>5
    <2>7. H(0) /\ H(1) /\ H(2) => H(3) \/ Fails(src, reads)
      BY <2>2, <2>3, <2>4, <2>5, <2>6
    <2> QED
      BY <1>4, <2>1, <2>4, <2>5, <2>6, <2>7
  <1>5. CASE codepoint # -1
    <2>1. \A i \in 0 .. 3 : At(src, u + 1 + i) \in Hex
      BY <1>2, <1>5
    <2>2. DigitsSoFar(src, reads, u, 1)
      BY <1>3, <2>1, NextDigit
    <2>3. DigitsSoFar(src, reads, u, 2)
      BY <2>1, <2>2, NextDigit
    <2>4. DigitsSoFar(src, reads, u, 3)
      BY <2>1, <2>3, NextDigit
    <2> DEFINE at == u + 1 + 3
               r == reads[at]
               c == At(src, at)
               digits == Append(r.part, c)
               q == Codepoint(r, digits)
    <2>5. c \in Hex /\ at < Len(src)
      BY <2>1, <2>4, NextDigit
    <2>6. /\ SameText(r, reads[u]) /\ r.high = reads[u].high /\ r.mode = "unicode"
          /\ Len(r.part) = 3 /\ \A i \in 1 .. 3 : r.part[i] = At(src, u + i)
      BY <2>4 DEF DigitsSoFar
    <2>7. r \in Readings /\ at \in Nat
      BY <2>6 DEF SameText
    <2>8. c \in STRING /\ reads[at + 1] = Reads(r, c)
      BY <2>5, <2>7, Character DEF Run
    <2>9. u + 5 = at + 1 /\ u + 5 <= Len(src) /\ at = u + 4
      BY <1>1, <2>5
    <2> HIDE DEF at, r, c
    <2>10. Reads(r, c) = q
      BY <2>5, <2>6, <2>7, HexReads
    <2>11. json_hexadecimal_value(digits, 0) = codepoint
      <3>1. /\ Len(digits) = 4 /\ digits[4] = c
            /\ \A i \in 1 .. 3 : digits[i] = r.part[i]
        <4>1. digits = Longer(r, c).part
          BY <2>7 DEF Longer, Readings
        <4> HIDE DEF digits
        <4>2. /\ Len(Longer(r, c).part) = Len(r.part) + 1
              /\ Longer(r, c).part[Len(r.part) + 1] = c
              /\ \A i \in 1 .. Len(r.part) : Longer(r, c).part[i] = r.part[i]
          BY <2>7, <2>8, LongerReadings
        <4>3. 3 + 1 = 4
          OBVIOUS
        <4> QED
          BY <2>6, <4>1, <4>2, <4>3
      <3> HIDE DEF digits
      <3>2. ASSUME NEW i \in 0 .. 3 PROVE At(digits, 0 + i) = At(src, u + 1 + i)
        <4>1. At(digits, 0 + i) = digits[i + 1] /\ u + 1 + i = u + (i + 1)
          BY <3>1 DEF At
        <4>2. CASE i = 3
          BY <2>9, <3>1, <4>1, <4>2 DEF c
        <4>3. CASE i # 3
          <5>1. i + 1 \in 1 .. 3
            BY <4>3
          <5> QED
            BY <2>6, <3>1, <4>1, <5>1
        <4> QED
          BY <4>2, <4>3
      <3>3. json_hexadecimal_value(digits, 0) = json_hexadecimal_value(src, u + 1)
        BY <3>2, HexSame
      <3> QED
        BY <3>3
    <2>12. /\ ~(r.high <=> LowSurrogate(codepoint)) => q = Stuck(r)
           /\ (r.high <=> LowSurrogate(codepoint)) =>
                 /\ SameText(q, r) /\ q.mode = "string"
                 /\ q.high <=> HighSurrogate(codepoint)
      BY <2>7, <2>11, CodepointIs
    <2> HIDE DEF q
    <2>13. ~(r.high <=> LowSurrogate(codepoint)) => Fails(src, reads)
      BY <2>5, <2>7, <2>10, <2>12, RefusedFails DEF r, c
    <2>14. reads[u + 5] = q
      BY <2>8, <2>9, <2>10
    <2>15. SameText(q, r) => SameText(q, reads[u])
      BY <2>6 DEF SameText
    <2> QED
      BY <1>5, <2>6, <2>9, <2>12, <2>13, <2>14, <2>15
  <1> QED
    BY <1>4, <1>5

(* A string has been read up to p, which began in the reading r.           *)
StringEnded(reads, p, r) ==
    /\ reads[p].open = r.open /\ ~reads[p].high
    /\ reads[p].mode = IF r.key THEN "colon" ELSE "after"

(* A low half, of which the first two characters are there, is due.        *)
HalfStarts(src, o) == At(src, o) = "\\" /\ At(src, o + 1) = "u"

(* The rest of a string, from o on, is what the grammar reads.             *)
StringMet(src, reads, string, o) ==
    \A high \in Nat :
        /\ o <= Len(src) /\ reads[o].mode = "string"
        /\ reads[o].high <=> high # 0
        /\ high # 0 => HalfStarts(src, o)
        => IF Through(src, string[o][high])
           THEN StringEnded(reads, string[o][high].at, reads[o])
           ELSE Fails(src, reads)

(* What starts the second half of a surrogate pair.                        *)
LEMMA HalfStartsIs ==
    ASSUME NEW src, NEW o \in Nat
    PROVE  Starts(src, o, <<"\\", "u">>) <=> HalfStarts(src, o)
  <1> DEFINE word == <<"\\", "u">>
  <1>1. Len(word) = 2 /\ word[1] = "\\" /\ word[2] = "u"
    OBVIOUS
  <1> HIDE DEF word
  <1>2. Starts(src, o, word) <=> \A i \in 1 .. 2 : At(src, o + i - 1) = word[i]
    BY <1>1 DEF Starts
  <1>3. (\A i \in 1 .. 2 : At(src, o + i - 1) = word[i])
           <=> At(src, o + 1 - 1) = word[1] /\ At(src, o + 2 - 1) = word[2]
    OBVIOUS
  <1>4. o + 1 - 1 = o /\ o + 2 - 1 = o + 1
    OBVIOUS
  <1> QED
    BY <1>1, <1>2, <1>3, <1>4 DEF word, HalfStarts

(* A part of a string before one that is met.                              *)
LEMMA StringGoesOn ==
    ASSUME NEW src \in Texts, NEW reads, NEW string, NEW p \in Nat, p <= Len(src),
           StringMet(src, reads, string, p), NEW high \in Nat, string[p][high] \in State,
           reads[p].mode = "string", NEW r, SameText(reads[p], r),
           reads[p].high <=> high # 0, high # 0 => HalfStarts(src, p),
           NEW n \in Nat, NEW size, size = More(string[p][high], 0, n)
    PROVE  IF Through(src, size) THEN StringEnded(reads, size.at, r) ELSE Fails(src, reads)
  <1> DEFINE rest == string[p][high]
  <1>1. IF Through(src, rest) THEN StringEnded(reads, rest.at, reads[p])
        ELSE Fails(src, reads)
    BY DEF StringMet
  <1>2. rest \in State /\ size = More(rest, 0, n) /\ 0 \in Nat
    OBVIOUS
  <1> HIDE DEF rest
  <1>6. /\ size.ok <=> rest.ok
        /\ rest.ok => size.at = rest.at
    <2>1. LET more == More(rest, 0, n)
          IN  /\ more.ok <=> rest.ok
              /\ rest.ok => more.at = rest.at
      BY <1>2, MoreStays, Zenon
    <2> QED
      BY <1>2, <2>1
  <1>3. Through(src, size) <=> Through(src, rest)
    BY <1>6 DEF Through
  <1>4. StringEnded(reads, rest.at, reads[p]) => StringEnded(reads, rest.at, r)
    BY DEF StringEnded, SameText
  <1>5. Through(src, rest) => size.at = rest.at
    BY <1>6 DEF Through
  <1> QED
    BY <1>1, <1>3, <1>4, <1>5

(* The grammar refuses what is no low half where one is due.               *)
LEMMA HalfDue ==
    ASSUME NEW src \in Texts, NEW reads, Run(src, reads), NEW o \in Nat, o <= Len(src),
           reads[o].mode = "string", reads[o].high,
           ~(o + 6 <= Len(src) /\ HalfStarts(src, o))
    PROVE  Fails(src, reads)
  <1> DEFINE r == reads[o]
             c == At(src, o)
             q == In(r, "escape")
  <1>1. Len(src) \in Nat
    BY DEF Texts
  <1>2. r \in Readings
    BY <1>1 DEF Run
  <1>3. CASE o = Len(src)
    BY <1>3, UnfinishedFails
  <1>4. CASE o < Len(src) /\ c # "\\"
    <2>1. Reads(r, c) = Stuck(r)
      BY <1>2, <1>4, StringReads
    <2> QED
      BY <1>4, <2>1, RefusedFails
  <1>5. CASE o < Len(src) /\ c = "\\"
    <2>1. reads[o + 1] = q
      <3>1. Reads(r, c) = q
        BY <1>2, <1>5, StringReads
      <3> QED
        BY <1>5, <3>1 DEF Run
    <2>2. q \in Readings /\ q.mode = "escape" /\ q.high = r.high
      <3>1. "escape" \in Modes
        BY DEF Modes, TextModes
      <3>2. OnlyMode(q, r, "escape")
        BY <1>2, <3>1, InReadings
      <3> QED
        BY <3>2 DEF OnlyMode
    <2> HIDE DEF q
    <2>3. o + 1 \in Nat /\ (o + 1 = Len(src) \/ o + 1 < Len(src))
      BY <1>1, <1>5
    <2>4. CASE o + 1 = Len(src)
      BY <2>1, <2>2, <2>4, UnfinishedFails
    <2>5. CASE o + 1 < Len(src) /\ At(src, o + 1) # "u"
      <3>1. Reads(q, At(src, o + 1)) = Stuck(q)
        BY <2>2, <2>5, EscapeReads
      <3> QED
        BY <2>1, <2>3, <2>5, <3>1, RefusedFails
    <2>6. CASE o + 1 < Len(src) /\ At(src, o + 1) = "u"
      <3>1. ~(o + 1 + 5 <= Len(src))
        BY <1>1, <1>5, <2>6 DEF HalfStarts
      <3> DEFINE u == o + 1
                 codepoint == json_hexadecimal_value(src, u + 1)
      <3>2. u \in Nat /\ u < Len(src) /\ reads[u].mode = "escape" /\ At(src, u) = "u"
        BY <2>1, <2>2, <2>3, <2>6
      <3>3. ~(u + 5 <= Len(src))
        BY <3>1
      <3> HIDE DEF u
      <3> QED
        BY <3>2, <3>3, UnicodeReads
    <2> QED
      BY <2>3, <2>4, <2>5, <2>6
  <1>6. o = Len(src) \/ o < Len(src)
    BY <1>1
  <1> QED
    BY <1>3, <1>4, <1>5, <1>6

(* A \uXXXX and the rest of the string behind it.                          *)
LEMMA UnicodeMeets ==
    ASSUME NEW src \in Texts, NEW reads, Run(src, reads), NEW string,
           \A p, h \in Nat : string[p][h] \in State,
           NEW u \in Nat, u < Len(src), reads[u].mode = "escape", At(src, u) = "u",
           \A p \in Nat : p > u => StringMet(src, reads, string, p),
           NEW high \in Nat, reads[u].high <=> high # 0,
           NEW codepoint, codepoint = json_hexadecimal_value(src, u + 1),
           NEW size, size = UnicodeSize(src, string, u, high, codepoint)
    PROVE  IF Through(src, size) THEN StringEnded(reads, size.at, reads[u])
           ELSE Fails(src, reads)
  <1> DEFINE valid == ValidUnicode(src, u, codepoint, high)
             p == u + 5
             wait == Waiting(codepoint)
             n == 1 + MoreBytes(codepoint, high)
             low == LowSurrogate(codepoint)
             upper == HighSurrogate(codepoint)
  <1>1. Len(src) \in Nat /\ p \in Nat /\ p > u /\ p + 6 = u + 11
    BY DEF Texts
  <1>2. codepoint \in Int
    BY HexValue
  <1>3. \/ Fails(src, reads) /\ codepoint = -1
        \/ /\ codepoint # -1 /\ p <= Len(src)
           /\ ~(reads[u].high <=> low) => Fails(src, reads)
           /\ (reads[u].high <=> low) =>
                 /\ SameText(reads[p], reads[u]) /\ reads[p].mode = "string"
                 /\ reads[p].high <=> upper
    BY UnicodeReads
  <1>4. wait \in Nat /\ (wait # 0 <=> upper)
    <2>1. wait \in Nat
      BY <1>2, WaitingHalf
    <2>2. upper => codepoint # 0
      BY <1>2 DEF HighSurrogate
    <2> QED
      BY <2>1, <2>2 DEF Waiting
  <1>5. n \in Nat
    BY <1>2, MoreBytesBound
  <1>6. valid <=> /\ p < Len(src)
                  /\ codepoint # -1
                  /\ high # 0 <=> low
                  /\ upper => p + 6 <= Len(src) /\ HalfStarts(src, p)
    BY <1>1, HalfStartsIs DEF ValidUnicode
  <1>7. size = IF valid THEN More(string[p][wait], 0, n) ELSE Refused
    BY DEF UnicodeSize
  <1>8. StringMet(src, reads, string, p) /\ \A h \in Nat : string[p][h] \in State
    BY <1>1
  <1> HIDE DEF valid, p, wait, n, low, upper
  <1>9. CASE valid
    <2>1. /\ p <= Len(src) /\ SameText(reads[p], reads[u]) /\ reads[p].mode = "string"
          /\ reads[p].high <=> wait # 0
          /\ wait # 0 => HalfStarts(src, p)
      BY <1>3, <1>4, <1>6, <1>9
    <2>2. size = More(string[p][wait], 0, n) /\ string[p][wait] \in State
      BY <1>4, <1>7, <1>8, <1>9
    <2> QED
      BY <1>1, <1>4, <1>5, <1>8, <2>1, <2>2, StringGoesOn
  <1>10. CASE ~valid
    <2>1. ~Through(src, size)
      BY <1>7, <1>10 DEF Through, Refused
    <2>2. ASSUME ~Fails(src, reads) PROVE FALSE
      <3>1. /\ codepoint # -1 /\ p <= Len(src) /\ (high # 0 <=> low)
            /\ reads[p].mode = "string" /\ (reads[p].high <=> upper)
        BY <1>3, <2>2
      <3>2. p # Len(src)
        BY <2>2, <3>1, UnfinishedFails
      <3>3. p < Len(src)
        BY <1>1, <3>1, <3>2
      <3>4. upper /\ ~(p + 6 <= Len(src) /\ HalfStarts(src, p))
        BY <1>6, <1>10, <3>1, <3>3
      <3> QED
        BY <1>1, <2>2, <3>1, <3>4, HalfDue
    <2> QED
      BY <2>1, <2>2
  <1> QED
    BY <1>9, <1>10

(* Where a string goes on from o, given that it does from every place      *)
(* behind.                                                                 *)
LEMMA StringMeets ==
    ASSUME NEW src \in Texts, NEW reads, Run(src, reads), NEW string,
           \A p, h \in Nat : string[p][h] \in State,
           NEW o \in Nat, \A p \in Nat : p > o => StringMet(src, reads, string, p),
           \A high \in Nat : string[o][high] = StringSize(src, string, o, high)
    PROVE  StringMet(src, reads, string, o)
  <1> SUFFICES ASSUME NEW high \in Nat,
                      o <= Len(src), reads[o].mode = "string",
                      reads[o].high <=> high # 0,
                      high # 0 => HalfStarts(src, o),
                      NEW size, size = StringSize(src, string, o, high)
               PROVE  IF Through(src, size) THEN StringEnded(reads, size.at, reads[o])
                      ELSE Fails(src, reads)
    BY DEF StringMet
  <1> DEFINE r == reads[o]
             c == At(src, o)
             escape == At(src, o + 1)
             codepoint == json_hexadecimal_value(src, o + 1 + 1)
             ended == Started(o + 1)
  <1>1. Len(src) \in Nat /\ o + 1 \in Nat /\ o + 2 \in Nat /\ 0 \in Nat /\ 1 \in Nat
        /\ o + 1 > o /\ o + 2 > o
    BY DEF Texts
  <1>2. r \in Readings /\ SameText(r, r)
    BY <1>1 DEF Run, SameText
  <1>3. /\ c = Quote => size = More(ended, 0, 1)
        /\ c \in Breaks => size = Refused
        /\ c = "\\" /\ escape \in Escapes => size = More(string[o + 2][high], 0, 1)
        /\ c = "\\" /\ escape = "u" =>
              size = UnicodeSize(src, string, o + 1, high, codepoint)
        /\ c = "\\" /\ escape \notin Escapes /\ escape # "u" => size = Refused
        /\ c \notin Breaks /\ c # Quote /\ c # "\\" =>
              size = More(string[o + 1][high], 0, 1)
    <2>1. o + 2 = o + 1 + 1
      OBVIOUS
    <2> QED
      BY <2>1, StringSizeIs DEF StringSizeCases, Quote
  <1>4. /\ c = "\\" => Reads(r, c) = In(r, "escape")
        /\ r.high /\ c # "\\" => Reads(r, c) = Stuck(r)
        /\ ~r.high /\ c = Quote => Reads(r, c) = In(r, IF r.key THEN "colon" ELSE "after")
        /\ ~r.high /\ c \in Breaks \ {Outside} => Reads(r, c) = Stuck(r)
        /\ ~r.high /\ c \notin Breaks \cup {Quote, "\\"} => Reads(r, c) = r
    BY <1>2, StringReads
  <1>5. c = Outside <=> o = Len(src)
    BY <1>1, OutsideText
  <1>6. c # Outside => o < Len(src) /\ reads[o + 1] = Reads(r, c)
    BY <1>1, <1>5 DEF Run
  <1>7. /\ Quote # "\\" /\ Quote \notin Breaks /\ "\\" \notin Breaks /\ Outside \in Breaks
        /\ Outside # Quote /\ "u" # Outside /\ "u" \notin Escapes /\ Outside \notin Escapes
    BY DEF Quote, Breaks, Nul, Outside, Escapes
  <1>8. high # 0 => c = "\\" /\ escape = "u"
    BY DEF HalfStarts
  <1>9. CASE c \in Breaks
    <2>1. ~Through(src, size)
      BY <1>3, <1>9 DEF Through, Refused
    <2>2. CASE c = Outside
      BY <1>5, <2>1, <2>2, UnfinishedFails
    <2>3. CASE c # Outside
      <3>1. ~r.high
        BY <1>7, <1>8, <1>9
      <3>2. Reads(r, c) = Stuck(r)
        BY <1>4, <1>9, <2>3, <3>1
      <3> QED
        BY <1>6, <2>1, <2>3, <3>2, RefusedFails
    <2> QED
      BY <2>2, <2>3
  <1>10. CASE c = Quote
    <2>1. ~r.high
      BY <1>7, <1>8, <1>10
    <2>2. /\ reads[o + 1] = In(r, IF r.key THEN "colon" ELSE "after") /\ o < Len(src)
      BY <1>4, <1>6, <1>7, <1>10, <2>1
    <2>3. StringEnded(reads, o + 1, r)
      <3> DEFINE mode == IF r.key THEN "colon" ELSE "after"
      <3>1. mode \in Modes
        BY DEF Modes, StructureModes
      <3> HIDE DEF mode
      <3>2. OnlyMode(In(r, mode), r, mode)
        BY <1>2, <3>1, InReadings
      <3>3. reads[o + 1] = In(r, mode)
        BY <2>2 DEF mode
      <3>4. reads[o + 1].mode = mode /\ reads[o + 1].open = r.open /\ reads[o + 1].high = r.high
        BY <3>2, <3>3 DEF OnlyMode
      <3> QED
        BY <2>1, <3>4 DEF StringEnded, mode
    <2>4. size.ok /\ size.at = o + 1
      <3>1. ended \in State /\ ended.ok /\ ended.at = o + 1
        BY <1>1, StartState
      <3>2. size = More(ended, 0, 1)
        BY <1>3, <1>10
      <3> HIDE DEF ended
      <3>3. LET more == More(ended, 0, 1)
            IN  /\ more.ok <=> ended.ok
                /\ ended.ok => more.at = ended.at
        BY <1>1, <3>1, MoreState
      <3> QED
        BY <3>1, <3>2, <3>3
    <2>5. Through(src, size)
      BY <1>1, <2>2, <2>4 DEF Through
    <2> QED
      BY <2>3, <2>4, <2>5
  <1>11. CASE c \notin Breaks /\ c # Quote /\ c # "\\"
    <2>1. ~r.high
      BY <1>8, <1>11
    <2>2. Reads(r, c) = r
      BY <1>4, <1>11, <2>1
    <2>3. o < Len(src) /\ reads[o + 1] = r
      BY <1>6, <1>7, <1>11, <2>2
    <2>4. o + 1 <= Len(src) /\ high = 0
      BY <1>1, <2>1, <2>3
    <2>5. StringMet(src, reads, string, o + 1) /\ string[o + 1][high] \in State
      BY <1>1
    <2>6. size = More(string[o + 1][high], 0, 1)
      BY <1>3, <1>11
    <2>7. /\ reads[o + 1].mode = "string" /\ SameText(reads[o + 1], r)
          /\ reads[o + 1].high <=> high # 0
          /\ high # 0 => HalfStarts(src, o + 1)
      <3>1. reads[o + 1].mode = r.mode /\ reads[o + 1].high = r.high
        BY <2>3
      <3>2. SameText(reads[o + 1], r)
        BY <1>2, <2>3
      <3>3. r.mode = "string"
        OBVIOUS
      <3>4. ~(high # 0)
        BY <2>4
      <3> HIDE DEF r
      <3> QED
        BY <2>1, <3>1, <3>2, <3>3, <3>4
    <2> DEFINE p == o + 1
    <2>8. /\ p \in Nat /\ p <= Len(src) /\ StringMet(src, reads, string, p)
          /\ string[p][high] \in State /\ size = More(string[p][high], 0, 1)
          /\ reads[p].mode = "string" /\ SameText(reads[p], r)
          /\ reads[p].high <=> high # 0
          /\ high # 0 => HalfStarts(src, p)
      BY <1>1, <2>4, <2>5, <2>6, <2>7
    <2> HIDE DEF p, r
    <2>9. IF Through(src, size) THEN StringEnded(reads, size.at, r) ELSE Fails(src, reads)
      BY <1>1, <2>8, StringGoesOn, ZenonT(60)
    <2> QED
      BY <2>9 DEF r
  <1>12. CASE c = "\\"
    <2> DEFINE q == In(r, "escape")
    <2>1. reads[o + 1] = q /\ o < Len(src) /\ o + 1 <= Len(src)
      <3>1. o < Len(src) /\ reads[o + 1] = Reads(r, c)
        BY <1>5, <1>6, <1>7, <1>12
      <3> QED
        BY <1>1, <1>4, <1>12, <3>1
    <2>2. q \in Readings /\ q.mode = "escape" /\ q.high = r.high /\ SameText(q, r)
      <3>1. "escape" \in Modes
        BY DEF Modes, TextModes
      <3>2. OnlyMode(q, r, "escape")
        BY <1>2, <3>1, InReadings
      <3> QED
        BY <3>2 DEF OnlyMode, SameText
    <2>3. escape = Outside <=> o + 1 = Len(src)
      BY <1>1, <2>1, OutsideText
    <2> HIDE DEF q, escape
    <2>4. CASE escape = "u"
      <3>1. size = UnicodeSize(src, string, o + 1, high, codepoint)
        BY <1>3, <1>12, <2>4
      <3>2. o + 1 < Len(src)
        BY <1>1, <1>7, <2>1, <2>3, <2>4
      <3>3. /\ reads[o + 1].mode = "escape" /\ At(src, o + 1) = "u"
            /\ reads[o + 1].high <=> high # 0
        BY <2>1, <2>2, <2>4 DEF escape
      <3>4. \A p \in Nat : p > o + 1 => StringMet(src, reads, string, p)
        BY <1>1
      <3>5. codepoint = json_hexadecimal_value(src, (o + 1) + 1)
        OBVIOUS
      <3> DEFINE u == o + 1
      <3> HIDE DEF codepoint
      <3>6. IF Through(src, size) THEN StringEnded(reads, size.at, reads[u])
            ELSE Fails(src, reads)
        <4>1. /\ u \in Nat /\ u < Len(src) /\ reads[u].mode = "escape" /\ At(src, u) = "u"
              /\ reads[u].high <=> high # 0
              /\ \A p \in Nat : p > u => StringMet(src, reads, string, p)
              /\ codepoint = json_hexadecimal_value(src, u + 1)
              /\ size = UnicodeSize(src, string, u, high, codepoint)
          BY <1>1, <3>1, <3>2, <3>3, <3>4, <3>5
        <4> HIDE DEF u
        <4> QED
          BY <4>1, UnicodeMeets
      <3>7. StringEnded(reads, size.at, reads[o + 1]) => StringEnded(reads, size.at, r)
        BY <2>1, <2>2 DEF StringEnded, SameText
      <3> QED
        BY <3>6, <3>7
    <2>5. CASE escape # "u" /\ escape \notin Escapes
      <3>1. ~Through(src, size)
        BY <1>3, <1>12, <2>5 DEF Through, Refused
      <3>2. CASE escape = Outside
        BY <2>1, <2>2, <2>3, <3>1, <3>2, UnfinishedFails
      <3>3. CASE escape # Outside
        <4>1. o + 1 < Len(src)
          BY <1>1, <2>1, <2>3, <3>3
        <4>2. Reads(q, escape) = Stuck(q)
          BY <2>2, <2>5, EscapeReads
        <4> QED
          BY <1>1, <2>1, <3>1, <4>1, <4>2, RefusedFails DEF escape
      <3> QED
        BY <3>2, <3>3
    <2>6. CASE escape \in Escapes
      <3>1. escape # "u" /\ escape # Outside
        BY <1>7, <2>6
      <3>2. ~r.high /\ high = 0
        BY <1>8, <3>1
      <3>3. o + 1 < Len(src)
        BY <1>1, <2>1, <2>3, <3>1
      <3> DEFINE t == In(q, "string")
      <3>4. reads[o + 2] = t
        <4>1. Reads(q, escape) = t
          BY <2>2, <2>6, <3>2, EscapeReads
        <4>2. o + 2 = (o + 1) + 1 /\ reads[(o + 1) + 1] = Reads(reads[o + 1], At(src, o + 1))
          BY <1>1, <3>3 DEF Run
        <4> QED
          BY <2>1, <4>1, <4>2 DEF escape
      <3>5. SameText(t, r) /\ t.mode = "string" /\ t.high = r.high
        <4>1. "string" \in Modes
          BY DEF Modes, TextModes
        <4>2. OnlyMode(t, q, "string")
          BY <2>2, <4>1, InReadings
        <4> QED
          BY <2>2, <4>2 DEF OnlyMode, SameText
      <3> HIDE DEF t
      <3>6. o + 2 <= Len(src)
        BY <1>1, <3>3
      <3>7. StringMet(src, reads, string, o + 2) /\ string[o + 2][high] \in State
        BY <1>1
      <3>8. size = More(string[o + 2][high], 0, 1)
        BY <1>3, <1>12, <2>6
      <3> DEFINE p == o + 2
      <3>9. /\ p \in Nat /\ p <= Len(src) /\ StringMet(src, reads, string, p)
            /\ string[p][high] \in State /\ size = More(string[p][high], 0, 1)
            /\ reads[p].mode = "string" /\ SameText(reads[p], r)
            /\ reads[p].high <=> high # 0
            /\ high # 0 => HalfStarts(src, p)
        BY <1>1, <3>2, <3>4, <3>5, <3>6, <3>7, <3>8
      <3> HIDE DEF p, r
      <3>10. IF Through(src, size) THEN StringEnded(reads, size.at, r) ELSE Fails(src, reads)
        BY <1>1, <3>9, StringGoesOn, ZenonT(60)
      <3> QED
        BY <3>10 DEF r
    <2> QED
      BY <2>4, <2>5, <2>6
  <1> QED
    BY <1>9, <1>10, <1>11, <1>12
-----------------------------------------------------------------------------
(* Values, objects and arrays.                                             *)
Curly == "{"
CurlyEnd == "}"
Square == "["
SquareEnd == "]"
Comma == ","

(* A part that ends inside of these brackets is what the grammar reads.    *)
Meets(src, reads, size, open) ==
    IF Through(src, size) THEN ValueEnded(src, reads, size.at, open) ELSE Fails(src, reads)

ValueMet(src, reads, calls, o) ==
    /\ o <= Len(src) /\ ~reads[o].high
    /\ \/ reads[o].mode = "value"
       \/ reads[o].mode = "array" /\ At(src, json_skip_whitespace(src, o)) # SquareEnd
    => Meets(src, reads, calls.value[o], reads[o].open)

(* The rest of an object, of an array: from its start, in that mode, and   *)
(* behind a member or an element.                                          *)
RestMet(src, reads, rest, o, bracket, mode) ==
    o <= Len(src) =>
       \A open \in Seq(Brackets) :
          /\ (/\ reads[o].mode = mode /\ reads[o].open = Append(open, bracket)
              /\ ~reads[o].high) =>
                Meets(src, reads, rest[o][FALSE], open)
          /\ ValueEnded(src, reads, o, Append(open, bracket)) =>
                Meets(src, reads, rest[o][TRUE], open)

MembersMet(src, reads, calls, o) == RestMet(src, reads, calls.members, o, Curly, "object")
ElementsMet(src, reads, calls, o) == RestMet(src, reads, calls.elements, o, Square, "array")

(* All of it, from o on.                                                   *)
PartsMet(src, reads, calls, o) ==
    /\ StringMet(src, reads, calls.string, o)
    /\ MembersMet(src, reads, calls, o)
    /\ ElementsMet(src, reads, calls, o)

(* A part behind another.                                                  *)
LEMMA ThenMeets ==
    ASSUME NEW src, NEW reads, NEW st \in State, st.ok, NEW part \in State, NEW open,
           Meets(src, reads, part, open)
    PROVE  Meets(src, reads, Then(st, part), open)
  <1> DEFINE next == Then(st, part)
  <1>1. /\ next.ok <=> st.ok /\ part.ok
        /\ next.ok => next.at = part.at
    BY ThenState
  <1> HIDE DEF next
  <1>2. Through(src, next) <=> Through(src, part)
    BY <1>1 DEF Through
  <1>3. Through(src, next) => next.at = part.at
    BY <1>1 DEF Through
  <1>4. Meets(src, reads, next, open)
    BY <1>2, <1>3 DEF Meets
  <1> QED
    BY <1>4 DEF next

(* A pass that went wrong, or past the end, does not come back.            *)
LEMMA BeyondStays ==
    ASSUME NEW src \in Texts, NEW st \in State, ~Through(src, st), NEW part \in From(st.at)
    PROVE  ~Through(src, Then(st, part))
  <1> DEFINE next == Then(st, part)
  <1>1. part \in State /\ (part.ok => part.at >= st.at)
    BY DEF From
  <1>2. /\ next.ok <=> st.ok /\ part.ok
        /\ next.ok => next.at = part.at
    BY <1>1, ThenState
  <1>3. Len(src) \in Nat /\ st.at \in Nat /\ part.at \in Nat
    BY <1>1 DEF Texts, State
  <1> HIDE DEF next
  <1>4. ~Through(src, next)
    BY <1>1, <1>2, <1>3 DEF Through
  <1> QED
    BY <1>4 DEF next

(* A string, as a value or as a key.                                       *)
LEMMA QuotedMeets ==
    ASSUME NEW src \in Texts, NEW reads, NEW calls, Advancing(calls),
           NEW st \in State, st.ok, At(src, st.at) = Quote,
           reads[st.at + 1].mode = "string", ~reads[st.at + 1].high, st.at < Len(src),
           StringMet(src, reads, calls.string, st.at + 1),
           NEW size, size = json_get_string_size(src, calls, st)
    PROVE  IF Through(src, size) THEN StringEnded(reads, size.at, reads[st.at + 1])
           ELSE Fails(src, reads)
  <1> DEFINE o == st.at + 1
             part == calls.string[o][0]
             opened == More(st, Struct, 0)
  <1>1. Len(src) \in Nat /\ o \in Nat /\ o <= Len(src) /\ 0 \in Nat /\ Struct \in Nat
    BY DEF Texts, State, Struct
  <1>2. size = Then(opened, part)
    BY DEF json_get_string_size, Quote
  <1>3. part \in State
    BY <1>1, CallsReturn
  <1>4. IF Through(src, part) THEN StringEnded(reads, part.at, reads[o])
        ELSE Fails(src, reads)
    BY <1>1 DEF StringMet
  <1>5. opened \in State /\ opened.ok
    BY <1>1, MoreState
  <1> HIDE DEF o, part, opened
  <1>6. /\ size.ok <=> part.ok
        /\ size.ok => size.at = part.at
    <2>1. LET next == Then(opened, part)
          IN  /\ next.ok <=> opened.ok /\ part.ok
              /\ next.ok => next.at = part.at
      BY <1>3, <1>5, ThenState
    <2> QED
      BY <1>2, <1>5, <2>1
  <1>7. Through(src, size) <=> Through(src, part)
    BY <1>6 DEF Through
  <1>8. Through(src, size) => size.at = part.at
    BY <1>6 DEF Through
  <1>9. IF Through(src, size) THEN StringEnded(reads, size.at, reads[o])
        ELSE Fails(src, reads)
    BY <1>4, <1>7, <1>8
  <1> QED
    BY <1>9 DEF o

(* What does not start with a quote is no string.                          *)
LEMMA NotQuoted ==
    ASSUME NEW src, NEW calls, NEW st, At(src, st.at) # Quote
    PROVE  json_get_string_size(src, calls, st) = Refused
  BY DEF json_get_string_size, Quote

(* What opens an object or an array.                                       *)
LEMMA BracketMeets ==
    ASSUME NEW src \in Texts, NEW reads, NEW st \in State, st.ok, NEW char,
           At(src, st.at) = char, NEW rest, rest \in State, NEW open,
           Meets(src, reads, rest, open),
           NEW opened, opened = More(Expect(src, st, char), Struct, 0)
    PROVE  opened.at = st.at + 1 /\ Meets(src, reads, Then(opened, rest), open)
  <1> DEFINE over == Expect(src, st, char)
  <1>1. over \in State /\ over.ok /\ over.at = st.at + 1
    BY ExpectState
  <1> HIDE DEF over
  <1>2. Struct \in Nat /\ 0 \in Nat
    BY DEF Struct
  <1>3. opened \in State /\ opened.ok /\ opened.at = over.at
    <2>1. opened = More(over, Struct, 0)
      BY DEF over
    <2>2. LET more == More(over, Struct, 0)
          IN  /\ more \in State
              /\ more.ok <=> over.ok
              /\ over.ok => more.at = over.at
      BY <1>1, <1>2, MoreState
    <2> QED
      BY <1>1, <2>1, <2>2
  <1> QED
    BY <1>1, <1>3, ThenMeets

(* What the grammar makes of the first character of a string, an object or *)
(* an array.                                                               *)
LEMMA MarkReads ==
    ASSUME NEW r \in Readings, r.mode \in {"value", "array"}, NEW c
    PROVE  /\ c = Quote => Reads(r, c) = Quoted(r, FALSE)
           /\ c = Curly => Reads(r, c) = Opened(r, Curly, "object")
           /\ c = Square => Reads(r, c) = Opened(r, Square, "array")
  <1>1. /\ Quote \notin Space /\ Curly \notin Space /\ Square \notin Space
        /\ Quote # "]" /\ Curly # "]" /\ Square # "]"
    BY DEF Quote, Curly, Square, Space
  <1>2. c \in {Quote, Curly, Square} => Reads(r, c) = ValueStarts(r, c)
    BY <1>1, ValueReads
  <1>3. /\ c = Quote => ValueStarts(r, c) = Quoted(r, FALSE)
        /\ c = Curly => ValueStarts(r, c) = Opened(r, Curly, "object")
        /\ c = Square => ValueStarts(r, c) = Opened(r, Square, "array")
    BY ValueStartsIs DEF Quote, Curly, Square
  <1> QED
    BY <1>2, <1>3

(* A quote where a value is expected begins a string.                      *)
LEMMA QuoteOpens ==
    ASSUME NEW src \in Texts, NEW reads, Run(src, reads), NEW at \in Nat, at < Len(src),
           reads[at].mode \in {"value", "array"}, ~reads[at].high, At(src, at) = Quote
    PROVE  /\ reads[at + 1].mode = "string" /\ ~reads[at + 1].key
           /\ reads[at + 1].open = reads[at].open /\ ~reads[at + 1].high
  <1> DEFINE r == reads[at]
             q == Quoted(r, FALSE)
  <1>1. r \in Readings /\ reads[at + 1] = Reads(r, Quote)
    BY DEF Run, Texts
  <1>2. r.mode \in {"value", "array"} /\ ~r.high
    OBVIOUS
  <1> HIDE DEF r
  <1>3. q.mode = "string" /\ q.key = FALSE /\ q.open = r.open /\ q.high = r.high
    BY <1>1, QuotedReadings
  <1> HIDE DEF q
  <1>4. reads[at + 1] = q
    BY <1>1, <1>2, MarkReads DEF q
  <1>5. ~q.key
    BY <1>3
  <1> QED
    BY <1>2, <1>3, <1>4, <1>5 DEF r

(* A bracket opens an object or an array.                                  *)
LEMMA BracketOpens ==
    ASSUME NEW src \in Texts, NEW reads, Run(src, reads), NEW at \in Nat, at < Len(src),
           NEW bracket \in Brackets, NEW mode \in {"object", "array"}, At(src, at) = bracket,
           Reads(reads[at], bracket) = Opened(reads[at], bracket, mode), ~reads[at].high
    PROVE  /\ reads[at + 1].mode = mode /\ ~reads[at + 1].high
           /\ reads[at + 1].open = Append(reads[at].open, bracket)
  <1> DEFINE r == reads[at]
             q == Opened(r, bracket, mode)
  <1>1. r \in Readings /\ reads[at + 1] = q /\ ~r.high
    BY DEF Run, Texts
  <1> HIDE DEF r
  <1>2. mode \in Modes
    BY DEF Modes, StructureModes
  <1>3. q.mode = mode /\ q.high = r.high /\ q.open = Append(r.open, bracket)
    BY <1>1, <1>2, BracketReadings
  <1> HIDE DEF q
  <1> QED
    BY <1>1, <1>3 DEF r

(* A value that begins here.                                               *)
LEMMA ValueHereMeets ==
    ASSUME NEW src \in Texts, NEW reads, Run(src, reads), NEW calls, Advancing(calls),
           NEW st \in State, st.ok, st.at < Len(src), At(src, st.at) \notin Space,
           reads[st.at].mode \in {"value", "array"}, ~reads[st.at].high,
           reads[st.at].mode = "array" => At(src, st.at) # SquareEnd,
           PartsMet(src, reads, calls, st.at + 1)
    PROVE  Meets(src, reads, ValueSize(src, calls, st), reads[st.at].open)
  <1> DEFINE r == reads[st.at]
             c == At(src, st.at)
             o == st.at + 1
             size == ValueSize(src, calls, st)
             Goal == Meets(src, reads, size, r.open)
  <1> SUFFICES Goal
    OBVIOUS
  <1>1. /\ Len(src) \in Nat /\ st.at \in Nat /\ o \in Nat /\ o <= Len(src)
        /\ FALSE \in BOOLEAN /\ TRUE \in BOOLEAN
    BY DEF Texts, State
  <1>2. r \in Readings /\ r.mode \in {"value", "array"} /\ ~r.high
    BY <1>1 DEF Run
  <1>3. r.open \in Seq(Brackets)
    BY <1>2 DEF Readings
  <1>4. /\ c = Quote => size = json_get_string_size(src, calls, st)
        /\ c = Curly => size = json_get_object_size(src, calls, st)
        /\ c = Square => size = json_get_array_size(src, calls, st)
        /\ c \in Digit \cup {"-"} => size = json_get_number_size(src, st)
        /\ c \notin ValueMarks => size = PastWord(st, Word(src, st.at))
    BY ValueSizeIs DEF ValueSizeCases, Quote, Curly, Square, ValueMarks
  <1>5. c \in ValueMarks <=> c \in {Quote, Curly, Square} \/ c \in Digit \cup {"-"}
    BY DEF ValueMarks, Quote, Curly, Square
  <1>6. Curly \in Brackets /\ Square \in Brackets
    BY DEF Brackets, Curly, Square
  <1>7. \A comma \in BOOLEAN : /\ calls.members[o][comma] \in State
                               /\ calls.elements[o][comma] \in State
    BY <1>1, CallsReturn
  <1>8. StringMet(src, reads, calls.string, o) /\ MembersMet(src, reads, calls, o)
        /\ ElementsMet(src, reads, calls, o)
    BY DEF PartsMet
  <1>15. /\ c = Curly => Reads(r, Curly) = Opened(r, Curly, "object")
         /\ c = Square => Reads(r, Square) = Opened(r, Square, "array")
    <2> HIDE DEF r, c
    <2> QED
      BY <1>2, MarkReads
  <1>16. c = Quote => /\ reads[o].mode = "string" /\ ~reads[o].key
                      /\ reads[o].open = r.open /\ ~reads[o].high
    BY <1>1, <1>2, QuoteOpens
  <1>17. c = Curly => /\ reads[o].mode = "object" /\ ~reads[o].high
                    /\ reads[o].open = Append(r.open, Curly)
    <2> SUFFICES ASSUME c = Curly
                 PROVE  /\ reads[o].mode = "object" /\ ~reads[o].high
                        /\ reads[o].open = Append(r.open, Curly)
      OBVIOUS
    <2> DEFINE at == st.at
    <2>1. /\ at \in Nat /\ at < Len(src) /\ At(src, at) = Curly /\ ~reads[at].high
          /\ Reads(reads[at], Curly) = Opened(reads[at], Curly, "object")
          /\ "object" \in {"object", "array"}
      BY <1>1, <1>15
    <2> HIDE DEF at
    <2>2. /\ reads[at + 1].mode = "object" /\ ~reads[at + 1].high
          /\ reads[at + 1].open = Append(reads[at].open, Curly)
      BY <1>6, <2>1, BracketOpens
    <2> QED
      BY <2>2 DEF at
  <1>21. c = Square => /\ reads[o].mode = "array" /\ ~reads[o].high
                    /\ reads[o].open = Append(r.open, Square)
    <2> SUFFICES ASSUME c = Square
                 PROVE  /\ reads[o].mode = "array" /\ ~reads[o].high
                        /\ reads[o].open = Append(r.open, Square)
      OBVIOUS
    <2> DEFINE at == st.at
    <2>1. /\ at \in Nat /\ at < Len(src) /\ At(src, at) = Square /\ ~reads[at].high
          /\ Reads(reads[at], Square) = Opened(reads[at], Square, "array")
          /\ "array" \in {"object", "array"}
      BY <1>1, <1>15
    <2> HIDE DEF at
    <2>2. /\ reads[at + 1].mode = "array" /\ ~reads[at + 1].high
          /\ reads[at + 1].open = Append(reads[at].open, Square)
      BY <1>6, <2>1, BracketOpens
    <2> QED
      BY <2>2 DEF at
  <1>18. (c \in Digit \cup {"-"} =>
            LET next == json_get_number_size(src, st)
            IN  IF Through(src, next) THEN ValueEnded(src, reads, next.at, r.open)
                ELSE Fails(src, reads))
    BY NumberMeets
  <1>19. (c \notin ValueMarks =>
            LET next == PastWord(st, Word(src, st.at))
            IN  IF Through(src, next) THEN ValueEnded(src, reads, next.at, r.open)
                ELSE Fails(src, reads))
    BY WordMeets DEF SquareEnd
  <1>20. c = At(src, st.at) /\ r = reads[st.at] /\ o = st.at + 1
    OBVIOUS
  <1> HIDE DEF size, r, c, o
  <1>9. CASE c = Quote
    <2>1. /\ reads[o].mode = "string" /\ ~reads[o].key
          /\ reads[o].open = r.open /\ ~reads[o].high
      BY <1>9, <1>16
    <2>2. size = json_get_string_size(src, calls, st)
      BY <1>4, <1>9
    <2>3. IF Through(src, size) THEN StringEnded(reads, size.at, reads[o])
          ELSE Fails(src, reads)
      <3>1. /\ At(src, st.at) = Quote /\ reads[st.at + 1].mode = "string"
            /\ ~reads[st.at + 1].high /\ StringMet(src, reads, calls.string, st.at + 1)
        BY <1>8, <1>9, <1>20, <2>1
      <3>2. reads[o] = reads[st.at + 1]
        BY <1>20
      <3> QED
        BY <2>2, <3>1, <3>2, QuotedMeets
    <2>4. StringEnded(reads, size.at, reads[o]) => ValueEnded(src, reads, size.at, r.open)
      BY <2>1 DEF StringEnded, ValueEnded
    <2> QED
      BY <2>3, <2>4 DEF Meets
  <1>10. CASE c = Curly
    <2>2. /\ reads[o].mode = "object" /\ ~reads[o].high
          /\ reads[o].open = Append(r.open, Curly)
      BY <1>10, <1>17
    <2> DEFINE rest == calls.members[o][FALSE]
               opened == More(Expect(src, st, Curly), Struct, 0)
    <2>3. Meets(src, reads, rest, r.open)
      BY <1>1, <1>3, <1>8, <2>2 DEF MembersMet, RestMet
    <2>4. rest \in State
      BY <1>1, <1>7
    <2>5. size = Then(opened, calls.members[opened.at][FALSE])
      BY <1>4, <1>10 DEF json_get_object_size, Curly
    <2> HIDE DEF rest, opened
    <2>6. opened.at = st.at + 1 /\ Meets(src, reads, Then(opened, rest), r.open)
      BY <1>10, <1>20, <2>3, <2>4, BracketMeets DEF opened
    <2> QED
      BY <1>20, <2>5, <2>6 DEF rest
  <1>11. CASE c = Square
    <2>2. /\ reads[o].mode = "array" /\ ~reads[o].high
          /\ reads[o].open = Append(r.open, Square)
      BY <1>11, <1>21
    <2> DEFINE rest == calls.elements[o][FALSE]
               opened == More(Expect(src, st, Square), Struct, 0)
    <2>3. Meets(src, reads, rest, r.open)
      BY <1>1, <1>3, <1>8, <2>2 DEF ElementsMet, RestMet
    <2>4. rest \in State
      BY <1>1, <1>7
    <2>5. size = Then(opened, calls.elements[opened.at][FALSE])
      BY <1>4, <1>11 DEF json_get_array_size, Square
    <2> HIDE DEF rest, opened
    <2>6. opened.at = st.at + 1 /\ Meets(src, reads, Then(opened, rest), r.open)
      BY <1>11, <1>20, <2>3, <2>4, BracketMeets DEF opened
    <2> QED
      BY <1>20, <2>5, <2>6 DEF rest
  <1>12. CASE c \in Digit \cup {"-"}
    <2>1. size = json_get_number_size(src, st)
      BY <1>4, <1>12
    <2>2. LET next == json_get_number_size(src, st)
          IN  IF Through(src, next) THEN ValueEnded(src, reads, next.at, r.open)
              ELSE Fails(src, reads)
      BY <1>12, <1>18
    <2> QED
      BY Zenon, <2>1, <2>2 DEF Meets
  <1>13. CASE c \notin ValueMarks
    <2>1. size = PastWord(st, Word(src, st.at))
      BY <1>4, <1>13
    <2>2. LET next == PastWord(st, Word(src, st.at))
          IN  IF Through(src, next) THEN ValueEnded(src, reads, next.at, r.open)
              ELSE Fails(src, reads)
      BY <1>13, <1>19
    <2> QED
      BY Zenon, <2>1, <2>2 DEF Meets
  <1> QED
    BY <1>5, <1>9, <1>10, <1>11, <1>12, <1>13

(* Whitespace, then a value.                                               *)
LEMMA ValueMeets ==
    ASSUME NEW src \in Texts, NEW reads, Run(src, reads), NEW calls, Advancing(calls),
           NEW o \in Nat, \A p \in Nat : p > o => PartsMet(src, reads, calls, p),
           calls.value[o] = json_get_value_size(src, calls, Started(o))
    PROVE  ValueMet(src, reads, calls, o)
  <1> DEFINE at == json_skip_whitespace(src, o)
             skipped == json_skip_all_skippables(src, Started(o))
             here == More(skipped, Struct, 0)
             size == calls.value[o]
  <1> SUFFICES ASSUME o <= Len(src), ~reads[o].high,
                      \/ reads[o].mode = "value"
                      \/ reads[o].mode = "array" /\ At(src, at) # SquareEnd
               PROVE  Meets(src, reads, size, reads[o].open)
    BY DEF ValueMet
  <1>1. Len(src) \in Nat /\ Struct \in Nat /\ 0 \in Nat
    BY DEF Texts, Struct
  <1>2. /\ at \in Nat /\ at >= o /\ at <= Len(src) /\ reads[at] = reads[o]
        /\ At(src, at) \notin Space
    <2>1. reads[o].mode \in StructureModes
      BY DEF StructureModes
    <2> QED
      BY <2>1, BlanksRead, Blanks, SMTT(30)
  <1>3. /\ here \in State
        /\ here.ok <=> at # Len(src)
        /\ here.ok => here.at = at
    <2>1. Started(o) \in State /\ Started(o).ok /\ Started(o).at = o
      BY StartState
    <2>2. /\ skipped \in State
          /\ skipped.ok <=> at # Len(src)
          /\ skipped.ok => skipped.at = at
      BY <2>1, SkipState
    <2> HIDE DEF skipped
    <2>3. LET more == More(skipped, Struct, 0)
          IN  /\ more \in State
              /\ more.ok <=> skipped.ok
              /\ skipped.ok => more.at = skipped.at
      BY <1>1, <2>2, MoreState
    <2> QED
      BY <2>2, <2>3
  <1>4. size = ValueSize(src, calls, here)
    BY DEF json_get_value_size
  <1>5. ValueSizeCases(src, calls, here)
    BY ValueSizeIs
  <1> HIDE DEF at, here, size
  <1>6. CASE at = Len(src)
    <2>1. ~here.ok
      BY <1>3, <1>6
    <2>2. size = Refused
      <3>1. ~here.ok => ValueSize(src, calls, here) = Refused
        BY Zenon, <1>5 DEF ValueSizeCases
      <3> QED
        BY <1>4, <2>1, <3>1
    <2>3. ~Through(src, size)
      BY <2>2 DEF Through, Refused
    <2>4. reads[Len(src)].mode = "value" \/ reads[Len(src)].mode = "array"
      BY <1>2, <1>6
    <2> QED
      BY <2>3, <2>4, UnfinishedFails DEF Meets
  <1>7. CASE at # Len(src)
    <2>1. here.ok /\ here.at = at /\ at < Len(src)
      BY <1>1, <1>2, <1>3, <1>7
    <2>2. PartsMet(src, reads, calls, at + 1)
      BY <1>2
    <2>3. /\ reads[here.at].mode \in {"value", "array"} /\ ~reads[here.at].high
          /\ reads[here.at].mode = "array" => At(src, here.at) # SquareEnd
          /\ At(src, here.at) \notin Space
          /\ reads[here.at].open = reads[o].open
      BY <1>2, <2>1
    <2>4. Meets(src, reads, ValueSize(src, calls, here), reads[here.at].open)
      BY <1>3, <2>1, <2>2, <2>3, ValueHereMeets
    <2> QED
      BY <1>4, <2>3, <2>4
  <1> QED
    BY <1>6, <1>7

(* Where a key is due: a quote begins it, all else is refused.             *)
LEMMA KeyReads ==
    ASSUME NEW r \in Readings, r.mode \in {"object", "member"}, NEW c, c \notin Space,
           r.mode = "object" => c # CurlyEnd
    PROVE  /\ c = Quote => Reads(r, c) = Quoted(r, TRUE)
           /\ c # Quote => Reads(r, c) = Stuck(r)
  <1>1. Reads(r, c) = Structure(r, c)
    BY ReadsIs DEF StructureModes
  <1>2. r.mode = "object" =>
           Structure(r, c) = IF c = CurlyEnd THEN Closed(r)
                             ELSE IF c = Quote THEN Quoted(r, TRUE) ELSE Spaced(r, c, "object")
    BY DEF Structure, CurlyEnd, Quote
  <1>3. r.mode = "member" =>
           Structure(r, c) = IF c = Quote THEN Quoted(r, TRUE) ELSE Spaced(r, c, "member")
    BY DEF Structure, Quote
  <1>4. Spaced(r, c, "object") = Stuck(r) /\ Spaced(r, c, "member") = Stuck(r)
    BY DEF Spaced
  <1> QED
    BY <1>1, <1>2, <1>3, <1>4

(* A quote where a member is expected begins a name.                       *)
LEMMA KeyOpens ==
    ASSUME NEW src \in Texts, NEW reads, Run(src, reads), NEW at \in Nat, at < Len(src),
           reads[at].mode \in {"object", "member"}, ~reads[at].high, At(src, at) = Quote
    PROVE  /\ reads[at + 1].mode = "string" /\ reads[at + 1].key
           /\ reads[at + 1].open = reads[at].open /\ ~reads[at + 1].high
  <1> DEFINE r == reads[at]
             q == Quoted(r, TRUE)
  <1>1. r \in Readings /\ reads[at + 1] = Reads(r, Quote)
    BY DEF Run, Texts
  <1>2. r.mode \in {"object", "member"} /\ ~r.high
    OBVIOUS
  <1> HIDE DEF r
  <1>3. q.mode = "string" /\ q.key = TRUE /\ q.open = r.open /\ q.high = r.high
    BY <1>1, QuotedReadings
  <1> HIDE DEF q
  <1>4. Quote \notin Space /\ Quote # CurlyEnd
    BY DEF Quote, Space, CurlyEnd
  <1>5. reads[at + 1] = q
    BY <1>1, <1>2, <1>4, KeyReads DEF q
  <1>6. q.key
    BY <1>3
  <1> QED
    BY <1>2, <1>3, <1>5, <1>6 DEF r

(* The colon behind a key.                                                 *)
LEMMA ColonReads ==
    ASSUME NEW r \in Readings, r.mode = "colon", NEW c, c \notin Space
    PROVE  /\ c = ":" => Reads(r, c) = In(r, "value")
           /\ c # ":" => Reads(r, c) = Stuck(r)
  <1>1. Reads(r, c) = Structure(r, c)
    BY ReadsIs DEF StructureModes
  <1>2. Structure(r, c) = IF c = ":" THEN In(r, "value") ELSE Spaced(r, c, "colon")
    BY DEF Structure
  <1>3. Spaced(r, c, "colon") = Stuck(r)
    BY DEF Spaced
  <1> QED
    BY <1>1, <1>2, <1>3

(* One expected character behind whitespace.                               *)
LEMMA ExpectMeets ==
    ASSUME NEW src \in Texts, NEW reads, Run(src, reads), NEW o \in Nat, o <= Len(src),
           reads[o].mode = "colon", ~reads[o].high, NEW st \in State, st.ok, st.at = o
    PROVE  LET colon == Expect(src, json_skip_all_skippables(src, st), ":")
               value == json_skip_all_skippables(src, colon)
           IN  /\ value \in State
               /\ ~value.ok => Fails(src, reads)
               /\ value.ok => /\ value.at > o /\ value.at < Len(src)
                              /\ reads[value.at].mode = "value"
                              /\ reads[value.at].open = reads[o].open
                              /\ ~reads[value.at].high
  <1> DEFINE at == json_skip_whitespace(src, o)
             skipped == json_skip_all_skippables(src, st)
             colon == Expect(src, skipped, ":")
             next == json_skip_whitespace(src, at + 1)
             value == json_skip_all_skippables(src, colon)
             r == reads[o]
  <1> DEFINE Goal == /\ value \in State
                     /\ ~value.ok => Fails(src, reads)
                     /\ value.ok => /\ value.at > o /\ value.at < Len(src)
                                    /\ reads[value.at].mode = "value"
                                    /\ reads[value.at].open = r.open
                                    /\ ~reads[value.at].high
  <1> SUFFICES Goal
    OBVIOUS
  <1>1. Len(src) \in Nat
    BY DEF Texts
  <1>2. /\ at \in Nat /\ at >= o /\ at <= Len(src) /\ reads[at] = r
        /\ At(src, at) \notin Space
    <2>1. reads[o].mode \in StructureModes
      BY DEF StructureModes
    <2> QED
      BY <2>1, BlanksRead, Blanks
  <1>3. r \in Readings /\ r.mode = "colon" /\ ~r.high
    BY <1>1 DEF Run
  <1>4. /\ skipped \in State
        /\ skipped.ok <=> at # Len(src)
        /\ skipped.ok => skipped.at = at
    BY SkipState
  <1> HIDE DEF skipped, r
  <1>5. /\ colon \in State
        /\ colon.ok <=> skipped.ok /\ At(src, skipped.at) = ":"
        /\ colon.ok => colon.at = skipped.at + 1
    BY <1>4, ExpectState
  <1> HIDE DEF colon
  <1>6. /\ value \in State
        /\ value.ok <=> colon.ok /\ json_skip_whitespace(src, colon.at) # Len(src)
        /\ value.ok => value.at = json_skip_whitespace(src, colon.at)
    BY <1>5, SkipState
  <1> HIDE DEF value, at, next
  <1>7. CASE at = Len(src)
    <2>1. ~value.ok
      BY <1>4, <1>5, <1>6, <1>7
    <2>2. Fails(src, reads)
      BY <1>2, <1>3, <1>7, UnfinishedFails
    <2> QED
      BY <1>6, <2>1, <2>2
  <1>8. CASE at # Len(src) /\ At(src, at) # ":"
    <2>1. at < Len(src)
      BY <1>1, <1>2, <1>8
    <2>2. ~value.ok
      BY <1>4, <1>5, <1>6, <1>8
    <2>3. Reads(r, At(src, at)) = Stuck(r)
      BY <1>2, <1>3, <1>8, ColonReads
    <2>4. Fails(src, reads)
      BY <1>2, <2>1, <2>3, RefusedFails
    <2> QED
      BY <1>6, <2>2, <2>4
  <1>9. CASE at # Len(src) /\ At(src, at) = ":"
    <2> DEFINE q == In(r, "value")
    <2>1. at < Len(src) /\ at + 1 \in Nat /\ at + 1 <= Len(src)
      BY <1>1, <1>2, <1>9
    <2>2. reads[at + 1] = q
      <3>1. Reads(r, At(src, at)) = q
        BY <1>2, <1>3, <1>9, ColonReads
      <3> QED
        BY <1>2, <2>1, <3>1 DEF Run
    <2>3. q.mode = "value" /\ q.open = r.open /\ q.high = r.high
      <3>1. "value" \in Modes
        BY DEF Modes, StructureModes
      <3>2. OnlyMode(q, r, "value")
        BY <1>3, <3>1, InReadings
      <3> QED
        BY <3>2 DEF OnlyMode
    <2> HIDE DEF q
    <2>4. /\ next \in Nat /\ next >= at + 1 /\ next <= Len(src) /\ reads[next] = q
      <3>1. reads[at + 1].mode \in StructureModes
        BY <2>2, <2>3 DEF StructureModes
      <3>2. LET end == json_skip_whitespace(src, at + 1)
            IN  end \in Nat /\ end >= at + 1 /\ end <= Len(src) /\ reads[end] = reads[at + 1]
        BY <2>1, <3>1, BlanksRead
      <3> QED
        BY <2>2, <3>2 DEF next
    <2>5. /\ value.ok <=> next # Len(src)
          /\ value.ok => value.at = next
      <3>1. colon.ok /\ colon.at = at + 1
        BY <1>4, <1>5, <1>9
      <3> QED
        BY <1>6, <3>1 DEF next
    <2>6. ~value.ok => Fails(src, reads)
      BY <2>3, <2>4, <2>5, UnfinishedFails
    <2>7. value.ok => value.at > o /\ value.at < Len(src) /\ reads[value.at] = q
      BY <1>1, <1>2, <2>4, <2>5
    <2> QED
      BY <1>3, <1>6, <2>3, <2>6, <2>7
  <1> QED
    BY <1>7, <1>8, <1>9

(* Behind the colon of a member the first pass is further on.              *)
LEMMA ExpectAdvances ==
    ASSUME NEW src \in Texts, NEW st \in State
    PROVE  LET colon == Expect(src, json_skip_all_skippables(src, st), ":")
               value == json_skip_all_skippables(src, colon)
           IN  /\ value \in State
               /\ value.ok => st.ok /\ value.at > st.at
  <1> DEFINE skipped == json_skip_all_skippables(src, st)
             colon == Expect(src, skipped, ":")
             value == json_skip_all_skippables(src, colon)
             Goal == value \in State /\ (value.ok => st.ok /\ value.at > st.at)
  <1> SUFFICES Goal
    OBVIOUS
  <1>1. skipped \in State /\ (skipped.ok => st.ok /\ skipped.at >= st.at)
    BY SkipState
  <1> HIDE DEF skipped
  <1>2. colon \in State /\ (colon.ok => skipped.ok /\ colon.at = skipped.at + 1)
    BY <1>1, ExpectState
  <1> HIDE DEF colon
  <1>3. value \in State /\ (value.ok => colon.ok /\ value.at >= colon.at)
    BY <1>2, SkipState
  <1> HIDE DEF value
  <1>4. st.at \in Nat /\ skipped.at \in Nat /\ colon.at \in Nat /\ value.at \in Nat
    BY <1>1, <1>2, <1>3 DEF State
  <1> QED
    BY <1>1, <1>2, <1>3, <1>4

(* One member of an object.                                                *)
LEMMA MemberMeets ==
    ASSUME NEW src \in Texts, NEW reads, Run(src, reads), NEW calls, Advancing(calls),
           NEW st \in State, st.ok, st.at < Len(src), At(src, st.at) \notin Space,
           reads[st.at].mode \in {"object", "member"}, ~reads[st.at].high,
           reads[st.at].mode = "object" => At(src, st.at) # CurlyEnd,
           StringMet(src, reads, calls.string, st.at + 1),
           \A p \in Nat : p > st.at => ValueMet(src, reads, calls, p)
    PROVE  Meets(src, reads, MemberSize(src, calls, st), reads[st.at].open)
  <1> DEFINE r == reads[st.at]
             c == At(src, st.at)
             o == st.at + 1
             key == json_get_string_size(src, calls, st)
             colon == Expect(src, json_skip_all_skippables(src, key), ":")
             value == json_skip_all_skippables(src, colon)
             before == More(value, ElementOfObject, 0)
             part == calls.value[value.at]
             size == MemberSize(src, calls, st)
             Goal == Meets(src, reads, size, r.open)
  <1> SUFFICES Goal
    OBVIOUS
  <1>1. /\ Len(src) \in Nat /\ st.at \in Nat /\ o \in Nat /\ o <= Len(src) /\ o > st.at
        /\ ElementOfObject \in Nat /\ 0 \in Nat
    BY DEF Texts, State, ElementOfObject
  <1>2. r \in Readings /\ r.mode \in {"object", "member"} /\ ~r.high /\ c \notin Space
        /\ (r.mode = "object" => c # CurlyEnd)
    BY <1>1 DEF Run
  <1>4. size = Then(before, part)
    BY DEF MemberSize
  <1>5. key \in State /\ (key.ok => key.at > st.at)
    <2>1. st \in From(st.at)
      BY DEF From, State
    <2>2. key \in From(st.at + 1)
      BY <1>1, <2>1, GetStringAdvances
    <2>3. key \in State /\ (key.ok => key.at >= st.at + 1)
      BY <2>2 DEF From
    <2> HIDE DEF key
    <2>4. key.at \in Nat
      BY <2>3 DEF State
    <2> QED
      BY <1>1, <2>3, <2>4
  <1>6. c = Quote => /\ reads[o].mode = "string" /\ reads[o].key
                     /\ reads[o].open = r.open /\ ~reads[o].high
    BY <1>1, <1>2, KeyOpens
  <1>7. c = Quote => IF Through(src, key) THEN StringEnded(reads, key.at, reads[o])
                     ELSE Fails(src, reads)
    BY <1>6, QuotedMeets
  <1>8. c # Quote => key = Refused /\ Fails(src, reads)
    <2>1. c # Quote => key = Refused
      BY NotQuoted
    <2>2. c # Quote => Reads(r, c) = Stuck(r)
      BY <1>2, KeyReads
    <2> QED
      BY <1>1, <2>1, <2>2, RefusedFails
  <1>9. \A p \in Nat : p > st.at => ValueMet(src, reads, calls, p)
    OBVIOUS
  <1>10. value \in State /\ (value.ok => key.ok /\ value.at > key.at)
    BY <1>5, ExpectAdvances
  <1>11. part \in State /\ (part.ok => part.at > value.at)
    <2>1. value.at \in Nat
      BY <1>10 DEF State
    <2> HIDE DEF value
    <2>2. part \in State /\ (part.ok => part.at >= value.at + 1)
      BY <2>1, CallsReturn
    <2>3. part.at \in Nat
      BY <2>2 DEF State
    <2> QED
      BY <2>1, <2>2, <2>3
  <1>12. /\ before \in State
         /\ before.ok <=> value.ok
         /\ before.ok => before.at = value.at
    <2> HIDE DEF value
    <2> QED
      BY <1>1, <1>10, MoreStays, Zenon
  <1>13. /\ size.ok <=> value.ok /\ part.ok
         /\ size.ok => size.at = part.at
    <2> HIDE DEF before, part, size
    <2>1. LET next == Then(before, part)
          IN  /\ next.ok <=> before.ok /\ part.ok
              /\ next.ok => next.at = part.at
      BY <1>11, <1>12, ThenState
    <2> QED
      BY <1>4, <1>12, <2>1
  <1>14. (key.ok /\ key.at <= Len(src) /\ reads[key.at].mode = "colon"
            /\ ~reads[key.at].high) =>
              /\ ~value.ok => Fails(src, reads)
              /\ value.ok => /\ value.at > key.at /\ value.at < Len(src)
                             /\ reads[value.at].mode = "value"
                             /\ reads[value.at].open = reads[key.at].open
                             /\ ~reads[value.at].high
    <2>1. key.at \in Nat
      BY <1>5 DEF State
    <2> HIDE DEF key
    <2> QED
      BY <1>5, <2>1, ExpectMeets
  <1>15. key.at \in Nat /\ value.at \in Nat /\ part.at \in Nat
    BY <1>5, <1>10, <1>11 DEF State
  <1> HIDE DEF size, part, before, value, colon, key, r, c, o
  <1>16. CASE ~Through(src, key)
    <2>1. ~Through(src, size)
      BY <1>1, <1>10, <1>11, <1>13, <1>15, <1>16 DEF Through
    <2>2. Fails(src, reads)
      BY <1>7, <1>8, <1>16
    <2> QED
      BY <2>1, <2>2 DEF Meets
  <1>17. CASE Through(src, key)
    <2>1. key.ok /\ key.at <= Len(src)
      BY <1>17 DEF Through
    <2>2. c = Quote
      BY <1>8, <2>1 DEF Refused
    <2>3. reads[key.at].mode = "colon" /\ ~reads[key.at].high /\ reads[key.at].open = r.open
      BY <1>6, <1>7, <1>17, <2>2 DEF StringEnded
    <2>4. CASE ~value.ok
      <3>1. ~Through(src, size)
        BY <1>13, <2>4 DEF Through
      <3>2. Fails(src, reads)
        BY <1>14, <2>1, <2>3, <2>4
      <3> QED
        BY <3>1, <3>2 DEF Meets
    <2>5. CASE value.ok
      <3>1. /\ value.at > key.at /\ value.at < Len(src) /\ reads[value.at].mode = "value"
            /\ reads[value.at].open = r.open /\ ~reads[value.at].high
        BY <1>14, <2>1, <2>3, <2>5
      <3>2. ValueMet(src, reads, calls, value.at)
        BY <1>1, <1>5, <1>9, <1>15, <2>1, <3>1
      <3>3. Meets(src, reads, part, r.open)
        BY <1>1, <1>15, <3>1, <3>2 DEF ValueMet, part
      <3>4. Meets(src, reads, Then(before, part), r.open)
        BY <1>11, <1>12, <2>5, <3>3, ThenMeets
      <3> QED
        BY <1>4, <3>4
    <2> QED
      BY <2>4, <2>5
  <1> QED
    BY <1>16, <1>17

(* The first pass one character further on.                                *)
Past(st) == [st EXCEPT !.at = @ + 1]

(* Pass and grammar meet at the bracket that closes an object or an array. *)
LEMMA ClosingMeets ==
    ASSUME NEW src \in Texts, NEW reads, Run(src, reads), NEW here \in State, here.ok,
           here.at < Len(src), Reads(reads[here.at], At(src, here.at)) = Closed(reads[here.at]),
           NEW open \in Seq(Brackets), NEW bracket \in Brackets,
           reads[here.at].open = Append(open, bracket), ~reads[here.at].high
    PROVE  Meets(src, reads, Past(here), open)
  <1> DEFINE r == reads[here.at]
             q == Closed(r)
             o == here.at + 1
             size == Past(here)
             Goal == Meets(src, reads, size, open)
  <1> SUFFICES Goal
    OBVIOUS
  <1>1. Len(src) \in Nat /\ here.at \in Nat /\ o \in Nat /\ o <= Len(src)
    BY DEF Texts, State
  <1>2. r \in Readings
    BY <1>1 DEF Run
  <1>3. reads[o] = q
    BY <1>1 DEF Run
  <1>4. q.mode = "after" /\ q.high = r.high /\ q.open = open
    <2> HIDE DEF r
    <2>1. r.open = Append(open, bracket)
      BY DEF r
    <2> QED
      BY <1>2, <2>1, ClosedReadings
  <1>5. size.ok /\ size.at = o
    BY DEF State, Past
  <1>6. ~r.high
    OBVIOUS
  <1> HIDE DEF size, q, r, o
  <1>7. ValueEnded(src, reads, size.at, open)
    BY <1>3, <1>4, <1>5, <1>6 DEF ValueEnded
  <1> QED
    BY <1>1, <1>5, <1>7 DEF Meets, Through

(* Behind a member or an element: the grammar at whitespace, a closing     *)
(* bracket, a comma, or anything else.                                     *)
LEMMA BehindReads ==
    ASSUME NEW r \in Readings, NEW open \in Seq(Brackets), NEW c, c \notin Space
    PROVE  /\ r.open = Append(open, Curly) =>
                 /\ c = Comma => AfterValue(r, c) = In(r, "member")
                 /\ c = CurlyEnd => AfterValue(r, c) = Closed(r)
                 /\ c # Comma /\ c # CurlyEnd => AfterValue(r, c) = Stuck(r)
           /\ r.open = Append(open, Square) =>
                 /\ c = Comma => AfterValue(r, c) = In(r, "value")
                 /\ c = SquareEnd => AfterValue(r, c) = Closed(r)
                 /\ c # Comma /\ c # SquareEnd => AfterValue(r, c) = Stuck(r)
  BY AfterValueIs DEF Curly, CurlyEnd, Square, SquareEnd, Comma

(* What the grammar does behind a member or an element, by the bracket it  *)
(* is in, the one that closes it and the mode behind a comma.              *)
Follows(open, bracket, end, mode) ==
    \A r \in Readings, c \in STRING :
        r.open = Append(open, bracket) /\ c \notin Space =>
           /\ c = Comma => AfterValue(r, c) = In(r, mode)
           /\ c = end => AfterValue(r, c) = Closed(r)
           /\ c # Comma /\ c # end => AfterValue(r, c) = Stuck(r)

(* What may follow a member of an object and an element of an array.       *)
LEMMA FollowsIs ==
    ASSUME NEW open \in Seq(Brackets)
    PROVE  /\ Follows(open, Curly, CurlyEnd, "member")
           /\ Follows(open, Square, SquareEnd, "value")
  BY BehindReads DEF Follows

(* Behind the comma, and the whitespace that follows it.                   *)
BehindNext(src, here) == PastComma(src, here, TRUE)

(* From behind a member or an element to the next.                         *)
LEMMA CommaMeets ==
    ASSUME NEW src \in Texts, NEW reads, Run(src, reads), NEW o \in Nat, o <= Len(src),
           NEW open \in Seq(Brackets), NEW bracket \in Brackets, NEW end,
           NEW mode \in {"member", "value"}, Follows(open, bracket, end, mode),
           ValueEnded(src, reads, o, Append(open, bracket)),
           NEW here, here = json_skip_all_skippables(src, Started(o)),
           NEW first, first = BehindNext(src, here)
    PROVE  /\ here \in State /\ first \in State
           /\ ~here.ok => Fails(src, reads)
           /\ here.ok /\ At(src, here.at) = end =>
                 /\ here.at < Len(src)
                 /\ Reads(reads[here.at], At(src, here.at)) = Closed(reads[here.at])
                 /\ reads[here.at].open = Append(open, bracket) /\ ~reads[here.at].high
           /\ here.ok /\ At(src, here.at) # end /\ ~first.ok => Fails(src, reads)
           /\ here.ok /\ At(src, here.at) # end /\ first.ok =>
                 /\ first.at >= o /\ first.at < Len(src) /\ At(src, first.at) \notin Space
                 /\ reads[first.at].mode = mode /\ ~reads[first.at].high
                 /\ reads[first.at].open = Append(open, bracket)
           /\ first.ok => here.ok
  <1> DEFINE at == json_skip_whitespace(src, o)
             next == json_skip_whitespace(src, at + 1)
             over == Expect(src, here, Comma)
             inner == Append(open, bracket)
             r == reads[at]
             c == At(src, at)
             q == In(r, mode)
  <1>1. Len(src) \in Nat
    BY DEF Texts
  <1>2. /\ at \in Nat /\ at >= o /\ at <= Len(src) /\ c \notin Space
        /\ ValueEnded(src, reads, at, inner)
    BY EndedBlanks, Blanks
  <1>3. inner # <<>>
    BY Appended
  <1>4. r \in Readings /\ r.open = inner /\ ~r.high
    BY <1>1, <1>2 DEF Run, ValueEnded
  <1>5. /\ here \in State
        /\ here.ok <=> at # Len(src)
        /\ here.ok => here.at = at
    <2>1. Started(o) \in State /\ Started(o).ok /\ Started(o).at = o
      BY StartState
    <2> QED
      BY <2>1, SkipState
  <1>6. /\ over \in State
        /\ over.ok <=> here.ok /\ At(src, here.at) = Comma
        /\ over.ok => over.at = here.at + 1
    BY <1>5, ExpectState
  <1>7. first = json_skip_all_skippables(src, over)
    BY DEF BehindNext, PastComma, Comma
  <1>8. at < Len(src) => c \in STRING /\ reads[at + 1] = Reads(r, c)
    BY <1>2, Character DEF Run
  <1>9. at < Len(src) => Reads(r, c) = AfterValue(r, c)
    BY <1>2, <1>8, EndedNext
  <1>10. c \in STRING =>
            /\ c = Comma => AfterValue(r, c) = q
            /\ c = end => AfterValue(r, c) = Closed(r)
            /\ c # Comma /\ c # end => AfterValue(r, c) = Stuck(r)
    BY <1>2, <1>4 DEF Follows
  <1>11. q.mode = mode /\ q.open = r.open /\ q.high = r.high
    <2>1. mode \in Modes
      BY DEF Modes, StructureModes
    <2>2. OnlyMode(q, r, mode)
      BY <1>4, <2>1, InReadings
    <2> QED
      BY <2>2 DEF OnlyMode
  <1>12. r = reads[at] /\ c = At(src, at)
    OBVIOUS
  <1> HIDE DEF over
  <1>13. /\ first \in State
         /\ first.ok <=> over.ok /\ json_skip_whitespace(src, over.at) # Len(src)
         /\ first.ok => first.at = json_skip_whitespace(src, over.at)
    <2>1. LET skipped == json_skip_all_skippables(src, over)
          IN  /\ skipped \in State
              /\ skipped.ok <=> over.ok /\ json_skip_whitespace(src, over.at) # Len(src)
              /\ skipped.ok => skipped.at = json_skip_whitespace(src, over.at)
      BY <1>6, SkipState
    <2> QED
      BY <1>7, <2>1
  <1> HIDE DEF r, c, q, inner, at, next
  <1>14. ~here.ok => Fails(src, reads)
    <2>1. ~here.ok => reads[Len(src)].open # <<>>
      BY <1>3, <1>4, <1>5, <1>12
    <2> QED
      BY <2>1, UnfinishedFails
  <1>15. here.ok => here.at = at /\ at < Len(src)
    BY <1>1, <1>2, <1>5
  <1>16. ASSUME here.ok, At(src, here.at) = end
         PROVE  /\ here.at < Len(src)
                /\ Reads(reads[here.at], At(src, here.at)) = Closed(reads[here.at])
                /\ reads[here.at].open = inner /\ ~reads[here.at].high
    <2>1. here.at = at /\ at < Len(src) /\ c = end
      BY <1>12, <1>15, <1>16
    <2>3. Reads(r, c) = Closed(r)
      BY <1>8, <1>9, <1>10, <2>1
    <2> QED
      BY <1>4, <1>12, <2>1, <2>3
  <1>17. ASSUME here.ok, At(src, here.at) # end
         PROVE  /\ ~first.ok => Fails(src, reads)
                /\ first.ok =>
                     /\ first.at >= o /\ first.at < Len(src) /\ At(src, first.at) \notin Space
                     /\ reads[first.at].mode = mode /\ ~reads[first.at].high
                     /\ reads[first.at].open = inner
    <2>1. here.at = at /\ at < Len(src) /\ c # end /\ c \in STRING
      BY <1>8, <1>12, <1>15, <1>17
    <2>2. CASE c # Comma
      <3>1. ~first.ok
        BY <1>6, <1>12, <1>13, <2>1, <2>2
      <3>2. Reads(r, c) = Stuck(r)
        BY <1>9, <1>10, <2>1, <2>2
      <3>3. Fails(src, reads)
        BY <1>2, <1>12, <2>1, <3>2, RefusedFails
      <3> QED
        BY <3>1, <3>3
    <2>3. CASE c = Comma
      <3>1. reads[at + 1] = q
        BY <1>8, <1>9, <1>10, <2>1, <2>3
      <3>2. at + 1 \in Nat /\ at + 1 <= Len(src)
        BY <1>1, <1>2, <2>1
      <3>3. reads[at + 1].mode \in StructureModes
        BY <1>11, <3>1 DEF StructureModes
      <3>4. /\ next \in Nat /\ next >= at + 1 /\ next <= Len(src) /\ reads[next] = q
            /\ At(src, next) \notin Space
        <4>1. LET last == json_skip_whitespace(src, at + 1)
              IN  last \in Nat /\ last >= at + 1 /\ last <= Len(src)
                  /\ reads[last] = reads[at + 1]
          BY <3>2, <3>3, BlanksRead
        <4>2. At(src, json_skip_whitespace(src, at + 1)) \notin Space
          BY <3>2, Blanks
        <4> QED
          BY <3>1, <4>1, <4>2 DEF next
      <3>5. /\ first.ok <=> next # Len(src)
            /\ first.ok => first.at = next
        <4>1. over.ok /\ over.at = at + 1
          BY <1>6, <1>12, <1>17, <2>1, <2>3
        <4> QED
          BY <1>13, <4>1 DEF next
      <3>6. ~first.ok => Fails(src, reads)
        <4>1. q.open # <<>>
          BY <1>3, <1>4, <1>11
        <4>2. ~first.ok => reads[Len(src)].open # <<>>
          BY <3>4, <3>5, <4>1
        <4> QED
          BY <4>2, UnfinishedFails
      <3>7. first.ok => first.at >= o /\ first.at < Len(src) /\ reads[first.at] = q
                        /\ At(src, first.at) \notin Space
        <4> SUFFICES ASSUME first.ok
                     PROVE  /\ first.at >= o /\ first.at < Len(src) /\ reads[first.at] = q
                            /\ At(src, first.at) \notin Space
          OBVIOUS
        <4>1. first.at = next /\ next # Len(src)
          BY <3>5
        <4>2. next >= o /\ next < Len(src)
          BY <1>1, <1>2, <3>4, <4>1
        <4> QED
          BY <3>4, <4>1, <4>2
      <3> QED
        BY <1>4, <1>11, <3>6, <3>7
    <2> QED
      BY <2>2, <2>3
  <1> QED
    BY <1>5, <1>6, <1>13, <1>14, <1>16, <1>17 DEF inner

(* A member is not empty, and is accepted only behind what was.            *)
LEMMA MemberNeeds ==
    ASSUME NEW src \in Texts, NEW calls, Advancing(calls), NEW st \in State
    PROVE  /\ MemberSize(src, calls, st) \in State
           /\ MemberSize(src, calls, st).ok => st.ok
           /\ MemberSize(src, calls, st).ok => MemberSize(src, calls, st).at > st.at
  <1> DEFINE size == MemberSize(src, calls, st)
             key == json_get_string_size(src, calls, st)
             colon == Expect(src, json_skip_all_skippables(src, key), ":")
             value == json_skip_all_skippables(src, colon)
             before == More(value, ElementOfObject, 0)
             part == calls.value[value.at]
             Goal == size \in State /\ (size.ok => st.ok) /\ (size.ok => size.at > st.at)
  <1> SUFFICES Goal
    OBVIOUS
  <1>1. st.at \in Nat /\ st \in From(st.at)
    BY DEF State, From
  <1>2. key \in From(st.at + 1)
    BY <1>1, GetStringAdvances
  <1>3. size \in From(st.at + 1)
    BY <1>1, MemberAdvances
  <1>4. key.ok => st.ok
    BY DEF json_get_string_size, Refused
  <1>5. key \in State
    BY <1>2 DEF From
  <1>6. value \in State /\ (value.ok => key.ok)
    BY <1>5, ExpectAdvances
  <1>7. size = Then(before, part)
    BY DEF MemberSize
  <1>8. part \in State
    <2>1. value.at \in Nat
      BY <1>6 DEF State
    <2> HIDE DEF value
    <2> QED
      BY <2>1, CallsReturn
  <1>9. before \in State /\ (before.ok => value.ok)
    <2>1. ElementOfObject \in Nat /\ 0 \in Nat
      BY DEF ElementOfObject
    <2> HIDE DEF value
    <2> QED
      BY <1>6, <2>1, MoreState
  <1>10. size.ok => before.ok
    <2> HIDE DEF before, part, size
    <2> QED
      BY <1>7, <1>8, <1>9, ThenState
  <1> HIDE DEF size, key, value, before, part, colon
  <1>11. size \in State /\ (size.ok => size.at >= st.at + 1)
    BY <1>3 DEF From
  <1>12. size.at \in Nat
    BY <1>11 DEF State
  <1> QED
    BY <1>1, <1>4, <1>6, <1>9, <1>10, <1>11, <1>12

(* A member and the rest of the object behind it.                          *)
LEMMA NextMember ==
    ASSUME NEW src \in Texts, NEW reads, Run(src, reads), NEW calls, Advancing(calls),
           NEW open \in Seq(Brackets), NEW o \in Nat,
           \A p \in Nat : p > o => PartsMet(src, reads, calls, p),
           \A p \in Nat : p > o => ValueMet(src, reads, calls, p),
           NEW st \in State, ~st.ok => Fails(src, reads),
           st.ok => /\ st.at >= o /\ st.at < Len(src) /\ At(src, st.at) \notin Space
                    /\ reads[st.at].mode \in {"object", "member"} /\ ~reads[st.at].high
                    /\ reads[st.at].mode = "object" => At(src, st.at) # CurlyEnd
                    /\ reads[st.at].open = Append(open, Curly)
    PROVE  Meets(src, reads, AfterMember(src, calls, MemberSize(src, calls, st)), open)
  <1> DEFINE member == MemberSize(src, calls, st)
             after == AfterMember(src, calls, member)
             inner == Append(open, Curly)
             rest == calls.members[member.at][TRUE]
             Goal == Meets(src, reads, after, open)
  <1> SUFFICES Goal
    OBVIOUS
  <1>1. Len(src) \in Nat /\ st.at \in Nat /\ Curly \in Brackets /\ TRUE \in BOOLEAN
    <2>1. Curly \in Brackets
      BY Zenon DEF Curly, Brackets
    <2> QED
      BY <2>1 DEF Texts, State
  <1>2. inner # <<>>
    BY <1>1, Appended
  <1>3. /\ member \in State /\ (member.ok => st.ok /\ member.at > st.at)
    BY MemberNeeds
  <1>4. /\ ~member.ok \/ member.at = Len(src) => after = Refused
        /\ member.ok /\ member.at > Len(src) => after = member
        /\ member.ok /\ member.at < Len(src) => after = Then(member, rest)
    <2> HIDE DEF member
    <2>1. AfterMemberCases(src, calls, member)
      BY <1>3, AfterMemberIs
    <2> QED
      BY <2>1 DEF AfterMemberCases
  <1>5. st.ok => Meets(src, reads, member, inner)
    <2> SUFFICES ASSUME st.ok PROVE Meets(src, reads, member, inner)
      OBVIOUS
    <2>1. StringMet(src, reads, calls.string, st.at + 1)
      <3>1. st.at + 1 \in Nat /\ st.at + 1 > o
        BY <1>1
      <3> QED
        BY <3>1 DEF PartsMet
    <2>2. \A p \in Nat : p > st.at => ValueMet(src, reads, calls, p)
      BY <1>1
    <2>3. Meets(src, reads, member, reads[st.at].open)
      BY <2>1, <2>2, MemberMeets
    <2> QED
      BY <2>3
  <1>6. member.at \in Nat
    BY <1>3 DEF State
  <1>7. ASSUME st.ok, member.ok, member.at < Len(src)
        PROVE  rest \in State /\ MembersMet(src, reads, calls, member.at)
    <2>1. member.at > o
      BY <1>1, <1>3, <1>6, <1>7
    <2>2. MembersMet(src, reads, calls, member.at)
      BY <1>6, <2>1 DEF PartsMet
    <2> HIDE DEF member
    <2>3. rest \in State
      BY <1>1, <1>6, CallsReturn
    <2> QED
      BY <2>2, <2>3
  <1> HIDE DEF member, after, inner
  <1>8. CASE ~st.ok
    <2>1. ~Through(src, after)
      BY <1>3, <1>4, <1>8 DEF Through, Refused
    <2> QED
      BY <1>8, <2>1 DEF Meets
  <1>9. CASE st.ok /\ ~Through(src, member)
    <2>1. Fails(src, reads)
      BY <1>5, <1>9 DEF Meets
    <2>2. ~Through(src, after)
      <3>1. CASE ~member.ok
        BY <1>4, <3>1 DEF Through, Refused
      <3>2. CASE member.ok
        <4>1. member.at > Len(src)
          BY <1>1, <1>6, <1>9, <3>2 DEF Through
        <4> QED
          BY <1>4, <1>9, <3>2, <4>1
      <3> QED
        BY <3>1, <3>2
    <2> QED
      BY <2>1, <2>2 DEF Meets
  <1>10. CASE st.ok /\ Through(src, member)
    <2>1. /\ member.ok /\ member.at <= Len(src)
          /\ ValueEnded(src, reads, member.at, inner)
      BY <1>5, <1>10 DEF Meets, Through
    <2>2. CASE member.at = Len(src)
      <3>1. ~Through(src, after)
        BY <1>4, <2>2 DEF Through, Refused
      <3>2. reads[Len(src)].open # <<>>
        BY <1>2, <2>1, <2>2 DEF ValueEnded
      <3> QED
        BY <3>1, <3>2, UnfinishedFails DEF Meets
    <2>3. CASE member.at # Len(src)
      <3>1. member.at < Len(src)
        BY <1>1, <1>6, <2>1, <2>3
      <3>2. after = Then(member, rest)
        BY <1>4, <2>1, <3>1
      <3>3. rest \in State /\ MembersMet(src, reads, calls, member.at)
        BY <1>7, <1>10, <2>1, <3>1
      <3>4. Meets(src, reads, rest, open)
        BY <2>1, <3>3 DEF MembersMet, RestMet, inner
      <3> HIDE DEF rest
      <3> QED
        BY <1>3, <2>1, <3>2, <3>3, <3>4, ThenMeets
    <2> QED
      BY <2>2, <2>3
  <1> QED
    BY <1>8, <1>9, <1>10

(* The rest of an object.                                                  *)
LEMMA MembersIs ==
    ASSUME NEW src, NEW calls, NEW st,
           NEW here, here = json_skip_all_skippables(src, st)
    PROVE  /\ here.ok /\ At(src, here.at) = CurlyEnd =>
                 /\ ObjectSize(src, calls, st, FALSE) = Past(here)
                 /\ ObjectSize(src, calls, st, TRUE) = Past(here)
           /\ ~(here.ok /\ At(src, here.at) = CurlyEnd) =>
                 /\ ObjectSize(src, calls, st, FALSE)
                       = AfterMember(src, calls, MemberSize(src, calls, here))
                 /\ ObjectSize(src, calls, st, TRUE)
                       = AfterMember(src, calls, MemberSize(src, calls, BehindNext(src, here)))
  <1>1. PastComma(src, here, FALSE) = here
    BY DEF PastComma
  <1>2. PastComma(src, here, TRUE) = BehindNext(src, here)
    BY DEF BehindNext
  <1> QED
    BY <1>1, <1>2 DEF ObjectSize, MembersSize, CurlyEnd, Past

(* The members of an object, given the values behind the offset.           *)
LEMMA MembersMeets ==
    ASSUME NEW src \in Texts, NEW reads, Run(src, reads), NEW calls, Advancing(calls),
           NEW o \in Nat,
           \A p \in Nat : p > o => PartsMet(src, reads, calls, p),
           \A p \in Nat : p > o => ValueMet(src, reads, calls, p),
           \A comma \in BOOLEAN : calls.members[o][comma] = ObjectSize(src, calls, Started(o), comma)
    PROVE  MembersMet(src, reads, calls, o)
  <1> DEFINE start == Started(o)
             here == json_skip_all_skippables(src, start)
             at == json_skip_whitespace(src, o)
             first == BehindNext(src, here)
             closed == Past(here)
             only == calls.members[o][FALSE]
             more == calls.members[o][TRUE]
  <1> SUFFICES ASSUME o <= Len(src), NEW open \in Seq(Brackets)
               PROVE  /\ (/\ reads[o].mode = "object" /\ reads[o].open = Append(open, Curly)
                          /\ ~reads[o].high) =>
                            Meets(src, reads, only, open)
                      /\ ValueEnded(src, reads, o, Append(open, Curly)) =>
                            Meets(src, reads, more, open)
    BY DEF MembersMet, RestMet
  <1>1. Len(src) \in Nat /\ Curly \in Brackets /\ TRUE \in BOOLEAN /\ FALSE \in BOOLEAN
    <2>1. Curly \in Brackets
      BY Zenon DEF Curly, Brackets
    <2> QED
      BY <2>1 DEF Texts
  <1>2. /\ here \in State
        /\ here.ok <=> at # Len(src)
        /\ here.ok => here.at = at
    <2>1. start \in State /\ start.ok /\ start.at = o
      BY StartState
    <2> HIDE DEF start
    <2> QED
      BY <2>1, SkipState
  <1>3. /\ here.ok /\ At(src, here.at) = CurlyEnd => only = closed /\ more = closed
        /\ ~(here.ok /\ At(src, here.at) = CurlyEnd) =>
              /\ only = AfterMember(src, calls, MemberSize(src, calls, here))
              /\ more = AfterMember(src, calls, MemberSize(src, calls, first))
    <2>1. /\ only = ObjectSize(src, calls, start, FALSE)
          /\ more = ObjectSize(src, calls, start, TRUE)
      BY <1>1
    <2>2. here = json_skip_all_skippables(src, start) /\ first = BehindNext(src, here)
          /\ closed = Past(here)
      OBVIOUS
    <2> HIDE DEF start, only, more, here, first, closed
    <2> QED
      BY <2>1, <2>2, MembersIs, ZenonT(60)
  <1> HIDE DEF only, more
  <1>4. ASSUME reads[o].mode = "object", reads[o].open = Append(open, Curly), ~reads[o].high
        PROVE  Meets(src, reads, only, open)
    <2>1. /\ at \in Nat /\ at >= o /\ at <= Len(src) /\ reads[at] = reads[o]
          /\ At(src, at) \notin Space
      <3>1. reads[o].mode \in StructureModes
        BY <1>4 DEF StructureModes
      <3> QED
        BY <3>1, BlanksRead, Blanks
    <2>2. here.ok => here.at = at /\ here.at < Len(src)
      BY <1>1, <1>2, <2>1
    <2> HIDE DEF here, at, closed
    <2>3. CASE here.ok /\ At(src, here.at) = CurlyEnd
      <3>1. Reads(reads[here.at], At(src, here.at)) = Closed(reads[here.at])
        <4> DEFINE r == reads[here.at]
        <4>1. r \in Readings /\ r.mode = "object"
          BY <1>4, <2>1, <2>2, <2>3 DEF Run
        <4> HIDE DEF r
        <4>2. Reads(r, CurlyEnd) = Structure(r, CurlyEnd)
          BY <4>1, ReadsIs DEF StructureModes
        <4>3. Structure(r, CurlyEnd) = Closed(r)
          BY <4>1 DEF Structure, CurlyEnd
        <4> QED
          BY <2>3, <4>2, <4>3 DEF r
      <3>2. Meets(src, reads, closed, open)
        <4>1. reads[here.at].open = Append(open, Curly) /\ ~reads[here.at].high
          BY <1>4, <2>1, <2>2, <2>3
        <4> QED
          BY <1>1, <1>2, <2>2, <2>3, <3>1, <4>1, ClosingMeets DEF closed
      <3> QED
        BY <1>3, <2>3, <3>2
    <2>4. CASE ~(here.ok /\ At(src, here.at) = CurlyEnd)
      <3>1. ~here.ok => Fails(src, reads)
        <4>1. ~here.ok => reads[Len(src)].mode = "object"
          BY <1>2, <1>4, <2>1
        <4> QED
          BY <4>1, UnfinishedFails
      <3>2. here.ok => /\ here.at >= o /\ here.at < Len(src) /\ At(src, here.at) \notin Space
                       /\ reads[here.at].mode \in {"object", "member"} /\ ~reads[here.at].high
                       /\ reads[here.at].mode = "object" => At(src, here.at) # CurlyEnd
                       /\ reads[here.at].open = Append(open, Curly)
        BY <1>4, <2>1, <2>2, <2>4
      <3>3. Meets(src, reads, AfterMember(src, calls, MemberSize(src, calls, here)), open)
        BY <1>2, <3>1, <3>2, NextMember
      <3> QED
        BY <1>3, <2>4, <3>3
    <2> QED
      BY <2>3, <2>4
  <1>5. ASSUME ValueEnded(src, reads, o, Append(open, Curly))
        PROVE  Meets(src, reads, more, open)
    <2>1. Follows(open, Curly, CurlyEnd, "member")
      BY FollowsIs
    <2>2. /\ first \in State
          /\ ~here.ok => Fails(src, reads)
          /\ here.ok /\ At(src, here.at) = CurlyEnd =>
                /\ here.at < Len(src)
                /\ Reads(reads[here.at], At(src, here.at)) = Closed(reads[here.at])
                /\ reads[here.at].open = Append(open, Curly) /\ ~reads[here.at].high
          /\ here.ok /\ At(src, here.at) # CurlyEnd /\ ~first.ok => Fails(src, reads)
          /\ here.ok /\ At(src, here.at) # CurlyEnd /\ first.ok =>
                /\ first.at >= o /\ first.at < Len(src) /\ At(src, first.at) \notin Space
                /\ reads[first.at].mode = "member" /\ ~reads[first.at].high
                /\ reads[first.at].open = Append(open, Curly)
          /\ first.ok => here.ok
      <3>1. here = json_skip_all_skippables(src, Started(o)) /\ first = BehindNext(src, here)
        OBVIOUS
      <3>2. "member" \in {"member", "value"}
        OBVIOUS
      <3> HIDE DEF here, first
      <3> QED
        BY <1>1, <1>5, <2>1, <3>1, <3>2, CommaMeets, SMTT(60)
    <2> HIDE DEF here, first, closed
    <2>3. CASE here.ok /\ At(src, here.at) = CurlyEnd
      <3>1. Meets(src, reads, closed, open)
        BY <1>1, <1>2, <2>2, <2>3, ClosingMeets DEF closed
      <3> QED
        BY <1>3, <2>3, <3>1
    <2>4. CASE ~(here.ok /\ At(src, here.at) = CurlyEnd)
      <3>1. ~first.ok => Fails(src, reads)
        BY <2>2, <2>4
      <3>2. first.ok => /\ first.at >= o /\ first.at < Len(src) /\ At(src, first.at) \notin Space
                        /\ reads[first.at].mode \in {"object", "member"} /\ ~reads[first.at].high
                        /\ reads[first.at].mode = "object" => At(src, first.at) # CurlyEnd
                        /\ reads[first.at].open = Append(open, Curly)
        BY <2>2, <2>4
      <3>3. Meets(src, reads, AfterMember(src, calls, MemberSize(src, calls, first)), open)
        BY <2>2, <3>1, <3>2, NextMember
      <3> QED
        BY <1>3, <2>4, <3>3
    <2> QED
      BY <2>3, <2>4
  <1> QED
    BY <1>4, <1>5

(* One element of an array.                                                *)
LEMMA ElementMeets ==
    ASSUME NEW src \in Texts, NEW reads, NEW calls, Advancing(calls),
           NEW st \in State, st.ok, st.at < Len(src), At(src, st.at) \notin Space,
           reads[st.at].mode \in {"value", "array"}, ~reads[st.at].high,
           reads[st.at].mode = "array" => At(src, st.at) # SquareEnd,
           ValueMet(src, reads, calls, st.at)
    PROVE  Meets(src, reads, ElementSize(calls, st), reads[st.at].open)
  <1> DEFINE before == More(st, ElementOfArray, 0)
             part == calls.value[before.at]
  <1>1. /\ Len(src) \in Nat /\ st.at \in Nat /\ st.at <= Len(src)
        /\ ElementOfArray \in Nat /\ 0 \in Nat
    BY DEF Texts, State, ElementOfArray
  <1>2. before \in State /\ before.ok /\ before.at = st.at
    BY <1>1, MoreState
  <1>3. json_skip_whitespace(src, st.at) = st.at
    BY <1>1, NotBlank
  <1> HIDE DEF before
  <1>4. calls.value[st.at] \in State
    BY <1>1, CallsReturn
  <1>5. Meets(src, reads, calls.value[st.at], reads[st.at].open)
    BY <1>1, <1>3 DEF ValueMet
  <1>6. ElementSize(calls, st) = Then(before, calls.value[st.at])
    <2>1. ElementSize(calls, st) = Then(before, calls.value[st.at])
      BY DEF ElementSize, before
    <2> QED
      BY <1>2, <2>1
  <1> QED
    BY <1>2, <1>4, <1>5, <1>6, ThenMeets

(* An element is not empty, and is accepted only behind what was.          *)
LEMMA ElementNeeds ==
    ASSUME NEW calls, Advancing(calls), NEW st \in State
    PROVE  /\ ElementSize(calls, st) \in State
           /\ ElementSize(calls, st).ok => st.ok
           /\ ElementSize(calls, st).ok => ElementSize(calls, st).at > st.at
  <1> DEFINE size == ElementSize(calls, st)
             before == More(st, ElementOfArray, 0)
             part == calls.value[st.at]
             Goal == size \in State /\ (size.ok => st.ok) /\ (size.ok => size.at > st.at)
  <1> SUFFICES Goal
    OBVIOUS
  <1>1. st.at \in Nat /\ ElementOfArray \in Nat /\ 0 \in Nat
    BY DEF State, ElementOfArray
  <1>2. size = Then(before, part)
    BY DEF ElementSize
  <1>3. before \in State /\ (before.ok <=> st.ok)
    BY <1>1, MoreState
  <1>4. part \in State /\ (part.ok => part.at >= st.at + 1)
    BY <1>1, CallsReturn
  <1> HIDE DEF size, before, part
  <1>5. /\ size \in State
        /\ size.ok <=> before.ok /\ part.ok
        /\ size.ok => size.at = part.at
    <2>1. LET next == Then(before, part)
          IN  /\ next \in State
              /\ next.ok <=> before.ok /\ part.ok
              /\ next.ok => next.at = part.at
      BY <1>3, <1>4, ThenState
    <2> QED
      BY <1>2, <2>1
  <1>6. part.at \in Nat
    BY <1>4 DEF State
  <1> QED
    BY <1>1, <1>3, <1>4, <1>5, <1>6

(* An element and the rest of the array behind it.                         *)
LEMMA NextElement ==
    ASSUME NEW src \in Texts, NEW reads, Run(src, reads), NEW calls, Advancing(calls),
           NEW open \in Seq(Brackets), NEW o \in Nat,
           \A p \in Nat : p > o => PartsMet(src, reads, calls, p),
           \A p \in Nat : p >= o => ValueMet(src, reads, calls, p),
           NEW st \in State, ~st.ok => Fails(src, reads),
           st.ok => /\ st.at >= o /\ st.at < Len(src) /\ At(src, st.at) \notin Space
                    /\ reads[st.at].mode \in {"value", "array"} /\ ~reads[st.at].high
                    /\ reads[st.at].mode = "array" => At(src, st.at) # SquareEnd
                    /\ reads[st.at].open = Append(open, Square)
    PROVE  Meets(src, reads, AfterElement(calls, ElementSize(calls, st)), open)
  <1> DEFINE element == ElementSize(calls, st)
             after == AfterElement(calls, element)
             inner == Append(open, Square)
             rest == calls.elements[element.at][TRUE]
             Goal == Meets(src, reads, after, open)
  <1> SUFFICES Goal
    OBVIOUS
  <1>1. Len(src) \in Nat /\ st.at \in Nat /\ TRUE \in BOOLEAN
    BY DEF Texts, State
  <1>2. /\ element \in State /\ (element.ok => st.ok /\ element.at > st.at)
    BY ElementNeeds
  <1>3. after = Then(element, rest)
    BY DEF AfterElement
  <1>4. st.ok => Meets(src, reads, element, inner)
    <2> SUFFICES ASSUME st.ok PROVE Meets(src, reads, element, inner)
      OBVIOUS
    <2>1. ValueMet(src, reads, calls, st.at)
      BY <1>1
    <2>2. Meets(src, reads, element, reads[st.at].open)
      BY <2>1, ElementMeets
    <2> QED
      BY <2>2
  <1>5. element.at \in Nat
    BY <1>2 DEF State
  <1>6. rest \in From(element.at) /\ rest \in State
    <2> HIDE DEF element
    <2>1. rest \in State /\ (rest.ok => rest.at >= element.at + 1)
      BY <1>1, <1>5, CallsReturn
    <2> HIDE DEF rest
    <2>2. rest.at \in Nat
      BY <2>1 DEF State
    <2> QED
      BY <1>5, <2>1, <2>2 DEF From
  <1>7. ASSUME st.ok, element.ok
        PROVE  ElementsMet(src, reads, calls, element.at)
    <2>1. element.at > o
      BY <1>1, <1>2, <1>5, <1>7
    <2> QED
      BY <1>5, <2>1 DEF PartsMet
  <1> HIDE DEF element, after, inner
  <1>8. CASE st.ok /\ Through(src, element)
    <2>1. /\ element.ok /\ element.at <= Len(src)
          /\ ValueEnded(src, reads, element.at, inner)
      BY <1>4, <1>8 DEF Meets, Through
    <2>2. Meets(src, reads, rest, open)
      BY <1>7, <1>8, <2>1 DEF ElementsMet, RestMet, inner
    <2> HIDE DEF rest
    <2> QED
      BY <1>2, <1>3, <1>6, <2>1, <2>2, ThenMeets
  <1>9. CASE ~st.ok \/ ~Through(src, element)
    <2>1. Fails(src, reads) /\ ~Through(src, element)
      <3>1. ~st.ok => ~Through(src, element)
        BY <1>2 DEF Through
      <3> QED
        BY <1>4, <1>9, <3>1 DEF Meets
    <2> HIDE DEF rest
    <2>2. ~Through(src, after)
      BY <1>2, <1>3, <1>6, <2>1, BeyondStays
    <2> QED
      BY <2>1, <2>2 DEF Meets
  <1> QED
    BY <1>8, <1>9

(* The rest of an array.                                                   *)
LEMMA ArrayIs ==
    ASSUME NEW src \in Texts, NEW calls, NEW st,
           NEW here \in State, here = json_skip_all_skippables(src, st),
           here.ok => here.at < Len(src)
    PROVE  /\ ~here.ok =>
                 /\ ArraySize(src, calls, st, FALSE) = Refused
                 /\ ArraySize(src, calls, st, TRUE) = Refused
           /\ here.ok /\ At(src, here.at) = SquareEnd =>
                 /\ ArraySize(src, calls, st, FALSE) = Past(here)
                 /\ ArraySize(src, calls, st, TRUE) = Past(here)
           /\ here.ok /\ At(src, here.at) # SquareEnd =>
                 /\ ArraySize(src, calls, st, FALSE)
                       = AfterElement(calls, ElementSize(calls, here))
                 /\ ArraySize(src, calls, st, TRUE)
                       = AfterElement(calls, ElementSize(calls, BehindNext(src, here)))
  <1>1. PastComma(src, here, FALSE) = here
    BY DEF PastComma
  <1>2. PastComma(src, here, TRUE) = BehindNext(src, here)
    BY DEF BehindNext
  <1>3. here.ok => At(src, here.at) # Outside
    <2>1. here.at \in Nat /\ Len(src) \in Nat
      BY DEF State, Texts
    <2> QED
      BY <2>1, OutsideText
  <1>4. /\ ArraySize(src, calls, st, FALSE) = ElementsSize(src, calls, here, FALSE)
        /\ ArraySize(src, calls, st, TRUE) = ElementsSize(src, calls, here, TRUE)
    BY DEF ArraySize
  <1>5. ElementsCases(src, calls, here, FALSE) /\ ElementsCases(src, calls, here, TRUE)
    BY ElementsIs
  <1>6. ~here.ok => /\ ElementsSize(src, calls, here, FALSE) = Refused
                    /\ ElementsSize(src, calls, here, TRUE) = Refused
    BY Zenon, <1>5 DEF ElementsCases
  <1>7. here.ok /\ At(src, here.at) = SquareEnd =>
           /\ ElementsSize(src, calls, here, FALSE) = Past(here)
           /\ ElementsSize(src, calls, here, TRUE) = Past(here)
    BY Zenon, <1>5 DEF ElementsCases, SquareEnd, Past
  <1>8. here.ok /\ At(src, here.at) # SquareEnd =>
           /\ ElementsSize(src, calls, here, FALSE)
                 = AfterElement(calls, ElementSize(calls, PastComma(src, here, FALSE)))
           /\ ElementsSize(src, calls, here, TRUE)
                 = AfterElement(calls, ElementSize(calls, PastComma(src, here, TRUE)))
    BY Zenon, <1>3, <1>5 DEF ElementsCases, SquareEnd
  <1> QED
    BY Zenon, <1>1, <1>2, <1>4, <1>6, <1>7, <1>8

(* The elements of an array, given the values from the offset on.          *)
LEMMA ElementsMeets ==
    ASSUME NEW src \in Texts, NEW reads, Run(src, reads), NEW calls, Advancing(calls),
           NEW o \in Nat,
           \A p \in Nat : p > o => PartsMet(src, reads, calls, p),
           \A p \in Nat : p >= o => ValueMet(src, reads, calls, p),
           \A comma \in BOOLEAN : calls.elements[o][comma] = ArraySize(src, calls, Started(o), comma)
    PROVE  ElementsMet(src, reads, calls, o)
  <1> DEFINE start == Started(o)
             here == json_skip_all_skippables(src, start)
             at == json_skip_whitespace(src, o)
             first == BehindNext(src, here)
             closed == Past(here)
             only == calls.elements[o][FALSE]
             more == calls.elements[o][TRUE]
  <1> SUFFICES ASSUME o <= Len(src), NEW open \in Seq(Brackets)
               PROVE  /\ (/\ reads[o].mode = "array" /\ reads[o].open = Append(open, Square)
                          /\ ~reads[o].high) =>
                            Meets(src, reads, only, open)
                      /\ ValueEnded(src, reads, o, Append(open, Square)) =>
                            Meets(src, reads, more, open)
    BY DEF ElementsMet, RestMet
  <1>1. Len(src) \in Nat /\ Square \in Brackets /\ TRUE \in BOOLEAN /\ FALSE \in BOOLEAN
    <2>1. Square \in Brackets
      BY Zenon DEF Square, Brackets
    <2> QED
      BY <2>1 DEF Texts
  <1>2. /\ here \in State
        /\ here.ok <=> at # Len(src)
        /\ here.ok => here.at = at
    <2>1. start \in State /\ start.ok /\ start.at = o
      BY StartState
    <2> HIDE DEF start
    <2> QED
      BY <2>1, SkipState
  <1>3. /\ ~here.ok => only = Refused /\ more = Refused
        /\ here.ok /\ At(src, here.at) = SquareEnd => only = closed /\ more = closed
        /\ here.ok /\ At(src, here.at) # SquareEnd =>
              /\ only = AfterElement(calls, ElementSize(calls, here))
              /\ more = AfterElement(calls, ElementSize(calls, first))
    <2>1. /\ only = ArraySize(src, calls, start, FALSE)
          /\ more = ArraySize(src, calls, start, TRUE)
      BY <1>1
    <2>2. here = json_skip_all_skippables(src, start) /\ first = BehindNext(src, here)
          /\ closed = Past(here)
      OBVIOUS
    <2>3. here.ok => here.at < Len(src)
      <3>1. at \in Nat /\ at <= Len(src)
        BY Blanks
      <3> HIDE DEF here, at
      <3> QED
        BY <1>1, <1>2, <3>1
    <2> HIDE DEF start, only, more, here, first, closed
    <2> QED
      BY <1>2, <2>1, <2>2, <2>3, ArrayIs
  <1> HIDE DEF only, more
  <1>4. ASSUME reads[o].mode = "array", reads[o].open = Append(open, Square), ~reads[o].high
        PROVE  Meets(src, reads, only, open)
    <2>1. /\ at \in Nat /\ at >= o /\ at <= Len(src) /\ reads[at] = reads[o]
          /\ At(src, at) \notin Space
      <3>1. reads[o].mode \in StructureModes
        BY <1>4 DEF StructureModes
      <3> QED
        BY <3>1, BlanksRead, Blanks, SMTT(30)
    <2>2. here.ok => here.at = at /\ here.at < Len(src)
      BY <1>1, <1>2, <2>1
    <2> HIDE DEF here, at, closed
    <2>3. CASE ~here.ok
      <3>1. ~Through(src, only)
        BY <1>3, <2>3 DEF Through, Refused
      <3>2. reads[Len(src)].mode = "array"
        BY <1>2, <1>4, <2>1, <2>3
      <3> QED
        BY <3>1, <3>2, UnfinishedFails DEF Meets
    <2>4. CASE here.ok /\ At(src, here.at) = SquareEnd
      <3>1. Reads(reads[here.at], At(src, here.at)) = Closed(reads[here.at])
        <4> DEFINE r == reads[here.at]
        <4>1. r \in Readings /\ r.mode = "array"
          BY <1>4, <2>1, <2>2, <2>4 DEF Run
        <4> HIDE DEF r
        <4>2. Reads(r, SquareEnd) = Structure(r, SquareEnd)
          BY <4>1, ReadsIs DEF StructureModes
        <4>3. Structure(r, SquareEnd) = Closed(r)
          BY <4>1 DEF Structure, SquareEnd
        <4> QED
          BY <2>4, <4>2, <4>3 DEF r
      <3>2. Meets(src, reads, closed, open)
        <4>1. reads[here.at].open = Append(open, Square) /\ ~reads[here.at].high
          BY <1>4, <2>1, <2>2, <2>4
        <4> QED
          BY <1>1, <1>2, <2>2, <2>4, <3>1, <4>1, ClosingMeets DEF closed
      <3> QED
        BY <1>3, <2>4, <3>2
    <2>5. CASE here.ok /\ At(src, here.at) # SquareEnd
      <3>1. here.ok => /\ here.at >= o /\ here.at < Len(src) /\ At(src, here.at) \notin Space
                       /\ reads[here.at].mode \in {"value", "array"} /\ ~reads[here.at].high
                       /\ reads[here.at].mode = "array" => At(src, here.at) # SquareEnd
                       /\ reads[here.at].open = Append(open, Square)
        BY <1>4, <2>1, <2>2, <2>5
      <3>2. Meets(src, reads, AfterElement(calls, ElementSize(calls, here)), open)
        BY <1>2, <2>5, <3>1, NextElement
      <3> QED
        BY <1>3, <2>5, <3>2
    <2> QED
      BY <2>3, <2>4, <2>5
  <1>5. ASSUME ValueEnded(src, reads, o, Append(open, Square))
        PROVE  Meets(src, reads, more, open)
    <2>1. Follows(open, Square, SquareEnd, "value")
      BY FollowsIs
    <2>2. /\ first \in State
          /\ ~here.ok => Fails(src, reads)
          /\ here.ok /\ At(src, here.at) = SquareEnd =>
                /\ here.at < Len(src)
                /\ Reads(reads[here.at], At(src, here.at)) = Closed(reads[here.at])
                /\ reads[here.at].open = Append(open, Square) /\ ~reads[here.at].high
          /\ here.ok /\ At(src, here.at) # SquareEnd /\ ~first.ok => Fails(src, reads)
          /\ here.ok /\ At(src, here.at) # SquareEnd /\ first.ok =>
                /\ first.at >= o /\ first.at < Len(src) /\ At(src, first.at) \notin Space
                /\ reads[first.at].mode = "value" /\ ~reads[first.at].high
                /\ reads[first.at].open = Append(open, Square)
      <3>1. here = json_skip_all_skippables(src, Started(o)) /\ first = BehindNext(src, here)
        OBVIOUS
      <3>2. "value" \in {"member", "value"}
        OBVIOUS
      <3> HIDE DEF here, first
      <3> QED
        BY <1>1, <1>5, <2>1, <3>1, <3>2, CommaMeets, SMTT(60)
    <2> HIDE DEF here, first, closed
    <2>3. CASE ~here.ok
      <3>1. ~Through(src, more)
        BY <1>3, <2>3 DEF Through, Refused
      <3> QED
        BY <2>2, <2>3, <3>1 DEF Meets
    <2>4. CASE here.ok /\ At(src, here.at) = SquareEnd
      <3>1. Meets(src, reads, closed, open)
        BY <1>1, <1>2, <2>2, <2>4, ClosingMeets DEF closed
      <3> QED
        BY <1>3, <2>4, <3>1
    <2>5. CASE here.ok /\ At(src, here.at) # SquareEnd
      <3>1. ~first.ok => Fails(src, reads)
        BY <2>2, <2>5
      <3>2. first.ok => /\ first.at >= o /\ first.at < Len(src) /\ At(src, first.at) \notin Space
                        /\ reads[first.at].mode \in {"value", "array"} /\ ~reads[first.at].high
                        /\ reads[first.at].mode = "array" => At(src, first.at) # SquareEnd
                        /\ reads[first.at].open = Append(open, Square)
        BY <2>2, <2>5
      <3>3. Meets(src, reads, AfterElement(calls, ElementSize(calls, first)), open)
        BY <2>2, <3>1, <3>2, NextElement
      <3> QED
        BY <1>3, <2>5, <3>3
    <2> QED
      BY <2>3, <2>4, <2>5
  <1> QED
    BY <1>4, <1>5
-----------------------------------------------------------------------------
(* The last turn changes nothing anywhere: what it calls is itself.        *)
LEMMA LastTurn ==
    ASSUME NEW src \in Texts, NEW calls, calls = Sizing(src)[Turns(src)], NEW o \in Nat
    PROVE  /\ calls.value[o] = json_get_value_size(src, calls, Started(o))
           /\ \A high \in Nat : calls.string[o][high] = StringSize(src, calls.string, o, high)
           /\ \A comma \in BOOLEAN :
                 /\ calls.members[o][comma] = ObjectSize(src, calls, Started(o), comma)
                 /\ calls.elements[o][comma] = ArraySize(src, calls, Started(o), comma)
  <1> DEFINE k == Turns(src)
             next == Sizing(src)[k + 1]
  <1>1. Len(src) \in Nat /\ k \in Nat
    BY DEF Texts, Turns
  <1>2. 2 * Len(src) <= k + 2 * o /\ 2 * Len(src) < k + 2 * o
    BY <1>1 DEF Turns
  <1>3. Settled(src, k)
    BY <1>1, SettledAlways
  <1>4. /\ calls.value[o] = next.value[o]
        /\ \A high \in Nat : calls.string[o][high] = next.string[o][high]
        /\ \A comma \in BOOLEAN : /\ calls.members[o][comma] = next.members[o][comma]
                                  /\ calls.elements[o][comma] = next.elements[o][comma]
    BY <1>2, <1>3 DEF Settled
  <1>5. next = SizeTurn(src, calls)
    <2>1. k + 1 \in Nat /\ k + 1 # 0 /\ (k + 1) - 1 = k
      BY <1>1
    <2> HIDE DEF k
    <2>2. Sizing(src)[k + 1] = SizeTurn(src, Sizing(src)[k])
      BY <2>1, SizingTurns
    <2> QED
      BY <2>2 DEF k
  <1> HIDE DEF k, next
  <1>6. /\ next.value[o] = json_get_value_size(src, calls, Started(o))
        /\ \A high \in Nat : next.string[o][high] = StringSize(src, calls.string, o, high)
        /\ \A comma \in BOOLEAN :
              /\ next.members[o][comma] = ObjectSize(src, calls, Started(o), comma)
              /\ next.elements[o][comma] = ArraySize(src, calls, Started(o), comma)
    BY <1>5 DEF SizeTurn
  <1> QED
    BY <1>4, <1>6

(* So the first pass is what the grammar reads, from every place on.       *)
LEMMA AllMet ==
    ASSUME NEW src \in Texts, NEW reads, Run(src, reads),
           NEW calls, calls = Sizing(src)[Turns(src)], NEW o \in Nat
    PROVE  PartsMet(src, reads, calls, o) /\ ValueMet(src, reads, calls, o)
  <1> DEFINE Met(p) == PartsMet(src, reads, calls, p) /\ ValueMet(src, reads, calls, p)
             S == {n \in Nat : \A p \in Nat : p + n > Len(src) => Met(p)}
  <1>1. Len(src) \in Nat
    BY DEF Texts
  <1>2. Advancing(calls)
    <2>1. Turns(src) \in Nat
      BY <1>1 DEF Turns
    <2> QED
      BY <2>1, SizingAdvances
  <1>3. \A p, high \in Nat : calls.string[p][high] \in State
    BY <1>2, CallsReturn
  <1>4. 0 \in S
    <2> SUFFICES ASSUME NEW p \in Nat, p + 0 > Len(src) PROVE Met(p)
      OBVIOUS
    <2>1. ~(p <= Len(src))
      BY <1>1
    <2> QED
      BY <2>1 DEF PartsMet, StringMet, MembersMet, ElementsMet, RestMet, ValueMet
  <1>5. ASSUME NEW n \in S PROVE n + 1 \in S
    <2> SUFFICES ASSUME NEW p \in Nat, p + (n + 1) > Len(src) PROVE Met(p)
      OBVIOUS
    <2>1. ASSUME NEW q \in Nat, q > p PROVE Met(q)
      <3>1. q + n > Len(src)
        BY <1>1, <2>1
      <3> QED
        BY <3>1
    <2>2. /\ \A q \in Nat : q > p => PartsMet(src, reads, calls, q)
          /\ \A q \in Nat : q > p => ValueMet(src, reads, calls, q)
      BY <2>1
    <2>3. StringMet(src, reads, calls.string, p)
      <3>1. \A q \in Nat : q > p => StringMet(src, reads, calls.string, q)
        BY <2>2 DEF PartsMet
      <3>2. \A high \in Nat : calls.string[p][high] = StringSize(src, calls.string, p, high)
        BY LastTurn
      <3> DEFINE string == calls.string
      <3>3. /\ \A q, high \in Nat : string[q][high] \in State
            /\ \A q \in Nat : q > p => StringMet(src, reads, string, q)
            /\ \A high \in Nat : string[p][high] = StringSize(src, string, p, high)
        BY <1>3, <3>1, <3>2
      <3> HIDE DEF string
      <3>4. StringMet(src, reads, string, p)
        BY <3>3, StringMeets
      <3> QED
        BY <3>4 DEF string
    <2>4. ValueMet(src, reads, calls, p)
      <3>1. calls.value[p] = json_get_value_size(src, calls, Started(p))
        BY LastTurn
      <3> QED
        BY <1>2, <2>2, <3>1, ValueMeets
    <2>5. MembersMet(src, reads, calls, p)
      <3>1. \A comma \in BOOLEAN :
               calls.members[p][comma] = ObjectSize(src, calls, Started(p), comma)
        BY LastTurn
      <3> QED
        BY <1>2, <2>2, <3>1, MembersMeets
    <2>6. ElementsMet(src, reads, calls, p)
      <3>1. \A comma \in BOOLEAN :
               calls.elements[p][comma] = ArraySize(src, calls, Started(p), comma)
        BY LastTurn
      <3>2. \A q \in Nat : q >= p => ValueMet(src, reads, calls, q)
        <4>1. \A q \in Nat : q >= p => q = p \/ q > p
          OBVIOUS
        <4> QED
          BY <2>2, <2>4, <4>1
      <3> QED
        BY <1>2, <2>2, <3>1, <3>2, ElementsMeets
    <2> QED
      BY <2>3, <2>4, <2>5, <2>6 DEF PartsMet
  <1> HIDE DEF S
  <1>6. S = Nat
    BY <1>4, <1>5, AllNaturals DEF S
  <1>7. Len(src) + 1 \in S /\ o + (Len(src) + 1) > Len(src)
    BY <1>1, <1>6
  <1> QED
    BY <1>7 DEF S

(* The first pass accepts a text exactly when the grammar does, but for a  *)
(* minus sign that ends it, whatever the text (json.h:1230-1241,           *)
(* 2093-2099).                                                             *)
THEOREM AcceptsJsonOnTexts ==
    ASSUME NEW src \in Texts
    PROVE  Sizes(src).ok <=> Accepts(ReadsAll(NothingYet, src))
  <1> DEFINE calls == Sizing(src)[Turns(src)]
             value == calls.value[0]
             end == json_skip_whitespace(src, value.at)
  <1>1. Len(src) \in Nat /\ 0 \in Nat /\ Turns(src) \in Nat /\ 0 <= Len(src)
    BY DEF Texts, Turns
  <1>2. PICK reads : RunFrom(reads, NothingYet, src) /\ reads[Len(src)] = ReadsAll(NothingYet, src)
    BY RunExists
  <1>3. Run(src, reads)
    BY <1>2, RunReadings
  <1>4. reads[0].mode = "value" /\ reads[0].open = <<>> /\ ~reads[0].high
    BY <1>2 DEF RunFrom, NothingYet
  <1>5. Meets(src, reads, value, <<>>)
    <2>1. ValueMet(src, reads, calls, 0)
      BY <1>1, <1>3, AllMet
    <2> HIDE DEF calls
    <2> QED
      BY <1>1, <1>4, <2>1 DEF ValueMet
  <1>6. value \in State
    BY <1>1, SizingAdvances, CallsReturn
  <1>7. Sizes(src).ok <=> value.ok /\ end = Len(src)
    <2>1. Sizes(src) = IF value.ok /\ end = Len(src) THEN value ELSE Refused
      BY DEF Sizes, AtEnd
    <2>2. value.ok \in BOOLEAN
      BY <1>6 DEF State
    <2> HIDE DEF value, end
    <2> QED
      BY <2>1, <2>2 DEF Refused
  <1>8. value.at \in Nat
    BY <1>6 DEF State
  <1> HIDE DEF value
  <1>9. end \in Nat /\ end >= value.at /\ At(src, end) \notin Space
    BY <1>8, Blanks
  <1>10. CASE ~Through(src, value)
    <2>1. Fails(src, reads)
      BY <1>5, <1>10 DEF Meets
    <2>2. ~Sizes(src).ok
      BY <1>1, <1>7, <1>8, <1>9, <1>10 DEF Through
    <2> QED
      BY <1>2, <2>1, <2>2 DEF Fails
  <1>11. CASE Through(src, value)
    <2>1. value.ok /\ value.at <= Len(src) /\ ValueEnded(src, reads, value.at, <<>>)
      BY <1>5, <1>11 DEF Meets, Through
    <2>2. ValueEnded(src, reads, end, <<>>)
      BY <1>3, <1>8, <2>1, EndedBlanks
    <2>3. end <= Len(src)
      BY <1>8, <2>1, Blanks
    <2> HIDE DEF end
    <2>4. CASE end = Len(src)
      <3>1. Accepts(reads[end])
        BY <2>2 DEF ValueEnded, Accepts, Complete
      <3> QED
        BY <1>2, <1>7, <2>1, <2>4, <3>1
    <2>5. CASE end # Len(src)
      <3> DEFINE r == reads[end]
      <3>1. end < Len(src) /\ end + 1 \in Nat /\ end + 1 <= Len(src)
        BY <1>1, <1>9, <2>3, <2>5
      <3>2. r \in Readings
        BY <1>3, <1>9, <2>3 DEF Run
      <3>3. r.open = <<>>
        BY <2>2 DEF ValueEnded
      <3>4. reads[end + 1] = AfterValue(r, At(src, end))
        BY <1>3, <1>9, <2>2, <3>1, EndedNext
      <3> HIDE DEF r
      <3>5. AfterValue(r, At(src, end)) = Stuck(r)
        BY <1>9, <3>2, <3>3, AfterValueIs
      <3>6. reads[end + 1].mode = "stuck"
        BY <3>2, <3>4, <3>5, StuckReadings DEF OnlyMode
      <3>7. Fails(src, reads)
        BY <1>3, <3>1, <3>6, StuckFails
      <3> QED
        BY <1>2, <1>7, <2>5, <3>7 DEF Fails
    <2> QED
      BY <2>4, <2>5
  <1> QED
    BY <1>10, <1>11
-----------------------------------------------------------------------------
(* What the model reads of its text is what the grammar makes of it.       *)
LEMMA ReadingIsRead == Spec => [](text \in Texts /\ reading = ReadsAll(NothingYet, text))
  <1> DEFINE Inv == text \in Texts /\ reading = ReadsAll(NothingYet, text)
             vars == <<text, reading, chunks, said, packet>>
  <1>1. Init => Inv
    <2> SUFFICES ASSUME Init PROVE Inv
      OBVIOUS
    <2>1. text = <<>> /\ reading = NothingYet /\ text \in Texts /\ Len(text) = 0
      BY DEF Init, Texts
    <2>2. PICK reads : RunFrom(reads, NothingYet, text)
                          /\ reads[Len(text)] = ReadsAll(NothingYet, text)
      BY <2>1, RunExists
    <2> QED
      BY <2>1, <2>2 DEF RunFrom
  <1>2. Inv /\ [Next]_vars => Inv'
    <2> SUFFICES ASSUME Inv, [Next]_vars PROVE Inv'
      OBVIOUS
    <2>1. ASSUME NEW chunk, Chars(chunk) \in Texts, Extend(chunk) PROVE Inv'
      <3>1. text' = text \o Chars(chunk) /\ reading' = ReadsAll(reading, Chars(chunk))
        BY <2>1 DEF Extend
      <3>2. text' \in Texts
        BY <2>1, <3>1 DEF Texts
      <3>3. reading' = ReadsAll(NothingYet, text')
        BY <2>1, <3>1, ReadsParts
      <3> QED
        BY <3>2, <3>3
    <2>2. ASSUME NEW chunk \in Structural, OutsideString(chunk) PROVE Inv'
      BY <2>1, <2>2, ChunksAreTexts DEF OutsideString
    <2>3. ASSUME NEW chunk \in DOMAIN Means, InsideString(chunk) PROVE Inv'
      BY <2>1, <2>3, ChunksAreTexts DEF InsideString
    <2>4. CASE CloseString
      BY <2>1, <2>4, ChunksAreTexts DEF CloseString
    <2>5. ASSUME NEW p \in Packets, Build(p) PROVE Inv'
      BY <2>5, PacketsAreTexts DEF Build
    <2>6. CASE UNCHANGED vars
      BY <2>6
    <2> QED
      BY <2>2, <2>3, <2>4, <2>5, <2>6 DEF Next
  <1> QED
    BY <1>1, <1>2, PTL DEF Spec

(* The second pass takes every text of the model apart as the first did    *)
(* and fills the DOM exactly (json.h:2113-2164).                           *)
THEOREM PassesAgreeCorrect == Spec => []PassesAgree
  <1>1. text \in Texts => PassesAgree
    BY PassesAgreeOnTexts DEF PassesAgree
  <1> QED
    BY <1>1, ReadingIsRead, PTL

(* The characters of every text of the model fit in what was counted for   *)
(* them (json.h:850-854, 1337-1340).                                       *)
THEOREM DataFitsCorrect == Spec => []DataFits
  <1>1. text \in Texts => DataFits
    BY PassesAgreeOnTexts DEF DataFits
  <1> QED
    BY <1>1, ReadingIsRead, PTL

(* json_parse accepts of the texts of the model the JSON texts and no      *)
(* other, but for a minus sign that ends the text (json.h:1230-1241,       *)
(* 2093-2099).                                                             *)
THEOREM AcceptsJsonCorrect == Spec => []AcceptsJson
  <1>1. text \in Texts /\ reading = ReadsAll(NothingYet, text) => AcceptsJson
    BY AcceptsJsonOnTexts DEF AcceptsJson, Accepts
  <1> QED
    BY <1>1, ReadingIsRead, PTL
=============================================================================
