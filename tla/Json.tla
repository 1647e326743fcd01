-------------------------------- MODULE Json --------------------------------
(***************************************************************************)
(* json_parse of res/json.h, with the flags it passes (none: the branches  *)
(* of the other dialects are never taken).  The text is read twice.  The   *)
(* first pass decides whether it is JSON and adds up the memory it takes;  *)
(* one allocation follows; the second pass trusts the first, checks        *)
(* nothing and writes the values (the DOM) and behind them the characters  *)
(* (the data).                                                             *)
(*                                                                         *)
(* A text is a sequence of characters, a character a string of length one. *)
(* An offset counts from 0.  Where C would read past the text, At is       *)
(* Outside, which is no character.                                         *)
(*                                                                         *)
(* What calls itself in C is here a record of functions of the offset,     *)
(* `calls': the rest of a string, a value, the rest of an object and the   *)
(* rest of an array from there on.  Turn is that record when every call,   *)
(* and every further round of a loop, is one of the `calls' it is given;   *)
(* Sizing and Reading take as many turns as a text can need.               *)
(***************************************************************************)
EXTENDS Integers, Sequences, SequencesExt

Chars(s) == [i \in 1 .. Len(s) |-> SubSeq(s, i, i)]

Outside == "outside"
Nul == "NUL"                    \* the character of code 0

At(src, offset) == IF offset < Len(src) THEN src[offset + 1] ELSE Outside
Starts(src, offset, word) ==
    \A i \in 1 .. Len(word) : At(src, offset + i - 1) = word[i]

Space == {" ", "\r", "\t", "\n"}
Digit == {"0", "1", "2", "3", "4", "5", "6", "7", "8", "9"}
Escapes == {"\"", "\\", "/", "b", "f", "n", "r", "t"}       \* and \u

(* The first offset from there on whose character is not of the set.       *)
PastRun(src, offset, set) ==
    CHOOSE end \in offset .. offset + Len(src) :
        /\ At(src, end) \notin set
        /\ \A o \in offset .. end - 1 : At(src, o) \in set

HexDigits ==
    <<"0", "1", "2", "3", "4", "5", "6", "7", "8", "9",
      "a", "b", "c", "d", "e", "f", "A", "B", "C", "D", "E", "F">>

json_hexadecimal_digit ==
    [c \in ToSet(HexDigits) |->
        LET place == CHOOSE i \in DOMAIN HexDigits : HexDigits[i] = c
        IN  IF place > 16 THEN place - 7 ELSE place - 1]

(* The value of the four characters from there on, or -1.                  *)
json_hexadecimal_value(src, offset) ==
    LET digit(i) == json_hexadecimal_digit[At(src, offset + i)]
    IN  IF \A i \in 0 .. 3 : At(src, offset + i) \in ToSet(HexDigits)
        THEN 4096 * digit(0) + 256 * digit(1) + 16 * digit(2) + digit(3)
        ELSE -1

HighSurrogate(codepoint) == 55296 <= codepoint /\ codepoint <= 56319
LowSurrogate(codepoint) == 56320 <= codepoint /\ codepoint <= 57343

(* What a `high' holds once a codepoint is read: a high surrogate waits.   *)
Waiting(codepoint) == IF HighSurrogate(codepoint) THEN codepoint ELSE 0

WordText ==
    [true  |-> <<"t", "r", "u", "e">>,
     false |-> <<"f", "a", "l", "s", "e">>,
     null  |-> <<"n", "u", "l", "l">>]

Word(src, offset) ==
    CASE Starts(src, offset, WordText["true"])  -> "true"
      [] Starts(src, offset, WordText["false"]) -> "false"
      [] Starts(src, offset, WordText["null"])  -> "null"
      [] OTHER -> ""

(* sizeof the structures: two words each, the element of an object three.  *)
Struct == 16
ElementOfObject == 24
ElementOfArray == 16

(* No call and no round of a loop goes deeper: of two calls in a row, one  *)
(* is a character further on.                                              *)
Turns(src) == 2 * Len(src) + 2

-----------------------------------------------------------------------------
(* First pass.  A state is [ok, at, dom, data]: the offset and the bytes   *)
(* counted since Started, for the DOM and for the data.                    *)

Started(offset) == [ok |-> TRUE, at |-> offset, dom |-> 0, data |-> 0]
Refused == [ok |-> FALSE, at |-> 0, dom |-> 0, data |-> 0]

More(st, dom, data) ==
    IF st.ok THEN [st EXCEPT !.dom = @ + dom, !.data = @ + data] ELSE Refused

(* The state behind a part that starts where `st' is.                      *)
Then(st, part) == IF st.ok THEN More(part, st.dom, st.data) ELSE Refused

json_skip_whitespace(src, offset) == PastRun(src, offset, Space)

(* Refused when nothing follows.  An offset beyond the end is not noticed. *)
json_skip_all_skippables(src, st) ==
    LET offset == json_skip_whitespace(src, st.at)
    IN  IF ~st.ok \/ offset = Len(src) THEN Refused ELSE [st EXCEPT !.at = offset]

Expect(src, st, char) ==
    IF st.ok /\ At(src, st.at) = char THEN [st EXCEPT !.at = @ + 1] ELSE Refused

(***************************************************************************)
(* The bytes that \uXXXX takes beyond the one counted for every character; *)
(* `high' is the high surrogate that waits for its low half, or 0.         *)
(***************************************************************************)
MoreBytesOneForLowHalf(codepoint, high) ==
    CASE codepoint <= 127 -> 0
      [] 127 < codepoint /\ codepoint <= 2047 -> 1
      [] HighSurrogate(codepoint) -> 0
      [] LowSurrogate(codepoint) -> 1
      [] OTHER -> 2

MoreBytes(codepoint, high) ==
    CASE high # 0 -> 3
      [] high = 0 /\ codepoint <= 127 -> 0
      [] high = 0 /\ 127 < codepoint /\ codepoint <= 2047 -> 1
      [] high = 0 /\ HighSurrogate(codepoint) -> 0
      [] OTHER -> 2

(* A \uXXXX whose `u' is at the offset: a low half follows a high one and  *)
(* nothing else, and the text has one character more.                      *)
ValidUnicode(src, offset, codepoint, high) ==
    /\ offset + 5 < Len(src)
    /\ codepoint # -1
    /\ high # 0 <=> LowSurrogate(codepoint)
    /\ HighSurrogate(codepoint) =>
          offset + 11 <= Len(src) /\ Starts(src, offset + 5, <<"\\", "u">>)

(* The rest of a string, from the offset to behind the closing quote.      *)
UnicodeSize(src, string, offset, high, codepoint) ==
    IF ValidUnicode(src, offset, codepoint, high)
    THEN More(string[offset + 5][Waiting(codepoint)], 0, 1 + MoreBytes(codepoint, high))
    ELSE Refused

StringSize(src, string, offset, high) ==
    LET c == At(src, offset)
        escape == At(src, offset + 1)
    IN  CASE c = "\"" -> More(Started(offset + 1), 0, 1)
          [] c \in {Outside, Nul, "\t", "\r", "\n"} -> Refused
          [] c = "\\" /\ escape \in Escapes -> More(string[offset + 2][high], 0, 1)
          [] c = "\\" /\ escape = "u" ->
                UnicodeSize(src, string, offset + 1, high,
                            json_hexadecimal_value(src, offset + 2))
          [] c = "\\" /\ escape \notin Escapes \cup {"u"} -> Refused
          [] OTHER -> More(string[offset + 1][high], 0, 1)

json_get_string_size(src, calls, st) ==
    IF st.ok /\ At(src, st.at) = "\""
    THEN Then(More(st, Struct, 0), calls.string[st.at + 1][0])
    ELSE Refused

(***************************************************************************)
(* A sign that ends the text passes for a number.  The loop over the       *)
(* digits of an exponent skips the first of them unseen, also when the     *)
(* text has ended, and then the offset is beyond the end.                  *)
(***************************************************************************)
json_get_number_size(src, st) ==
    LET sign == IF At(src, st.at) = "-" THEN st.at + 1 ELSE st.at
        zero == IF At(src, sign) = "0" THEN sign + 1 ELSE sign
        int  == PastRun(src, zero, Digit)
        frac == IF At(src, int) = "." THEN PastRun(src, int + 1, Digit) ELSE int
        mark == IF At(src, frac + 1) \in {"-", "+"} THEN frac + 2 ELSE frac + 1
        end  == IF At(src, frac) \in {"e", "E"} THEN PastRun(src, mark + 1, Digit) ELSE frac
        valid ==
            /\ At(src, st.at) = "-" => At(src, sign) \in Digit \cup {Outside}
            /\ At(src, sign) = "0" => At(src, zero) \notin Digit
            /\ At(src, int) = "." => At(src, int + 1) \in Digit
            /\ At(src, frac) \in {"e", "E"} => At(src, mark) \in Digit \cup {Outside}
            /\ At(src, end) \in Space \cup {"}", ",", "]", Outside}
    IN  IF valid
        THEN More([st EXCEPT !.at = end], Struct, end - st.at + 1)
        ELSE Refused

MemberSize(src, calls, st) ==
    LET key == json_get_string_size(src, calls, st)
        colon == Expect(src, json_skip_all_skippables(src, key), ":")
        value == json_skip_all_skippables(src, colon)
    IN  Then(More(value, ElementOfObject, 0), calls.value[value.at])

(* An object that ends with an offset beyond the end of the text is let    *)
(* through.                                                                *)
AfterMember(src, calls, st) ==
    CASE ~st.ok \/ st.at = Len(src) -> Refused
      [] st.ok /\ st.at > Len(src) -> st
      [] st.ok /\ st.at < Len(src) -> Then(st, calls.members[st.at][TRUE])

(* The members from `here' on; `comma' is set behind a member.             *)
PastComma(src, here, comma) ==
    IF comma THEN json_skip_all_skippables(src, Expect(src, here, ",")) ELSE here

MembersSize(src, calls, here, comma) ==
    IF here.ok /\ At(src, here.at) = "}"
    THEN [here EXCEPT !.at = @ + 1]
    ELSE AfterMember(src, calls, MemberSize(src, calls, PastComma(src, here, comma)))

ObjectSize(src, calls, st, comma) ==
    MembersSize(src, calls, json_skip_all_skippables(src, st), comma)

json_get_object_size(src, calls, st) ==
    LET object == More(Expect(src, st, "{"), Struct, 0)
    IN  Then(object, calls.members[object.at][FALSE])

ElementSize(calls, st) == Then(More(st, ElementOfArray, 0), calls.value[st.at])

AfterElement(calls, st) == Then(st, calls.elements[st.at][TRUE])

ElementsSize(src, calls, here, comma) ==
    CASE ~here.ok \/ here.at >= Len(src) -> Refused
      [] here.ok /\ At(src, here.at) = "]" -> [here EXCEPT !.at = @ + 1]
      [] here.ok /\ At(src, here.at) \notin {"]", Outside} ->
            AfterElement(calls, ElementSize(calls, PastComma(src, here, comma)))

ArraySize(src, calls, st, comma) ==
    ElementsSize(src, calls, json_skip_all_skippables(src, st), comma)

json_get_array_sizeElementsOnly(src, calls, st) ==
    LET array == Expect(src, st, "[")
    IN  Then(array, calls.elements[array.at][FALSE])

json_get_array_size(src, calls, st) ==
    LET array == More(Expect(src, st, "["), Struct, 0)
    IN  Then(array, calls.elements[array.at][FALSE])

PastWord(st, word) ==
    IF word # "" THEN [st EXCEPT !.at = @ + Len(WordText[word])] ELSE Refused

ValueSize(src, calls, here) ==
    LET c == At(src, here.at)
    IN  CASE ~here.ok -> Refused
          [] here.ok /\ c = "\"" -> json_get_string_size(src, calls, here)
          [] here.ok /\ c = "{" -> json_get_object_size(src, calls, here)
          [] here.ok /\ c = "[" -> json_get_array_size(src, calls, here)
          [] here.ok /\ c \in Digit \cup {"-"} -> json_get_number_size(src, here)
          [] OTHER -> PastWord(here, Word(src, here.at))

json_get_value_size(src, calls, st) ==
    ValueSize(src, calls, More(json_skip_all_skippables(src, st), Struct, 0))

SizeTurn(src, calls) ==
    [string   |-> [offset \in Nat |-> [high \in Nat |->
                      StringSize(src, calls.string, offset, high)]],
     value    |-> [offset \in Nat |-> json_get_value_size(src, calls, Started(offset))],
     members  |-> [offset \in Nat |-> [comma \in BOOLEAN |->
                      ObjectSize(src, calls, Started(offset), comma)]],
     elements |-> [offset \in Nat |-> [comma \in BOOLEAN |->
                      ArraySize(src, calls, Started(offset), comma)]]]

NoSizes ==
    [string   |-> [offset \in Nat |-> [high \in Nat |-> Refused]],
     value    |-> [offset \in Nat |-> Refused],
     members  |-> [offset \in Nat |-> [comma \in BOOLEAN |-> Refused]],
     elements |-> [offset \in Nat |-> [comma \in BOOLEAN |-> Refused]]]

Sizing(src) ==
    LET sizing[n \in Nat] == IF n = 0 THEN NoSizes ELSE SizeTurn(src, sizing[n - 1])
    IN  sizing

SizesOfFirstValue(src) == Sizing(src)[Turns(src)].value[0]

(* The first pass as a whole: nothing but blanks may follow the value.     *)
AtEnd(src, st) ==
    IF st.ok /\ json_skip_whitespace(src, st.at) = Len(src) THEN st ELSE Refused

Sizes(src) == AtEnd(src, Sizing(src)[Turns(src)].value[0])

-----------------------------------------------------------------------------
(***************************************************************************)
(* Second pass.  What a part of the text is read to is [at, dom, data,     *)
(* val]: the offset behind it, the bytes of the DOM taken for it, the      *)
(* characters written for it, and its value.                               *)
(***************************************************************************)
Done(at, dom, data, val) == [at |-> at, dom |-> dom, data |-> data, val |-> val]

Letters == Chars("abcdefghijklmnopqrstuvwxyz")
Capitals == Chars("ABCDEFGHIJKLMNOPQRSTUVWXYZ")
Figures == Chars(" !\"#$%&'()*+,-./0123456789:;<=>?@")

(* The character of a byte; one without a name here is named by its code.  *)
Byte(code) ==
    CASE code = 0 -> Nul
      [] code = 9 -> "\t"
      [] code = 10 -> "\n"
      [] code = 12 -> "\f"
      [] code = 13 -> "\r"
      [] code \in 32 .. 64 -> Figures[code - 31]
      [] code \in 65 .. 90 -> Capitals[code - 64]
      [] code = 92 -> "\\"
      [] code \in 97 .. 122 -> Letters[code - 96]
      [] OTHER -> "byte " \o ToString(code)

Utf8(codepoint) ==
    LET Six(shift) == Byte(128 + ((codepoint \div shift) % 64))
    IN  CASE codepoint <= 127 -> <<Byte(codepoint)>>
          [] 127 < codepoint /\ codepoint <= 2047 ->
                <<Byte(192 + codepoint \div 64), Six(1)>>
          [] 2047 < codepoint /\ codepoint <= 65535 ->
                <<Byte(224 + codepoint \div 4096), Six(64), Six(1)>>
          [] OTHER ->
                <<Byte(240 + codepoint \div 262144), Six(4096), Six(64), Six(1)>>

JoinedInFirstPlane(high, low) == (high - 55296) * 1024 + (low - 56320)

Joined(high, low) == 65536 + (high - 55296) * 1024 + (low - 56320)

UnicodeText(codepoint, high) ==
    CASE HighSurrogate(codepoint) -> <<>>
      [] LowSurrogate(codepoint) -> Utf8(Joined(high, codepoint))
      [] OTHER -> Utf8(codepoint)

EscapedChar(c) ==
    CASE c = "b" -> Byte(8)
      [] c = "f" -> "\f"
      [] c = "n" -> "\n"
      [] c = "r" -> "\r"
      [] c = "t" -> "\t"
      [] OTHER -> c

(* The rest of a string as [at, text].  Here and below the guard against   *)
(* Outside is the model's: in C the loop would run on behind the text.     *)
Behind(text, rest) == [at |-> rest.at, text |-> text \o rest.text]

StringText(src, string, offset, high) ==
    LET c == At(src, offset)
        escape == At(src, offset + 1)
        codepoint == json_hexadecimal_value(src, offset + 2)
    IN  CASE c \in {"\"", Outside} -> [at |-> offset + 1, text |-> <<>>]
          [] c = "\\" /\ escape = "u" ->
                Behind(UnicodeText(codepoint, high), string[offset + 6][Waiting(codepoint)])
          [] c = "\\" /\ escape # "u" ->
                Behind(<<EscapedChar(escape)>>, string[offset + 2][high])
          [] OTHER -> Behind(<<c>>, string[offset + 1][high])

json_parse_string(calls, here) ==
    LET string == calls.string[here + 1][0]
    IN  Done(string.at, Struct, Append(string.text, Nul),
             [type |-> "string", text |-> string.text])

json_parse_number(src, here) ==
    LET end == PastRun(src, here, Digit \cup {".", "e", "E", "+", "-"})
        text == SubSeq(src, here + 1, end)
    IN  Done(end, Struct, Append(text, Nul), [type |-> "number", text |-> text])

(* Behind a member or an element a comma is stepped over.                  *)
BehindComma(src, here, comma) ==
    IF comma /\ At(src, here) = "," THEN json_skip_whitespace(src, here + 1) ELSE here

MemberRead(src, calls, here) ==
    LET key == json_parse_string(calls, here)
        colon == json_skip_whitespace(src, key.at)
        value == calls.value[json_skip_whitespace(src, colon + 1)]
        rest == calls.members[value.at][TRUE]
        member == [name |-> key.val.text, value |-> value.val]
    IN  Done(rest.at, ElementOfObject + key.dom + Struct + value.dom + rest.dom,
             key.data \o value.data \o rest.data, <<member>> \o rest.val)

MembersFrom(src, calls, here) ==
    CASE At(src, here) = Outside -> Done(here, 0, <<>>, <<>>)
      [] At(src, here) = "}" -> Done(here + 1, 0, <<>>, <<>>)
      [] OTHER -> MemberRead(src, calls, here)

ObjectMembers(src, calls, offset, comma) ==
    MembersFrom(src, calls, BehindComma(src, json_skip_whitespace(src, offset), comma))

json_parse_object(calls, here) ==
    LET members == calls.members[here + 1][FALSE]
    IN  Done(members.at, Struct + members.dom, members.data,
             [type |-> "object", members |-> members.val])

ElementRead(calls, here) ==
    LET value == calls.value[here]
        rest == calls.elements[value.at][TRUE]
    IN  Done(rest.at, ElementOfArray + Struct + value.dom + rest.dom,
             value.data \o rest.data, <<value.val>> \o rest.val)

ElementsFrom(src, calls, here) ==
    CASE At(src, here) = Outside -> Done(here, 0, <<>>, <<>>)
      [] At(src, here) = "]" -> Done(here + 1, 0, <<>>, <<>>)
      [] OTHER -> ElementRead(calls, here)

ArrayElements(src, calls, offset, comma) ==
    ElementsFrom(src, calls, BehindComma(src, json_skip_whitespace(src, offset), comma))

json_parse_array(calls, here) ==
    LET elements == calls.elements[here + 1][FALSE]
    IN  Done(elements.at, Struct + elements.dom, elements.data,
             [type |-> "array", elements |-> elements.val])

WordRead(here, word) ==
    Done(here + IF word = "" THEN 0 ELSE Len(WordText[word]), 0, <<>>, [type |-> word])

ValueRead(src, calls, here) ==
    LET c == At(src, here)
    IN  CASE c = "\"" -> json_parse_string(calls, here)
          [] c = "{" -> json_parse_object(calls, here)
          [] c = "[" -> json_parse_array(calls, here)
          [] c \in Digit \cup {"-", "+", "."} -> json_parse_number(src, here)
          [] OTHER -> WordRead(here, Word(src, here))

json_parse_value(src, calls, offset) ==
    ValueRead(src, calls, json_skip_whitespace(src, offset))

ReadTurn(src, calls) ==
    [string   |-> [offset \in Nat |-> [high \in Nat |->
                      StringText(src, calls.string, offset, high)]],
     value    |-> [offset \in Nat |-> json_parse_value(src, calls, offset)],
     members  |-> [offset \in Nat |-> [comma \in BOOLEAN |->
                      ObjectMembers(src, calls, offset, comma)]],
     elements |-> [offset \in Nat |-> [comma \in BOOLEAN |->
                      ArrayElements(src, calls, offset, comma)]]]

NoPart == Done(0, 0, <<>>, <<>>)

NoReads ==
    [string   |-> [offset \in Nat |-> [high \in Nat |-> [at |-> 0, text |-> <<>>]]],
     value    |-> [offset \in Nat |-> NoPart],
     members  |-> [offset \in Nat |-> [comma \in BOOLEAN |-> NoPart]],
     elements |-> [offset \in Nat |-> [comma \in BOOLEAN |-> NoPart]]]

Reading(src) ==
    LET reading[n \in Nat] == IF n = 0 THEN NoReads ELSE ReadTurn(src, reading[n - 1])
    IN  reading

(* The second pass as a whole; the structure of the value itself is taken  *)
(* before.                                                                 *)
Written(src) ==
    LET value == Reading(src)[Turns(src)].value[0]
    IN  Done(value.at, Struct + value.dom, value.data, value.val)

-----------------------------------------------------------------------------
NotJson == [type |-> "not JSON"]

json_parse(src) == IF Sizes(src).ok THEN Written(src).val ELSE NotJson
=============================================================================
