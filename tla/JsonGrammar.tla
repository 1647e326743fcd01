---------------------------- MODULE JsonGrammar ----------------------------
(***************************************************************************)
(* What json.h promises to accept: JSON as ECMA-404 (which json.h:523      *)
(* names) defines it, read one character at a time.  Two limits of json.h  *)
(* are part of the promise: only NUL, TAB, CR and LF are refused inside a  *)
(* string (json.h:717-724, 825-831), and a surrogate must have its other   *)
(* half (json.h:783-815).                                                  *)
(*                                                                         *)
(* A reading has a mode, the open brackets (the last is innermost) and the *)
(* characters of the word or escape being read.                            *)
(***************************************************************************)
EXTENDS Json

NothingYet == [mode |-> "value", open |-> <<>>, part |-> <<>>, key |-> FALSE, high |-> FALSE]

In(r, mode) == [r EXCEPT !.mode = mode]
Stuck(r) == In(r, "stuck")
Inside(r, bracket) == r.open # <<>> /\ Last(r.open) = bracket
Opened(r, bracket, mode) == [r EXCEPT !.open = Append(@, bracket), !.mode = mode]
Closed(r) == [r EXCEPT !.open = Front(@), !.mode = "after"]
Quoted(r, key) == [r EXCEPT !.mode = "string", !.key = key]

ValueStarts(r, c) ==
    CASE c = "\"" -> Quoted(r, FALSE)
      [] c = "{" -> Opened(r, "{", "object")
      [] c = "[" -> Opened(r, "[", "array")
      [] c = "-" -> In(r, "minus")
      [] c = "0" -> In(r, "zero")
      [] c \in Digit \ {"0"} -> In(r, "int")
      [] c \in {"t", "f", "n"} -> [r EXCEPT !.mode = "word", !.part = <<c>>]
      [] c \in Space -> In(r, "value")
      [] OTHER -> Stuck(r)

AfterValue(r, c) ==
    CASE c \in Space -> In(r, "after")
      [] c = "," /\ Inside(r, "{") -> In(r, "member")
      [] c = "," /\ Inside(r, "[") -> In(r, "value")
      [] c = "}" /\ Inside(r, "{") -> Closed(r)
      [] c = "]" /\ Inside(r, "[") -> Closed(r)
      [] OTHER -> Stuck(r)

Spaced(r, c, mode) == IF c \in Space THEN In(r, mode) ELSE Stuck(r)

Structure(r, c) ==
    CASE r.mode = "value"  -> ValueStarts(r, c)
      [] r.mode = "array"  -> IF c = "]" THEN Closed(r)
                              ELSE IF c \in Space THEN r ELSE ValueStarts(r, c)
      [] r.mode = "object" -> IF c = "}" THEN Closed(r)
                              ELSE IF c = "\"" THEN Quoted(r, TRUE) ELSE Spaced(r, c, "object")
      [] r.mode = "member" -> IF c = "\"" THEN Quoted(r, TRUE) ELSE Spaced(r, c, "member")
      [] r.mode = "colon"  -> IF c = ":" THEN In(r, "value") ELSE Spaced(r, c, "colon")
      [] r.mode = "after"  -> AfterValue(r, c)

(* The rest of a number: the characters that continue it, or its end.      *)
Number(r, c) ==
    LET Digits(mode) == c \in Digit /\ r.mode \in mode
    IN  CASE Digits({"minus"}) -> In(r, IF c = "0" THEN "zero" ELSE "int")
          [] Digits({"int"}) -> In(r, "int")
          [] c = "." /\ r.mode \in {"zero", "int"} -> In(r, "point")
          [] Digits({"point", "frac"}) -> In(r, "frac")
          [] c \in {"e", "E"} /\ r.mode \in {"zero", "int", "frac"} -> In(r, "e")
          [] c \in {"+", "-"} /\ r.mode = "e" -> In(r, "sign")
          [] Digits({"e", "sign", "exp"}) -> In(r, "exp")
          [] c \notin Digit \cup {".", "e", "E", "+", "-"}
                /\ r.mode \in {"zero", "int", "frac", "exp"} -> AfterValue(r, c)
          [] OTHER -> Stuck(r)

Words == {WordText[word] : word \in DOMAIN WordText}

Keyword(r, c) ==
    LET part == Append(r.part, c)
    IN  CASE part \in Words -> In(r, "after")
          [] part \notin Words /\ \E word \in Words : IsPrefix(part, word) ->
                [r EXCEPT !.part = part]
          [] OTHER -> Stuck(r)

(* The four digits of \u are complete.                                     *)
Codepoint(r, digits) ==
    LET codepoint == json_hexadecimal_value(digits, 0)
    IN  CASE LowSurrogate(codepoint) -> IF r.high THEN [In(r, "string") EXCEPT !.high = FALSE]
                                           ELSE Stuck(r)
          [] ~LowSurrogate(codepoint) /\ r.high -> Stuck(r)
          [] HighSurrogate(codepoint) /\ ~r.high -> [In(r, "string") EXCEPT !.high = TRUE]
          [] OTHER -> In(r, "string")

Text(r, c) ==
    CASE r.mode = "string" /\ r.high ->
            IF c = "\\" THEN In(r, "escape") ELSE Stuck(r)
      [] r.mode = "string" /\ ~r.high ->
            CASE c = "\"" -> In(r, IF r.key THEN "colon" ELSE "after")
              [] c = "\\" -> In(r, "escape")
              [] c \in {Nul, "\t", "\r", "\n"} -> Stuck(r)
              [] OTHER -> r
      [] r.mode = "escape" ->
            CASE c = "u" -> [r EXCEPT !.mode = "unicode", !.part = <<>>]
              [] c \in Escapes /\ ~r.high -> In(r, "string")
              [] OTHER -> Stuck(r)
      [] r.mode = "unicode" ->
            CASE c \notin DOMAIN json_hexadecimal_digit -> Stuck(r)
              [] c \in DOMAIN json_hexadecimal_digit /\ Len(r.part) < 3 ->
                    [r EXCEPT !.part = Append(@, c)]
              [] OTHER -> Codepoint(r, Append(r.part, c))

Reads(r, c) ==
    CASE r.mode \in {"value", "array", "object", "member", "colon", "after"} -> Structure(r, c)
      [] r.mode \in {"minus", "zero", "int", "point", "frac", "e", "sign", "exp"} -> Number(r, c)
      [] r.mode = "word" -> Keyword(r, c)
      [] r.mode \in {"string", "escape", "unicode"} -> Text(r, c)
      [] r.mode = "stuck" -> r

ReadsAll(r, text) == FoldLeft(Reads, r, text)

Complete(r) == r.open = <<>> /\ r.mode \in {"after", "zero", "int", "frac", "exp"}
=============================================================================
