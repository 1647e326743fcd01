------------------------------ MODULE MCVerbs ------------------------------
(***************************************************************************)
(* VerbContext with the table of src/cppclient/verb_context.h.  A state is *)
(* a line being typed; every line of up to MaxTyped characters of Letters  *)
(* is reached, and so is every abbreviation of every verb, in upper and in *)
(* lower case, with any one of Letters after it.                           *)
(***************************************************************************)
EXTENDS VerbContext

CONSTANTS Letters, MaxTyped

VARIABLE line

Chars(string) == [i \in 1 .. Len(string) |-> SubSeq(string, i, i)]

MCTable == << Chars("ATTACK"), Chars("CAST"), Chars("CHANT"), Chars("CONSIDER"),
    Chars("DOWN"), Chars("DRINK"), Chars("DISARM"), Chars("EAST"), Chars("EXAMINE"),
    Chars("GET"), Chars("GIVE"), Chars("INVENTORY"), Chars("KICK"), Chars("LOOK"),
    Chars("NORTH"), Chars("OPEN"), Chars("PICK"), Chars("PRAY"), Chars("QUAFF"),
    Chars("RUN"), Chars("SAY"), Chars("SOUTH"), Chars("SEARCH"), Chars("UP"),
    Chars("USE"), Chars("WEST"), Chars("YELL") >>

MCShorthand ==
    [p \in {Chars("S"), Chars("E"), Chars("W"), Chars("N"), Chars("U"), Chars("D")} |->
        CASE p = Chars("S") -> Chars("SOUTH")
          [] p = Chars("E") -> Chars("EAST")
          [] p = Chars("W") -> Chars("WEST")
          [] p = Chars("N") -> Chars("NORTH")
          [] p = Chars("U") -> Chars("UP")
          [] p = Chars("D") -> Chars("DOWN")]

MCSay == Chars("SAY")

Lower == Chars("abcdefghijklmnopqrstuvwxyz")
MCToUpper ==
    [c \in ToSet(Lower) |->
        Chars("ABCDEFGHIJKLMNOPQRSTUVWXYZ")[CHOOSE i \in DOMAIN Lower : Lower[i] = c]]
ToLower(text) ==
    [i \in DOMAIN text |->
        IF \E c \in DOMAIN MCToUpper : MCToUpper[c] = text[i]
        THEN CHOOSE c \in DOMAIN MCToUpper : MCToUpper[c] = text[i]
        ELSE text[i]]

Abbreviations == UNION {Prefixes(default_context[i]) : i \in DOMAIN default_context}

Init == line \in Abbreviations \cup {ToLower(text) : text \in Abbreviations}

(* Only lines of Letters grow, and each abbreviation by one character.     *)
Type(c) ==
    /\ \/ ToSet(line) \subseteq Letters /\ Len(line) < MaxTyped
       \/ Upper(line) \in Abbreviations
    /\ line' = Append(line, c)

Next == \E c \in Letters : Type(c)

Spec == Init /\ [][Next]_line

-----------------------------------------------------------------------------
Verbs == ToSet(default_context)

(* The position of the first verb of which text is an abbreviation.        *)
FirstMatch(text) ==
    CHOOSE i \in DOMAIN default_context :
        /\ IsPrefix(text, default_context[i])
        /\ \A j \in 1 .. (i - 1) : ~IsPrefix(text, default_context[j])

(***************************************************************************)
(* What the algorithms below need of the table, and of the shorthands but  *)
(* for the "S" that TAB reads as SAY: no verb begins another, none is      *)
(* found in a later one, and a shorthand stands for the first verb it      *)
(* abbreviates.                                                            *)
(***************************************************************************)
ASSUME TableAssumption ==
    /\ \A i, j \in DOMAIN default_context :
          /\ i # j => ~IsPrefix(default_context[i], default_context[j])
          /\ i < j => ~Holds(default_context[j], default_context[i])
    /\ \A p \in DOMAIN Shorthand \ {Chars("S")} :
          p \in Abbreviations /\ Shorthand[p] = default_context[FirstMatch(p)]

(***************************************************************************)
(* "find the first verb only and capitalize it" (client.cpp:354): although *)
(* the loop of CapitalizeVerb never stops at a match, a word that is no    *)
(* shorthand becomes the first verb it abbreviates, and any other word is  *)
(* left as it was typed.                                                   *)
(***************************************************************************)
FirstMatchWins ==
    LET word == FirstWord(line)
        p == Upper(word)
    IN  p \notin DOMAIN Shorthand =>
            CapitalizeVerb(word) =
                IF p \in Abbreviations THEN default_context[FirstMatch(p)] ELSE word

(***************************************************************************)
(* Enter finds the verb that the first word was expanded to: no verb that  *)
(* is earlier in the table hides inside a later one.                       *)
(***************************************************************************)
ExpansionFound ==
    CapitalizeVerb(FirstWord(line)) \in Verbs =>
        LineContext(line).verb = CapitalizeVerb(FirstWord(line))

(***************************************************************************)
(* TAB and Enter read an abbreviation alike, with the one exception of     *)
(* "S": TAB completes it to SAY and Enter to SOUTH.                        *)
(***************************************************************************)
TabAgreesWithEnter ==
    Space \notin ToSet(line) /\ Upper(line) # Chars("S") /\ Completion(line) # <<>> =>
        LineContext(line).verb = Completion(line)

(***************************************************************************)
(* "send msg everything after say" with its forespace trimmed              *)
(* (client.cpp:482, 490): what a line SAY <words> sends is <words>.        *)
(***************************************************************************)
SaidWords ==
    LET context == LineContext(line)
    IN  Upper(FirstWord(line)) = MURK_VERB_SAY =>
            SayWords(context.rest) = TrimForespace(RestOf(line))
=============================================================================
