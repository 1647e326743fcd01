---------------------------- MODULE VerbContext ----------------------------
(***************************************************************************)
(* The client's command-line algorithms (src/cppclient/client.cpp and      *)
(* verb_context.h) as operators: the expansion of an abbreviated verb, the *)
(* search for the verb of a line, TAB completion, and the words a SAY      *)
(* sends.  A text is a sequence of characters.                             *)
(***************************************************************************)
EXTENDS Naturals, Sequences, SequencesExt

CONSTANTS
    default_context,    \* the verbs, in the order of the table
    Shorthand,          \* the one-letter directions and what they stand for
    MURK_VERB_SAY,      \* the verb that talks to everyone on the screen
    ToUpper,            \* toupper on the characters it changes
    Space               \* the character between words

VerbCharacters == UNION {ToSet(default_context[i]) : i \in DOMAIN default_context}

ASSUME VerbAssumption ==
    /\ default_context \in Seq(Seq(VerbCharacters))
    /\ \A i \in DOMAIN default_context : default_context[i] # <<>>
    /\ \E i \in DOMAIN default_context : default_context[i] = MURK_VERB_SAY

Upper(text) ==
    [i \in DOMAIN text |-> IF text[i] \in DOMAIN ToUpper THEN ToUpper[text[i]] ELSE text[i]]

Holds(text, part) == part \in SubSeqs(text)

Erased(text, part) == ReplaceFirstSubSeq(<<>>, part, text)

-----------------------------------------------------------------------------
(* ProcessInput on Enter, for a line without a context.                    *)

(* substr(0, find(" ")): all of a line that has no space. *)
FirstWord(line) ==
    LET space == SelectInSeq(line, LAMBDA c : c = Space)
    IN  IF space = 0 THEN line ELSE SubSeq(line, 1, space - 1)

RestOf(line) == SubSeq(line, Len(FirstWord(line)) + 1, Len(line))

(***************************************************************************)
(* CapitalizeVerb overwrites *s whenever an entry matches and goes on, and *)
(* the length it compares is that of the overwritten *s.                   *)
(***************************************************************************)
CapitalizeVerbLast(word) ==
    LET p == Upper(word)
        Matched(s, entry) == IF IsPrefix(p, entry) THEN entry ELSE s
    IN  IF p \in DOMAIN Shorthand THEN Shorthand[p]
        ELSE FoldLeft(Matched, word, default_context)

CapitalizeVerb(word) ==
    LET p == Upper(word)
        Matched(s, entry) ==
            LET len == IF Len(entry) > Len(s) THEN Len(s) ELSE Len(entry)
            IN  IF SubSeq(entry, 1, len) = p THEN entry ELSE s
    IN  IF p \in DOMAIN Shorthand THEN Shorthand[p]
        ELSE FoldLeft(Matched, word, default_context)

(* The first verb of the table that occurs anywhere in the word, or <<>>.  *)
FirstVerbButLast(word) ==
    LET i == SelectInSeq(Front(default_context), LAMBDA verb : Holds(word, verb))
    IN  IF i = 0 THEN <<>> ELSE default_context[i]

FirstVerb(word) ==
    LET i == SelectInSeq(default_context, LAMBDA verb : Holds(word, verb))
    IN  IF i = 0 THEN <<>> ELSE default_context[i]

(* The context of a line, and what is left in the input buffer.            *)
LineContext(line) ==
    LET word == CapitalizeVerb(FirstWord(line))
        verb == FirstVerb(word)
    IN  [verb |-> verb, rest |-> Erased(word \o RestOf(line), verb)]

-----------------------------------------------------------------------------
(* SAY.                                                                    *)

(* words.compare(0, 1, " ") != npos holds of every text but the empty one. *)
TrimForespace(words) == IF words = <<>> THEN words ELSE Tail(words)

SayWords(input) ==
    IF Holds(input, MURK_VERB_SAY)
    THEN TrimForespace(Erased(input, MURK_VERB_SAY))
    ELSE input

-----------------------------------------------------------------------------
(* TAB.                                                                    *)

(* The first verb that begins with the text in the buffer, or <<>>.        *)
CompletionLast(line) ==
    LET i == SelectLastInSeq(default_context, LAMBDA verb : IsPrefix(Upper(line), verb))
    IN  IF i = 0 THEN <<>> ELSE default_context[i]

Completion(line) ==
    LET i == SelectInSeq(default_context, LAMBDA verb : IsPrefix(Upper(line), verb))
    IN  IF i = 0 THEN <<>> ELSE default_context[i]
=============================================================================
