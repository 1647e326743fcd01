------------------------------- MODULE Base64 -------------------------------
(***************************************************************************)
(* res/base64.c, which turns the password's hash into a text for JSON.  A  *)
(* byte is a number below 256.  A character is its index in basis_64, or   *)
(* 64, as in the table pr2six, when it is '=' or the terminating NUL.      *)
(***************************************************************************)
EXTENDS Naturals, Sequences, SequencesExt

Pad == 64

-----------------------------------------------------------------------------
Base64encode_lenFloor(len) == (len \div 3) * 4 + 1

Base64encode_len(len) == ((len + 2) \div 3) * 4 + 1

(* The four characters of three bytes. *)
Sextets(a, b, c) ==
    << (a \div 4) % 64, (a % 4) * 16 + b \div 16,
       (b % 16) * 4 + c \div 64, c % 64 >>

LastGroupPadsOne(string, i) ==
    SubSeq(Sextets(string[i], IF i = Len(string) THEN 0 ELSE string[i + 1], 0), 1, 3)
    \o <<Pad>>

(* What is left after the groups of three: one byte, or two. *)
LastGroup(string, i) ==
    IF i = Len(string)
    THEN SubSeq(Sextets(string[i], 0, 0), 1, 2) \o <<Pad, Pad>>
    ELSE SubSeq(Sextets(string[i], string[i + 1], 0), 1, 3) \o <<Pad>>

(* The text without its NUL. *)
Base64encode(string) ==
    LET groups == Len(string) \div 3
        Group(g) == Sextets(string[3 * g - 2], string[3 * g - 1], string[3 * g])
    IN  FlattenSeq([g \in 1 .. groups |-> Group(g)])
        \o IF 3 * groups < Len(string) THEN LastGroup(string, 3 * groups + 1) ELSE <<>>

-----------------------------------------------------------------------------
(* The characters before the first that is not of basis_64. *)
nprbytes(text) ==
    LET end == SelectInSeq(text, LAMBDA c : c > 63)
    IN  IF end = 0 THEN Len(text) ELSE end - 1

Base64decode_len(text) == ((nprbytes(text) + 3) \div 4) * 3 + 1

(* The three bytes of four characters. *)
Octets(w, x, y, z) ==
    << (w * 4 + x \div 16) % 256, (x * 16 + y \div 4) % 256, (y * 64 + z) % 256 >>

LastOctetsEarly(last) ==
    LET At(n) == IF n \in DOMAIN last THEN last[n] ELSE 0
    IN  SubSeq(Octets(At(1), At(2), At(3), At(4)), 1, IF Len(last) > 3 THEN 3 ELSE Len(last))

(* The characters that the loop of whole groups leaves, from 1 to 4 of     *)
(* them unless the text is empty; of one character nothing is made.        *)
LastOctets(last) ==
    LET At(n) == IF n \in DOMAIN last THEN last[n] ELSE 0
    IN  SubSeq(Octets(At(1), At(2), At(3), At(4)), 1,
               IF Len(last) > 1 THEN Len(last) - 1 ELSE 0)

Base64decode(text) ==
    LET n == nprbytes(text)
        groups == IF n > 4 THEN (n - 1) \div 4 ELSE 0
        Group(g) == Octets(text[4 * g - 3], text[4 * g - 2], text[4 * g - 1], text[4 * g])
    IN  FlattenSeq([g \in 1 .. groups |-> Group(g)])
        \o LastOctets(SubSeq(text, 4 * groups + 1, n))

(* The count that Base64decode returns: (4 - nprbytes) & 3 of the rest. *)
nbytesdecoded(text) ==
    LET n == nprbytes(text)
        rest == IF n > 4 THEN ((n - 1) % 4) + 1 ELSE n
    IN  ((n + 3) \div 4) * 3 - ((4 - rest) % 4)
=============================================================================
