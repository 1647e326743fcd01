------------------------------ MODULE MCBase64 ------------------------------
(***************************************************************************)
(* Base64 over every string of up to MaxBytes bytes of Values, and over    *)
(* every text of up to MaxChars characters, most of which encode nothing.  *)
(***************************************************************************)
EXTENDS Base64

CONSTANTS Values, Characters, MaxBytes, MaxChars

Byte == 0 .. 255

ASSUME Base64Assumption == Values \subseteq Byte /\ Characters \subseteq 0 .. Pad

VARIABLES string, text

Init == string = <<>> /\ text = <<>>

Encode(byte) ==
    /\ Len(string) < MaxBytes
    /\ text = Base64encode(string)
    /\ string' = Append(string, byte)
    /\ text' = Base64encode(string')

Garble(c) ==
    /\ string = <<>> /\ Len(text) < MaxChars
    /\ text' = Append(text, c)
    /\ UNCHANGED string

Next == (\E byte \in Values : Encode(byte)) \/ (\E c \in Characters : Garble(c))

Spec == Init /\ [][Next]_<<string, text>>

-----------------------------------------------------------------------------
(***************************************************************************)
(* Base64decode brings back what Base64encode was given, byte for byte,    *)
(* so two hashes never have one text (base64.c:123-210).                   *)
(***************************************************************************)
RoundTrip ==
    text = Base64encode(string) => Base64decode(text) = string

(***************************************************************************)
(* The text with its NUL fills exactly what Base64encode_len tells the     *)
(* caller to allocate (base64.c:174, client.cpp:642-645).                  *)
(***************************************************************************)
EncodeFits ==
    text = Base64encode(string) => Len(text) + 1 = Base64encode_len(Len(string))

(***************************************************************************)
(* From any text, also one that encodes nothing, Base64decode writes the   *)
(* number of bytes it returns, and they and the NUL after them fit in what *)
(* Base64decode_len tells the caller to allocate (base64.c:107-169).       *)
(***************************************************************************)
DecodeFits ==
    /\ Len(Base64decode(text)) = nbytesdecoded(text)
    /\ Len(Base64decode(text)) + 1 <= Base64decode_len(text)
=============================================================================
