------------------------------ MODULE MCSystem ------------------------------
(***************************************************************************)
(* Server and clients with a keyboard of a few keys, which are also the    *)
(* names, the passwords and the words.  Registered are "1", with the       *)
(* password "1"; "2", with an empty password column; "3", with none at     *)
(* all; and the empty name, with a text that is a part of every digest.    *)
(***************************************************************************)
EXTENDS MurkSystem, TLC

CONSTANTS p1, p2, g1, g2

OnePeer == {p1}
TwoPeers == {p1, p2}
MCGuids == {g1, g2}

MCStoredPw ==
    [user \in {<<"1">>, <<"2">>, <<"3">>, <<>>} |->
        CASE user = <<"1">>      -> Digest("sha3", <<"1">>)
          [] user = <<"2">>      -> <<>>
          [] user = <<"3">>      -> NULL
          [] user = <<>>         -> << <<"sha3">> >>]

MCTable == << <<"1">> >>
MCSay == <<"1">>
MCShorthand == [p \in {<<"3">>} |-> <<"1">>]
MCToUpper == [c \in {} |-> c]

(* A quoted text may be read as a selection, which nobody was asked for,   *)
(* or as a packet that ParseData does not survive.                         *)
MCReadAs == {MenuSel("1"), [type |-> "FAULT"]}

MCClientPackets == {MenuSel(key) : key \in Keys}

MCSymmetry == Permutations(MCGuids) \cup Permutations(TwoPeers)
=============================================================================
