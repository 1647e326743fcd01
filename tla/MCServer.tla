------------------------------ MODULE MCServer ------------------------------
(* The server with two peer slots, three guids and one request of each     *)
(* kind that it tells apart.                                               *)
EXTENDS MurkServer, TLC

CONSTANTS p1, p2, g1, g2, g3

MCPeers == {p1, p2}
MCGuids == {g1, g2, g3}

(* "bob" is registered; the other name ends the quotes of the query, so    *)
(* that his login may be refused as well.                                  *)
Names == {<<"bob">>, <<"'">>}
Digest == <<"dig", "est">>
MCStoredPw == [user \in {<<"bob">>} |-> Digest]

Login(user, pass) == [type |-> "LOGIN_REQ", user |-> user, pass |-> pass]
Select(option) == [type |-> "MENUSEL", select |-> option]

MCClientPackets ==
    {Login(user, Digest) : user \in Names}
        \cup {Select(option) : option \in {"1", "2"}}
        \cup {[type |-> "PCOMMAND", cmd |-> "LOOK"], [type |-> "FAULT"]}

MCSymmetry == Permutations(MCGuids)
=============================================================================
