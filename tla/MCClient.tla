------------------------------ MODULE MCClient ------------------------------
(* One client whose server may send either packet at any time.  The table  *)
(* of verbs has one, a SAY, which "S" abbreviates.                         *)
EXTENDS MurkClient

CONSTANT p1

MCPeers == {p1}
MCTable == << <<"S", "A">> >>
MCShorthand == [word \in {} |-> word]
MCSay == <<"S", "A">>
MCToUpper == [c \in {} |-> c]
MCReadAs == {LoginReq(<<>>, <<>>)}
MCFromServer == {[type |-> "MENU_MAIN", screen |-> NULL], [type |-> "ROOM_INFO", screen |-> "test1"]}
=============================================================================
