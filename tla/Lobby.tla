------------------------------- MODULE Lobby -------------------------------
(***************************************************************************)
(* What the server promises about presence, without guids, users, vectors  *)
(* or packets: each connected client stands in exactly one room, it        *)
(* arrives in the main menu, may move to the start screen, never returns   *)
(* to the menu, and leaves the room it is in.                              *)
(***************************************************************************)
CONSTANT Peers

VARIABLES
    open,   \* the server is running
    room    \* room[s]: the clients standing in screen s

Rooms == {"mainmenu", "test1"}

Init ==
    /\ open = TRUE
    /\ room = [s \in Rooms |-> {}]

Arrive(p) ==
    /\ open
    /\ \A s \in Rooms : p \notin room[s]
    /\ room' = [room EXCEPT !["mainmenu"] = @ \cup {p}]
    /\ UNCHANGED open

Play(p) ==
    /\ open
    /\ p \in room["mainmenu"]
    /\ room' = [room EXCEPT !["mainmenu"] = @ \ {p}, !["test1"] = @ \cup {p}]
    /\ UNCHANGED open

Leave(p) ==
    /\ open
    /\ \E s \in Rooms : p \in room[s]
    /\ room' = [s \in Rooms |-> room[s] \ {p}]
    /\ UNCHANGED open

Stop ==
    /\ open
    /\ open' = FALSE
    /\ UNCHANGED room

Next == Stop \/ \E p \in Peers : Arrive(p) \/ Play(p) \/ Leave(p)

Spec == Init /\ [][Next]_<<open, room>>
=============================================================================
