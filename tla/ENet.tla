-------------------------------- MODULE ENet --------------------------------
(***************************************************************************)
(* The transport, as src/cppserver and src/cppclient use it.  ENet is not  *)
(* part of the repository: both programs link the library.  What they see  *)
(* of it is a table of peers and, per peer, two reliable FIFO queues (all  *)
(* packets are sent with ENET_PACKET_FLAG_RELIABLE on channel 0).          *)
(*                                                                         *)
(* A client is identified with the slot of the server's peer table that    *)
(* its connection occupies; the slot is used again by a later connection.  *)
(***************************************************************************)
EXTENDS Naturals, Sequences

CONSTANTS
    NULL,           \* no peer, no user, no guid, no screen
    Peers,          \* the slots of the server's peer table
    PacketTail,     \* what follows the bytes of a received packet in memory
    MaxToServer,    \* bound of the model: undispatched packets of one client
    MaxToClient     \* bound of the model: unread packets of one client

ASSUME ENetAssumption ==
    /\ NULL \notin Peers
    /\ PacketTail \subseteq {"nul", "junk"}
    /\ MaxToServer \in Nat \ {0}
    /\ MaxToClient \in Nat \ {0}

VARIABLES
    conn,       \* conn[p]: the server's view of the connection in slot p
    toServer,   \* toServer[p]: packets of the client in p not yet dispatched
    toClient    \* toClient[p]: packets sent to p that its client has not read

enetVars == <<conn, toServer, toClient>>

(***************************************************************************)
(* "free"     no connection                                                *)
(* "pending"  the handshake is over, the CONNECT event not yet dispatched  *)
(* "up"       CONNECT dispatched; enet_peer_send queues packets            *)
(* "zombie"   the peer timed out; its DISCONNECT event is not dispatched   *)
(***************************************************************************)
ConnStates == {"free", "pending", "up", "zombie"}

ENetInit ==
    /\ conn = [p \in Peers |-> "free"]
    /\ toServer = [p \in Peers |-> <<>>]
    /\ toClient = [p \in Peers |-> <<>>]

RoomToSend(p, packets) == Len(toServer[p]) + Len(packets) <= MaxToServer
RoomToReply(p) == Len(toClient[p]) < MaxToClient

(***************************************************************************)
(* The client's end of a connection: enet_host_connect and its handshake,  *)
(* enet_peer_send to the server, and the receipt of the oldest packet.     *)
(* What a client sends reaches the server only while the server still      *)
(* holds the connection.                                                   *)
(***************************************************************************)
Dial(p) ==
    /\ conn[p] = "free"
    /\ conn' = [conn EXCEPT ![p] = "pending"]
    /\ toClient' = [toClient EXCEPT ![p] = <<>>]
    /\ UNCHANGED toServer

Carried(p, packets) ==
    IF conn[p] \in {"pending", "up"}
    THEN [toServer EXCEPT ![p] = @ \o packets]
    ELSE toServer

Read(p) == [toClient EXCEPT ![p] = Tail(@)]

(***************************************************************************)
(* The server's end.  enet_peer_send queues a packet for a connected peer  *)
(* and refuses (the code ignores its result) for any other.                *)
(***************************************************************************)
enet_peer_send(peers, p, m) ==
    IF peers[p] = "up"
    THEN [toClient EXCEPT ![p] = Append(@, m)]
    ELSE toClient

Dispatched(p) == [toServer EXCEPT ![p] = Tail(@)]

(***************************************************************************)
(* The server's end gives a silent peer up.  Before the CONNECT event was  *)
(* dispatched the slot is just freed; afterwards a DISCONNECT event is     *)
(* due.  Undispatched packets of the peer are gone, and of those on their  *)
(* way to it any suffix may be lost.                                       *)
(***************************************************************************)
Drop(p) ==
    /\ \/ /\ conn[p] = "pending"
          /\ conn' = [conn EXCEPT ![p] = "free"]
       \/ /\ conn[p] = "up"
          /\ conn' = [conn EXCEPT ![p] = "zombie"]
    /\ toServer' = [toServer EXCEPT ![p] = <<>>]
    /\ \E n \in 0 .. Len(toClient[p]) :
          toClient' = [toClient EXCEPT ![p] = SubSeq(@, 1, n)]
=============================================================================
