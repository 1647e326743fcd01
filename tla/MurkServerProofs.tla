-------------------------- MODULE MurkServerProofs --------------------------
(***************************************************************************)
(* Proofs about MurkServer for every set of peers, guids, packets and      *)
(* registered users, and for every bound of the queues.                    *)
(***************************************************************************)
EXTENDS MurkServer, TLAPS

-----------------------------------------------------------------------------
(* The operators on rosters and queues keep their types.                   *)

Rosters == [Screens -> [Guids -> Nat]]

LEMMA EnterUserType ==
    ASSUME NEW local \in Rosters, NEW s \in Screens, NEW g \in Guids
    PROVE  EnterUser(local, s, g) \in Rosters
  BY DEF EnterUser, Rosters

LEMMA ExitUserType ==
    ASSUME NEW local \in Rosters, NEW s \in Screens, NEW g \in Guids
    PROVE  ExitUser(local, s, g) \in Rosters
  BY DEF ExitUser, Rosters

LEMMA SendType ==
    ASSUME NEW peers, NEW p \in Peers, NEW m \in ServerPackets,
           toClient \in [Peers -> Seq(ServerPackets)]
    PROVE  enet_peer_send(peers, p, m) \in [Peers -> Seq(ServerPackets)]
  BY DEF enet_peer_send

LEMMA PacketTypes ==
    /\ MenuPacket \in ServerPackets
    /\ \A s \in Screens : RoomInfo(s) \in ServerPackets
  BY DEF ServerPackets

-----------------------------------------------------------------------------
(***************************************************************************)
(* Type correctness.  The dispatch of a packet follows ENetPeer::data, so  *)
(* the invariant also says when that pointer is set.                       *)
(***************************************************************************)
TypeInv == ServerTypeOK /\ HasUser

LEMMA TypeInit == OpenServerInit => TypeInv
  BY DEF OpenServerInit, ServerInit, ENetInit, TypeInv, ServerTypeOK, HasUser,
         Present, User, Screens, ConnStates

LEMMA ConnectType ==
    ASSUME TypeInv, NEW p \in Peers, Connect(p)
    PROVE  TypeInv'
  <1> USE DEF TypeInv, ServerTypeOK
  <1>1. PICK g \in generate_new_guid, u \in UninitPeer :
          /\ conn' = [conn EXCEPT ![p] = "up"]
          /\ localUsers' = EnterUser(localUsers, "mainmenu", g)
          /\ activeUserMap' = Inserted(g, [screen |-> "mainmenu", peer |-> p])
          /\ data' = [data EXCEPT ![p] = g]
          /\ lastPeer' = p
          /\ RoomInfoOfConnect(conn', u)
    BY DEF Connect
  <1>2. /\ g \in Guids /\ g # NULL
        /\ "mainmenu" \in Screens
        /\ [screen |-> "mainmenu", peer |-> p] \in User
        /\ [screen |-> "mainmenu", peer |-> p] # NULL
    BY ServerAssumption, ENetAssumption DEF generate_new_guid, Screens, User
  <1>3. localUsers' \in [Screens -> [Guids -> Nat]]
    BY <1>1, <1>2, EnterUserType DEF Rosters
  <1>4. activeUserMap' \in [Guids -> User \cup {NULL}]
    BY <1>1, <1>2 DEF Inserted, User
  <1>5. \A h \in Guids : activeUserMap[h] # NULL => activeUserMap'[h] # NULL
    BY <1>1, <1>2 DEF Inserted
  <1>6. activeUserMap'[g] # NULL
    BY <1>1, <1>2 DEF Inserted
  <1>7. data' \in [Peers -> {h \in Guids : activeUserMap'[h] # NULL} \cup {NULL}]
    BY <1>1, <1>2, <1>5, <1>6
  <1>8. toClient' \in [Peers -> Seq(ServerPackets)]
    <2>1. CASE UNCHANGED toClient
      BY <2>1
    <2>2. CASE /\ lastPeer # NULL
               /\ toClient' = enet_peer_send(conn', lastPeer, RoomInfo("mainmenu"))
      <3>1. lastPeer \in Peers /\ RoomInfo("mainmenu") \in ServerPackets
        BY <1>2, <2>2, PacketTypes
      <3> QED
        BY <2>2, <3>1, SendType
    <2> QED
      BY <1>1, <2>1, <2>2 DEF RoomInfoOfConnect
  <1>9. HasUser'
    <2> SUFFICES ASSUME NEW q \in Peers
                 PROVE  (data'[q] # NULL) <=> conn'[q] \in {"up", "zombie"}
      BY DEF HasUser, Present
    <2>1. CASE q = p
      BY <1>1, <1>2, <2>1
    <2>2. CASE q # p
      BY <1>1, <2>2 DEF HasUser, Present
    <2> QED
      BY <2>1, <2>2
  <1> QED
    BY <1>1, <1>3, <1>4, <1>7, <1>8, <1>9 DEF Connect, ConnStates

LEMMA NewGameType ==
    ASSUME TypeInv, NEW p \in Peers, NewGame(p)
    PROVE  TypeInv'
  <1> USE DEF TypeInv, ServerTypeOK
  <1>1. PICK g \in Guids : /\ g = data[p] /\ g # NULL
                           /\ activeUserMap[g] # NULL /\ activeUserMap[g] \in User
    BY ServerAssumption, ENetAssumption DEF NewGame, Selects, Receives, HasUser, Present
  <1>2. /\ "mainmenu" \in Screens /\ "test1" \in Screens
        /\ activeUserMap[g].screen = "mainmenu"
        /\ activeUserMap[g].peer \in Peers
    BY <1>1 DEF NewGame, Selects, Screens, User
  <1>3. localUsers' \in [Screens -> [Guids -> Nat]]
    <2>1. ExitUser(localUsers, "mainmenu", g) \in Rosters
      BY <1>1, <1>2, ExitUserType DEF Rosters
    <2> QED
      BY <1>1, <1>2, <2>1, EnterUserType DEF NewGame, SetScreen, Rosters
  <1>4. /\ activeUserMap' = [activeUserMap EXCEPT ![g].screen = "test1"]
        /\ activeUserMap'[g] \in User /\ activeUserMap'[g] # NULL
    BY <1>1, <1>2, ServerAssumption, ENetAssumption DEF NewGame, SetScreen, User
  <1>5. /\ activeUserMap' \in [Guids -> User \cup {NULL}]
        /\ data' \in [Peers -> {h \in Guids : activeUserMap'[h] # NULL} \cup {NULL}]
    BY <1>1, <1>4 DEF NewGame, Selects, Receives
  <1>6. toClient' \in [Peers -> Seq(ServerPackets)]
    BY <1>1, <1>2, SendType, PacketTypes DEF NewGame
  <1>7. toServer' \in [Peers -> Seq(ClientPackets)]
    BY DEF NewGame, Selects, Receives, Dispatched
  <1> QED
    BY <1>3, <1>5, <1>6, <1>7 DEF NewGame, Selects, Receives, HasUser, Present

LEMMA DisconnectType ==
    ASSUME TypeInv, NEW p \in Peers, Disconnect(p)
    PROVE  TypeInv'
  <1> USE DEF TypeInv, ServerTypeOK
  <1>1. /\ data[p] \in Guids /\ activeUserMap[data[p]] \in User
    BY ServerAssumption, ENetAssumption DEF Disconnect, HasUser, Present
  <1>2. localUsers' \in [Screens -> [Guids -> Nat]]
    BY <1>1, ExitUserType DEF Disconnect, User, Rosters
  <1>3. conn' \in [Peers -> ConnStates] /\ HasUser'
    BY DEF Disconnect, ConnStates, HasUser, Present
  <1> QED
    BY <1>2, <1>3 DEF Disconnect

(* The packets that change neither users nor rosters.                      *)
LEMMA OtherPacketType ==
    ASSUME TypeInv, NEW p \in Peers,
           \/ LoginOK(p)
           \/ LoginRefused(p)
           \/ QuitGame(p)
           \/ MenuSelCrash(p)
           \/ IgnoreCommand(p)
           \/ ReceiveJunk(p)
           \/ ReceiveFault(p)
           \/ LoginFault(p)
    PROVE  TypeInv'
  <1> USE DEF TypeInv, ServerTypeOK
  <1>1. /\ UNCHANGED <<conn, data, lastPeer, activeUserMap, localUsers>>
        /\ toServer' = Dispatched(p)
        /\ toServer[p] # <<>>
        /\ server' \in {"running", "exited", "crashed"}
        /\ usersDb' \in {"intact", "written"}
    BY DEF LoginOK, LoginRefused, QuitGame, MenuSelCrash, ReceiveFault, LoginFault,
           IgnoreCommand, ReceiveJunk,
           Selects, Receives, Queries
  <1>2. toServer' \in [Peers -> Seq(ClientPackets)]
    BY <1>1 DEF Dispatched
  <1>3. toClient' \in [Peers -> Seq(ServerPackets)]
    <2>1. CASE LoginOK(p)
      BY <2>1, SendType, PacketTypes DEF LoginOK
    <2>2. CASE ~LoginOK(p)
      BY <2>2 DEF LoginRefused, QuitGame, MenuSelCrash, ReceiveFault, LoginFault,
                  IgnoreCommand, ReceiveJunk
    <2> QED
      BY <2>1, <2>2
  <1> QED
    BY <1>1, <1>2, <1>3 DEF HasUser, Present

LEMMA AnyClientType ==
    ASSUME TypeInv, NEW p \in Peers, AnyClient(p)
    PROVE  TypeInv'
  <1> USE DEF TypeInv, ServerTypeOK
  <1>1. UNCHANGED <<server, activeUserMap, localUsers, data, lastPeer, usersDb>>
    BY DEF AnyClient, serverVars
  <1>2. CASE Dial(p)
    BY <1>1, <1>2 DEF Dial, ConnStates, HasUser, Present
  <1>3. CASE Drop(p)
    <2>1. conn' \in [Peers -> ConnStates] /\ HasUser'
      BY <1>1, <1>3 DEF Drop, ConnStates, HasUser, Present
    <2>2. toClient' \in [Peers -> Seq(ServerPackets)]
      <3>1. PICK n \in 0 .. Len(toClient[p]) :
              toClient' = [toClient EXCEPT ![p] = SubSeq(@, 1, n)]
        BY <1>3 DEF Drop
      <3>2. SubSeq(toClient[p], 1, n) \in Seq(ServerPackets)
        BY <3>1
      <3> QED
        BY <3>1, <3>2
    <2> QED
      BY <1>1, <1>3, <2>1, <2>2 DEF Drop
  <1>4. CASE ClientSends(p)
    <2>1. PICK m \in ClientPackets, rest \in {<<>>} \cup {<<n>> : n \in ClientPackets} :
            toServer' = Carried(p, <<m>> \o rest)
      BY <1>4 DEF ClientSends
    <2>2. <<m>> \o rest \in Seq(ClientPackets)
      <3>1. CASE rest = <<>>
        BY <3>1
      <3>2. CASE \E n \in ClientPackets : rest = <<n>>
        BY <3>2
      <3> QED
        BY <3>1, <3>2
    <2>3. toServer' \in [Peers -> Seq(ClientPackets)]
      <3> DEFINE packets == <<m>> \o rest
      <3>1. toServer' = Carried(p, packets) /\ packets \in Seq(ClientPackets)
        BY <2>1, <2>2
      <3> HIDE DEF packets
      <3> QED
        BY <3>1 DEF Carried
    <2> QED
      BY <1>1, <1>4, <2>3 DEF ClientSends, HasUser, Present
  <1>5. CASE ClientReads(p)
    BY <1>1, <1>5 DEF ClientReads, Read, HasUser, Present
  <1> QED
    BY <1>2, <1>3, <1>4, <1>5 DEF AnyClient

LEMMA TypeStep == TypeInv /\ [OpenServerNext]_openServerVars => TypeInv'
  <1> SUFFICES ASSUME TypeInv, [OpenServerNext]_openServerVars
               PROVE  TypeInv'
    OBVIOUS
  <1>1. CASE UNCHANGED openServerVars
    BY <1>1 DEF openServerVars, serverVars, enetVars, TypeInv, ServerTypeOK, HasUser, Present
  <1>2. CASE OpenServerNext
    <2>1. PICK p \in Peers : ProcessEvent(p) \/ AnyClient(p)
      BY <1>2 DEF OpenServerNext
    <2>2. CASE ConnectFault(p)
      BY <2>2 DEF ConnectFault, enetVars, TypeInv, ServerTypeOK, HasUser, Present
    <2> QED
      BY <2>1, <2>2, ConnectType, NewGameType, DisconnectType, OtherPacketType, AnyClientType
         DEF ProcessEvent, ProcessPacket
  <1> QED
    BY <1>1, <1>2

(***************************************************************************)
(* The state of the server has its types and the raw pointer in every peer *)
(* is set exactly while its connection is known, whatever clients send and *)
(* whatever guids are drawn.                                               *)
(***************************************************************************)
THEOREM ServerTypeCorrect == OpenServerSpec => [](ServerTypeOK /\ HasUser)
  <1>1. OpenServerInit => TypeInv
    BY TypeInit
  <1>2. TypeInv /\ [OpenServerNext]_openServerVars => TypeInv'
    BY TypeStep
  <1>3. TypeInv => ServerTypeOK /\ HasUser
    BY DEF TypeInv
  <1> QED
    BY <1>1, <1>2, <1>3, PTL DEF OpenServerSpec

-----------------------------------------------------------------------------
(***************************************************************************)
(* Presence, when no guid is drawn twice.  OwnUser keeps two peers from    *)
(* sharing a User, which is what makes one exit undo one entry in Roster;  *)
(* neither is inductive without the other's types.                         *)
(***************************************************************************)
PresenceInv == TypeInv /\ OwnUser /\ Roster

LEMMA PresenceInit == OpenServerInit => PresenceInv
  <1> SUFFICES ASSUME OpenServerInit PROVE OwnUser /\ Roster
    BY TypeInit DEF PresenceInv
  <1>1. \A p \in Peers : ~Present(p)
    BY DEF OpenServerInit, ServerInit, Present
  <1>2. OwnUser
    BY <1>1, TypeInit DEF OwnUser, TypeInv
  <1>3. Roster
    BY <1>1, ServerAssumption, ENetAssumption DEF Roster, Present, OpenServerInit, ServerInit
  <1> QED
    BY <1>2, <1>3

(* Two peers never share a User. *)
LEMMA OneUserPerPeer ==
    ASSUME OwnUser, NEW p \in Peers, NEW q \in Peers, Present(p), data[p] = data[q]
    PROVE  p = q
  BY DEF OwnUser, Present

(* What neither users nor rosters nor pointers change leaves both alone.   *)
LEMMA PresenceFrame ==
    ASSUME PresenceInv, HasUser', UNCHANGED <<activeUserMap, localUsers, data>>
    PROVE  OwnUser' /\ Roster'
  BY DEF PresenceInv, OwnUser, Roster, Present

LEMMA ConnectPresence ==
    ASSUME UniqueGuids, PresenceInv, HasUser', NEW p \in Peers, Connect(p)
    PROVE  OwnUser' /\ Roster'
  <1>1. PICK g \in Guids :
          /\ activeUserMap[g] = NULL
          /\ localUsers' = EnterUser(localUsers, "mainmenu", g)
          /\ activeUserMap' = Inserted(g, [screen |-> "mainmenu", peer |-> p])
          /\ data' = [data EXCEPT ![p] = g]
    BY DEF Connect, generate_new_guid
  <1>2. \A q \in Peers : data[q] # g
    BY <1>1, ServerAssumption, ENetAssumption DEF PresenceInv, TypeInv, ServerTypeOK
  <1>3. \A s \in Screens : localUsers[s][g] = 0
    BY <1>2 DEF PresenceInv, Roster
  <1>4. /\ activeUserMap'[g] = [screen |-> "mainmenu", peer |-> p]
        /\ \A h \in Guids : h # g => activeUserMap'[h] = activeUserMap[h]
    BY <1>1 DEF Inserted, PresenceInv, TypeInv, ServerTypeOK
  <1>5. data'[p] = g /\ \A q \in Peers : q # p => data'[q] = data[q]
    BY <1>1 DEF PresenceInv, TypeInv, ServerTypeOK
  <1>6. ~Present(p)
    BY DEF Connect, PresenceInv, OwnUser, HasUser
  <1>7. OwnUser'
    <2> SUFFICES ASSUME NEW q \in Peers, data'[q] # NULL
                 PROVE  activeUserMap'[data'[q]].peer = q
      BY DEF OwnUser, Present
    <2>1. CASE q = p
      BY <1>4, <1>5, <2>1
    <2>2. CASE q # p
      <3>1. data[q] \in Guids /\ data[q] # g /\ activeUserMap[data[q]].peer = q
        BY <1>2, <1>5, <2>2 DEF PresenceInv, OwnUser, Present, TypeInv, ServerTypeOK
      <3> QED
        BY <1>4, <1>5, <2>2, <3>1
    <2> QED
      BY <2>1, <2>2
  <1>8. Roster'
    <2> SUFFICES ASSUME NEW s \in Screens, NEW h \in Guids
                 PROVE  localUsers'[s][h] =
                          IF \E q \in Peers : data'[q] = h /\ activeUserMap'[h].screen = s
                          THEN 1 ELSE 0
      BY DEF Roster
    <2>1. CASE h = g
      <3>1. localUsers'[s][g] = IF s = "mainmenu" THEN 1 ELSE 0
        BY <1>1, <1>3 DEF EnterUser, Screens, PresenceInv, TypeInv, ServerTypeOK
      <3> QED
        BY <1>4, <1>5, <2>1, <3>1
    <2>2. CASE h # g
      <3>1. localUsers'[s][h] = localUsers[s][h] /\ activeUserMap'[h] = activeUserMap[h]
        BY <1>1, <1>4, <2>2 DEF EnterUser, Screens, PresenceInv, TypeInv, ServerTypeOK
      <3>2. \A q \in Peers : data'[q] = h <=> data[q] = h
        BY <1>5, <1>6, <2>2, ServerAssumption, ENetAssumption DEF Present
      <3> QED
        BY <3>1, <3>2 DEF PresenceInv, Roster
    <2> QED
      BY <2>1, <2>2
  <1> QED
    BY <1>7, <1>8

LEMMA NewGamePresence ==
    ASSUME PresenceInv, HasUser', NEW p \in Peers, NewGame(p)
    PROVE  OwnUser' /\ Roster'
  <1>1. PICK g \in Guids :
          /\ g = data[p] /\ Present(p)
          /\ activeUserMap[g] \in User /\ activeUserMap[g].screen = "mainmenu"
    BY ServerAssumption, ENetAssumption DEF NewGame, Selects, Receives, PresenceInv, TypeInv,
                                            ServerTypeOK,
                            OwnUser, HasUser, Present
  <1>2. /\ activeUserMap' = [activeUserMap EXCEPT ![g].screen = "test1"]
        /\ localUsers' = EnterUser(ExitUser(localUsers, "mainmenu", g), "test1", g)
        /\ data' = data
    BY <1>1 DEF NewGame, SetScreen, Selects, Receives
  <1>3. /\ activeUserMap'[g].screen = "test1"
        /\ activeUserMap'[g].peer = activeUserMap[g].peer
        /\ \A h \in Guids : h # g => activeUserMap'[h] = activeUserMap[h]
    BY <1>1, <1>2 DEF PresenceInv, TypeInv, ServerTypeOK, User
  <1>4. OwnUser'
    BY <1>2, <1>3 DEF PresenceInv, OwnUser, Present, TypeInv, ServerTypeOK
  <1>5. data' = data
    BY <1>2
  <1>6. Roster'
    <2> SUFFICES ASSUME NEW s \in Screens, NEW h \in Guids
                 PROVE  localUsers'[s][h] =
                          IF \E q \in Peers : data'[q] = h /\ activeUserMap'[h].screen = s
                          THEN 1 ELSE 0
      BY DEF Roster
    <2>1. CASE h = g
      <3>1. localUsers["mainmenu"][g] = 1 /\ localUsers["test1"][g] = 0
        BY <1>1 DEF PresenceInv, Roster, Screens
      <3>2. localUsers'[s][g] = IF s = "test1" THEN 1 ELSE 0
        BY <1>2, <3>1 DEF EnterUser, ExitUser, Screens, PresenceInv, TypeInv, ServerTypeOK
      <3> QED
        BY <1>1, <1>2, <1>3, <2>1, <3>2
    <2>2. CASE h # g
      <3>1. localUsers'[s][h] = localUsers[s][h] /\ activeUserMap'[h] = activeUserMap[h]
        BY <1>2, <1>3, <2>2 DEF EnterUser, ExitUser, Screens, PresenceInv, TypeInv, ServerTypeOK
      <3> QED
        BY <1>5, <3>1 DEF PresenceInv, Roster
    <2> QED
      BY <2>1, <2>2
  <1> QED
    BY <1>4, <1>6

LEMMA DisconnectPresence ==
    ASSUME PresenceInv, HasUser', NEW p \in Peers, Disconnect(p)
    PROVE  OwnUser' /\ Roster'
  <1>1. PICK g \in Guids : g = data[p] /\ Present(p) /\ activeUserMap[g] \in User
    BY ServerAssumption, ENetAssumption DEF Disconnect, PresenceInv, TypeInv, ServerTypeOK,
                            OwnUser, HasUser, Present
  <1>2. /\ localUsers' = ExitUser(localUsers, activeUserMap[g].screen, g)
        /\ data' = [data EXCEPT ![p] = NULL]
        /\ activeUserMap' = activeUserMap
    BY <1>1 DEF Disconnect
  <1>3. data'[p] = NULL /\ \A q \in Peers : q # p => data'[q] = data[q]
    BY <1>2 DEF PresenceInv, TypeInv, ServerTypeOK
  <1>4. OwnUser'
    BY <1>2, <1>3 DEF PresenceInv, OwnUser, Present
  <1>5. \A q \in Peers : q # p => data[q] # g
    BY <1>1, OneUserPerPeer DEF PresenceInv
  <1>6. Roster'
    <2> SUFFICES ASSUME NEW s \in Screens, NEW h \in Guids
                 PROVE  localUsers'[s][h] =
                          IF \E q \in Peers : data'[q] = h /\ activeUserMap'[h].screen = s
                          THEN 1 ELSE 0
      BY DEF Roster
    <2>1. CASE h = g
      <3>1. localUsers[s][g] = IF activeUserMap[g].screen = s THEN 1 ELSE 0
        BY <1>1, <1>5 DEF PresenceInv, Roster
      <3>2. localUsers'[s][g] = 0
        BY <1>1, <1>2, <3>1 DEF ExitUser, User, PresenceInv, TypeInv, ServerTypeOK
      <3>3. \A q \in Peers : data'[q] # g
        BY <1>3, <1>5, ServerAssumption, ENetAssumption
      <3> QED
        BY <2>1, <3>2, <3>3
    <2>2. CASE h # g
      <3>1. localUsers'[s][h] = localUsers[s][h]
        BY <1>1, <1>2, <2>2 DEF ExitUser, User, PresenceInv, TypeInv, ServerTypeOK
      <3>2. \A q \in Peers : data'[q] = h <=> data[q] = h
        BY <1>1, <1>3, <2>2, ServerAssumption, ENetAssumption
      <3> QED
        BY <1>2, <3>1, <3>2 DEF PresenceInv, Roster
    <2> QED
      BY <2>1, <2>2
  <1> QED
    BY <1>4, <1>6

LEMMA PresenceStep ==
    UniqueGuids /\ PresenceInv /\ [OpenServerNext]_openServerVars => PresenceInv'
  <1> SUFFICES ASSUME UniqueGuids, PresenceInv, [OpenServerNext]_openServerVars
               PROVE  PresenceInv'
    OBVIOUS
  <1>1. TypeInv' /\ HasUser'
    BY TypeStep DEF PresenceInv, TypeInv
  <1>2. CASE UNCHANGED openServerVars
    BY <1>1, <1>2, PresenceFrame DEF openServerVars, serverVars, PresenceInv
  <1>3. CASE OpenServerNext
    <2>1. PICK p \in Peers : ProcessEvent(p) \/ AnyClient(p)
      BY <1>3 DEF OpenServerNext
    <2>2. CASE Connect(p)
      BY <1>1, <2>2, ConnectPresence DEF PresenceInv
    <2>3. CASE NewGame(p)
      BY <1>1, <2>3, NewGamePresence DEF PresenceInv
    <2>4. CASE Disconnect(p)
      BY <1>1, <2>4, DisconnectPresence DEF PresenceInv
    <2>5. CASE \/ LoginOK(p) \/ LoginRefused(p) \/ LoginFault(p) \/ QuitGame(p) \/ MenuSelCrash(p)
               \/ IgnoreCommand(p) \/ ReceiveJunk(p) \/ ReceiveFault(p)
               \/ ConnectFault(p) \/ AnyClient(p)
      <3>1. UNCHANGED <<activeUserMap, localUsers, data>>
        BY <2>5 DEF LoginOK, LoginRefused, QuitGame, MenuSelCrash, ReceiveFault, LoginFault,
                    IgnoreCommand, ReceiveJunk,
                    ConnectFault, AnyClient, Selects, Receives, serverVars
      <3> QED
        BY <1>1, <3>1, PresenceFrame DEF PresenceInv
    <2> QED
      BY <2>1, <2>2, <2>3, <2>4, <2>5 DEF ProcessEvent, ProcessPacket
  <1> QED
    BY <1>2, <1>3

(***************************************************************************)
(* With guids that do not repeat, every peer has a User of its own that    *)
(* sends to it, and the lists of guids in the screens are exactly the      *)
(* connected users.                                                        *)
(***************************************************************************)
THEOREM PresenceCorrect ==
    ASSUME UniqueGuids
    PROVE  OpenServerSpec => [](OwnUser /\ Roster)
  <1>1. OpenServerInit => PresenceInv
    BY PresenceInit
  <1>2. PresenceInv /\ [OpenServerNext]_openServerVars => PresenceInv'
    BY PresenceStep
  <1>3. PresenceInv => OwnUser /\ Roster
    BY DEF PresenceInv
  <1> QED
    BY <1>1, <1>2, <1>3, PTL DEF OpenServerSpec

(***************************************************************************)
(* In particular the pointer in a peer leads to a User of its own: what    *)
(* SetScreen sends through User::mypeer goes to the peer of the event.     *)
(***************************************************************************)
THEOREM OwnUserCorrect ==
    ASSUME UniqueGuids
    PROVE  OpenServerSpec => []OwnUser
  <1>1. OpenServerInit => PresenceInv
    BY PresenceInit
  <1>2. PresenceInv /\ [OpenServerNext]_openServerVars => PresenceInv'
    BY PresenceStep
  <1>3. PresenceInv => OwnUser
    BY DEF PresenceInv
  <1> QED
    BY <1>1, <1>2, <1>3, PTL DEF OpenServerSpec

-----------------------------------------------------------------------------
(***************************************************************************)
(* Room info of the start screen is true when it arrives.  The invariant   *)
(* needs that a slot whose CONNECT event is still due has nothing on its   *)
(* way from the connection before.                                         *)
(***************************************************************************)
PendingQuiet == \A p \in Peers : conn[p] = "pending" => toClient[p] = <<>>

InfoInv == PresenceInv /\ StartInfoTrue /\ PendingQuiet

Tells(queue, m) == \E i \in 1 .. Len(queue) : queue[i] = m

LEMMA StartInfoRestated ==
    StartInfoTrue <=>
        \A p \in Peers :
            conn[p] = "up" /\ Tells(toClient[p], RoomInfo("test1"))
                => activeUserMap[data[p]].screen = "test1"
  BY DEF StartInfoTrue, Tells

(* Sending another packet, reading and losing packets tell nothing new.    *)
LEMMA TellsLess ==
    ASSUME NEW queue \in Seq(ServerPackets), NEW m
    PROVE  /\ \A k \in ServerPackets : k # m /\ Tells(Append(queue, k), m) => Tells(queue, m)
           /\ queue # <<>> /\ Tells(Tail(queue), m) => Tells(queue, m)
           /\ \A n \in 0 .. Len(queue) : Tells(SubSeq(queue, 1, n), m) => Tells(queue, m)
           /\ ~Tells(<<>>, m)
  <1>1. \A k \in ServerPackets : k # m /\ Tells(Append(queue, k), m) => Tells(queue, m)
    BY DEF Tells
  <1>2. queue # <<>> /\ Tells(Tail(queue), m) => Tells(queue, m)
    <2> SUFFICES ASSUME queue # <<>>, NEW i \in 1 .. Len(Tail(queue)), Tail(queue)[i] = m
                 PROVE  Tells(queue, m)
      BY DEF Tells
    <2>1. i + 1 \in 1 .. Len(queue) /\ queue[i + 1] = m
      OBVIOUS
    <2> QED
      BY <2>1 DEF Tells
  <1>3. \A n \in 0 .. Len(queue) : Tells(SubSeq(queue, 1, n), m) => Tells(queue, m)
    BY DEF Tells
  <1>4. ~Tells(<<>>, m)
    BY DEF Tells
  <1> QED
    BY <1>1, <1>2, <1>3, <1>4

LEMMA PacketsDiffer ==
    /\ MenuPacket # RoomInfo("test1")
    /\ RoomInfo("mainmenu") # RoomInfo("test1")
  <1>1. NULL # "test1"
    BY ServerAssumption DEF Screens
  <1>2. MenuPacket.screen # RoomInfo("test1").screen
    BY <1>1 DEF MenuPacket, RoomInfo
  <1>3. RoomInfo("mainmenu").screen # RoomInfo("test1").screen
    BY DEF RoomInfo
  <1> QED
    BY <1>2, <1>3

LEMMA SendTells ==
    ASSUME toClient \in [Peers -> Seq(ServerPackets)],
           NEW peers, NEW r \in Peers, NEW q \in Peers,
           NEW k \in ServerPackets, NEW m, k # m \/ r # q
    PROVE  Tells(enet_peer_send(peers, r, k)[q], m) => Tells(toClient[q], m)
  BY TellsLess DEF enet_peer_send

LEMMA InfoInit == OpenServerInit => InfoInv
  <1> SUFFICES ASSUME OpenServerInit PROVE StartInfoTrue /\ PendingQuiet
    BY PresenceInit DEF InfoInv
  <1> QED
    BY DEF OpenServerInit, ENetInit, StartInfoTrue, PendingQuiet

(* A step that moves no User, connects nobody, and tells nobody new of the *)
(* start screen.                                                           *)
LEMMA InfoFrame ==
    ASSUME InfoInv, UNCHANGED <<activeUserMap, data>>,
           \A q \in Peers : conn'[q] = "up" => conn[q] = "up",
           \A q \in Peers : Tells(toClient'[q], RoomInfo("test1"))
                               => Tells(toClient[q], RoomInfo("test1"))
    PROVE  StartInfoTrue'
  <1>1. \A p \in Peers :
          conn'[p] = "up" /\ Tells(toClient'[p], RoomInfo("test1"))
              => activeUserMap'[data'[p]].screen = "test1"
    BY StartInfoRestated DEF InfoInv
  <1> QED
    BY <1>1 DEF StartInfoTrue, Tells, RoomInfo

LEMMA ConnectInfo ==
    ASSUME UniqueGuids, InfoInv, NEW p \in Peers, Connect(p)
    PROVE  StartInfoTrue' /\ PendingQuiet'
  <1> USE DEF InfoInv, PresenceInv, TypeInv, ServerTypeOK
  <1>1. PICK g \in Guids, u \in UninitPeer :
          /\ activeUserMap[g] = NULL
          /\ conn' = [conn EXCEPT ![p] = "up"]
          /\ activeUserMap' = Inserted(g, [screen |-> "mainmenu", peer |-> p])
          /\ data' = [data EXCEPT ![p] = g]
          /\ RoomInfoOfConnect(conn', u)
    BY DEF Connect, generate_new_guid
  <1>2. toClient[p] = <<>>
    BY DEF Connect, PendingQuiet
  <1>3. \A q \in Peers : Tells(toClient'[q], RoomInfo("test1"))
                           => Tells(toClient[q], RoomInfo("test1"))
    <2>1. CASE UNCHANGED toClient
      BY <2>1
    <2>2. CASE /\ lastPeer # NULL
               /\ toClient' = enet_peer_send(conn', lastPeer, RoomInfo("mainmenu"))
      <3>1. /\ lastPeer \in Peers
            /\ RoomInfo("mainmenu") \in ServerPackets
            /\ RoomInfo("mainmenu") # RoomInfo("test1")
        BY <2>2, PacketTypes, PacketsDiffer DEF Screens
      <3> QED
        BY <2>2, <3>1, SendTells
    <2> QED
      BY <1>1, <2>1, <2>2 DEF RoomInfoOfConnect
  <1>4. ~Tells(toClient[p], RoomInfo("test1"))
    BY <1>2 DEF Tells
  <1>5. ASSUME NEW q \in Peers, conn'[q] = "up", Tells(toClient'[q], RoomInfo("test1"))
        PROVE  activeUserMap'[data'[q]].screen = "test1"
    <2>1. q # p /\ conn[q] = "up" /\ data'[q] = data[q]
      BY <1>1, <1>3, <1>4, <1>5
    <2>2. activeUserMap[data[q]].screen = "test1"
      BY <1>3, <1>5, <2>1, StartInfoRestated
    <2>3. data[q] \in Guids /\ data[q] # g
      BY <1>1, <2>1, ServerAssumption, ENetAssumption DEF HasUser, Present
    <2>4. activeUserMap'[data[q]] = activeUserMap[data[q]]
      BY <1>1, <2>3 DEF Inserted
    <2> QED
      BY <2>1, <2>2, <2>4
  <1>6. StartInfoTrue'
    BY <1>5 DEF StartInfoTrue, Tells, RoomInfo
  <1>7. PendingQuiet'
    BY <1>1 DEF PendingQuiet, RoomInfoOfConnect, enet_peer_send
  <1> QED
    BY <1>6, <1>7

LEMMA NewGameInfo ==
    ASSUME InfoInv, NEW p \in Peers, NewGame(p)
    PROVE  StartInfoTrue' /\ PendingQuiet'
  <1> USE DEF InfoInv, PresenceInv, TypeInv, ServerTypeOK
  <1>1. PICK g \in Guids :
          /\ g = data[p] /\ Present(p)
          /\ activeUserMap[g] \in User /\ activeUserMap[g].peer = p
    BY ServerAssumption, ENetAssumption DEF NewGame, Selects, Receives, OwnUser, HasUser,
                                            Present
  <1>2. /\ activeUserMap' = [activeUserMap EXCEPT ![g].screen = "test1"]
        /\ toClient' = enet_peer_send(conn, p, RoomInfo("test1"))
        /\ conn' = conn /\ data' = data
    BY <1>1 DEF NewGame, SetScreen, Selects, Receives
  <1>3. /\ activeUserMap'[g].screen = "test1"
        /\ \A h \in Guids : h # g => activeUserMap'[h] = activeUserMap[h]
    BY <1>1, <1>2 DEF User
  <1>4. conn' = conn /\ data' = data
    BY <1>2
  <1>5. ASSUME NEW q \in Peers, conn'[q] = "up", Tells(toClient'[q], RoomInfo("test1"))
        PROVE  activeUserMap'[data'[q]].screen = "test1"
    <2>1. CASE q = p
      BY <1>1, <1>3, <1>4, <2>1
    <2>2. CASE q # p
      <3>1. toClient'[q] = toClient[q]
        BY <1>2, <2>2 DEF enet_peer_send
      <3>2. activeUserMap[data[q]].screen = "test1"
        BY <1>4, <1>5, <3>1, StartInfoRestated
      <3>3. data[q] \in Guids
        BY <1>4, <1>5, ServerAssumption, ENetAssumption DEF HasUser, Present
      <3> QED
        BY <1>3, <1>4, <3>2, <3>3
    <2> QED
      BY <2>1, <2>2
  <1>6. StartInfoTrue'
    BY <1>5 DEF StartInfoTrue, Tells, RoomInfo
  <1>7. PendingQuiet'
    BY <1>2 DEF PendingQuiet, enet_peer_send
  <1> QED
    BY <1>6, <1>7

LEMMA DisconnectInfo ==
    ASSUME InfoInv, NEW p \in Peers, Disconnect(p)
    PROVE  StartInfoTrue' /\ PendingQuiet'
  <1> USE DEF InfoInv, PresenceInv, TypeInv, ServerTypeOK
  <1>1. ASSUME NEW q \in Peers, conn'[q] = "up", Tells(toClient'[q], RoomInfo("test1"))
        PROVE  activeUserMap'[data'[q]].screen = "test1"
    <2>1. /\ q # p /\ conn[q] = "up" /\ data'[q] = data[q]
          /\ toClient' = toClient /\ activeUserMap' = activeUserMap
      BY <1>1 DEF Disconnect
    <2> QED
      BY <1>1, <2>1, StartInfoRestated
  <1>2. StartInfoTrue'
    BY <1>1 DEF StartInfoTrue, Tells, RoomInfo
  <1>3. PendingQuiet'
    BY DEF Disconnect, PendingQuiet
  <1> QED
    BY <1>2, <1>3

LEMMA AnyClientInfo ==
    ASSUME InfoInv, NEW p \in Peers, AnyClient(p)
    PROVE  StartInfoTrue' /\ PendingQuiet'
  <1> USE DEF InfoInv, PresenceInv, TypeInv, ServerTypeOK
  <1>1. UNCHANGED <<activeUserMap, data>>
    BY DEF AnyClient, serverVars
  <1>2. \A q \in Peers : conn'[q] = "up" => conn[q] = "up"
    BY DEF AnyClient, Dial, Drop, ClientSends, ClientReads
  <1>3. ASSUME NEW q \in Peers, Tells(toClient'[q], RoomInfo("test1"))
        PROVE  Tells(toClient[q], RoomInfo("test1"))
    <2>1. CASE Dial(p)
      BY <1>3, <2>1, TellsLess DEF Dial
    <2>2. CASE Drop(p)
      <3>1. PICK n \in 0 .. Len(toClient[p]) :
              toClient' = [toClient EXCEPT ![p] = SubSeq(@, 1, n)]
        BY <2>2 DEF Drop
      <3> QED
        BY <1>3, <3>1, TellsLess
    <2>3. CASE ClientSends(p)
      BY <1>3, <2>3 DEF ClientSends
    <2>4. CASE ClientReads(p)
      BY <1>3, <2>4, TellsLess DEF ClientReads, Read
    <2> QED
      BY <2>1, <2>2, <2>3, <2>4 DEF AnyClient
  <1>4. StartInfoTrue'
    BY <1>1, <1>2, <1>3, InfoFrame
  <1>5. PendingQuiet'
    BY DEF AnyClient, Dial, Drop, ClientSends, ClientReads, Read, PendingQuiet
  <1> QED
    BY <1>4, <1>5

LEMMA OtherPacketInfo ==
    ASSUME InfoInv, NEW p \in Peers,
           \/ LoginOK(p) \/ LoginRefused(p) \/ LoginFault(p) \/ QuitGame(p) \/ MenuSelCrash(p)
           \/ IgnoreCommand(p) \/ ReceiveJunk(p) \/ ReceiveFault(p) \/ ConnectFault(p)
    PROVE  StartInfoTrue' /\ PendingQuiet'
  <1> USE DEF InfoInv, PresenceInv, TypeInv, ServerTypeOK
  <1>1. UNCHANGED <<conn, data, activeUserMap>>
    BY DEF LoginOK, LoginRefused, QuitGame, MenuSelCrash, ReceiveFault, LoginFault,
           IgnoreCommand, ReceiveJunk,
           ConnectFault, Selects, Receives, enetVars
  <1>2. UNCHANGED toClient \/ toClient' = enet_peer_send(conn, p, MenuPacket)
    BY DEF LoginOK, LoginRefused, QuitGame, MenuSelCrash, ReceiveFault, LoginFault,
           IgnoreCommand, ReceiveJunk,
           ConnectFault, enetVars
  <1>3. \A q \in Peers : Tells(toClient'[q], RoomInfo("test1"))
                           => Tells(toClient[q], RoomInfo("test1"))
    BY <1>2, SendTells, PacketTypes, PacketsDiffer
  <1>4. StartInfoTrue'
    BY <1>1, <1>3, InfoFrame
  <1>5. PendingQuiet'
    BY <1>1, <1>2 DEF PendingQuiet, enet_peer_send
  <1> QED
    BY <1>4, <1>5

LEMMA InfoStep ==
    UniqueGuids /\ InfoInv /\ [OpenServerNext]_openServerVars => InfoInv'
  <1> SUFFICES ASSUME UniqueGuids, InfoInv, [OpenServerNext]_openServerVars
               PROVE  StartInfoTrue' /\ PendingQuiet'
    BY PresenceStep DEF InfoInv
  <1>1. CASE UNCHANGED openServerVars
    BY <1>1 DEF openServerVars, serverVars, enetVars, InfoInv, StartInfoTrue, PendingQuiet,
                RoomInfo
  <1>2. CASE OpenServerNext
    <2>1. PICK p \in Peers : ProcessEvent(p) \/ AnyClient(p)
      BY <1>2 DEF OpenServerNext
    <2> QED
      BY <2>1, ConnectInfo, NewGameInfo, DisconnectInfo, AnyClientInfo, OtherPacketInfo
         DEF ProcessEvent, ProcessPacket
  <1> QED
    BY <1>1, <1>2

(***************************************************************************)
(* With guids that do not repeat, room info of the start screen never      *)
(* reaches a connected client whose User is not there -- whatever the      *)
(* unset User::mypeer of a CONNECT event holds.                            *)
(***************************************************************************)
THEOREM StartInfoCorrect ==
    ASSUME UniqueGuids
    PROVE  OpenServerSpec => []StartInfoTrue
  <1>1. OpenServerInit => InfoInv
    BY InfoInit
  <1>2. InfoInv /\ [OpenServerNext]_openServerVars => InfoInv'
    BY InfoStep
  <1>3. InfoInv => StartInfoTrue
    BY DEF InfoInv
  <1> QED
    BY <1>1, <1>2, <1>3, PTL DEF OpenServerSpec

-----------------------------------------------------------------------------
(***************************************************************************)
(* With guids that do not repeat, the dispatch of a packet sends at most   *)
(* one packet, to the peer it came from.                                   *)
(***************************************************************************)
LEMMA RepliesStep ==
    ASSUME PresenceInv, NEW p \in Peers, ProcessEvent(p) \/ AnyClient(p)
    PROVE  RepliesOnly
  <1> USE DEF PresenceInv, TypeInv, ServerTypeOK
  <1> SUFFICES ASSUME NEW q \in Peers, Len(toClient'[q]) > Len(toClient[q]), conn' = conn
               PROVE  /\ Len(toClient'[q]) = Len(toClient[q]) + 1
                      /\ toServer[q] # <<>>
                      /\ toServer'[q] = Tail(toServer[q])
    BY DEF RepliesOnly
  <1>1. toClient' # toClient
    OBVIOUS
  <1>2. CASE NewGame(p)
    <2>1. activeUserMap[data[p]].peer = p
      BY <1>2 DEF NewGame, Selects, Receives, OwnUser, HasUser
    <2> QED
      BY <1>2, <2>1, PacketTypes, SMTT(30) DEF NewGame, Selects, Receives,
                                                enet_peer_send, Dispatched, Screens
  <1>3. CASE LoginOK(p)
    BY <1>3, PacketTypes DEF LoginOK, Receives, enet_peer_send, Dispatched
  <1>4. CASE Connect(p)
    BY <1>4 DEF Connect
  <1>5. CASE Disconnect(p)
    BY <1>1, <1>5 DEF Disconnect
  <1>6. CASE LoginRefused(p) \/ LoginFault(p) \/ QuitGame(p) \/ MenuSelCrash(p)
             \/ IgnoreCommand(p) \/ ReceiveJunk(p) \/ ReceiveFault(p) \/ ConnectFault(p)
    BY <1>1, <1>6 DEF LoginRefused, QuitGame, MenuSelCrash, ReceiveFault, LoginFault,
                      IgnoreCommand, ReceiveJunk,
                      ConnectFault, enetVars
  <1>7. CASE AnyClient(p)
    <2>1. CASE Dial(p)
      BY <2>1 DEF Dial
    <2>2. CASE Drop(p)
      BY <2>2 DEF Drop
    <2>3. CASE ClientSends(p)
      BY <1>1, <2>3 DEF ClientSends
    <2>4. CASE ClientReads(p)
      BY <2>4 DEF ClientReads, Read
    <2> QED
      BY <1>7, <2>1, <2>2, <2>3, <2>4 DEF AnyClient
  <1> QED
    BY <1>2, <1>3, <1>4, <1>5, <1>6, <1>7 DEF ProcessEvent, ProcessPacket

THEOREM RepliesCorrect ==
    ASSUME UniqueGuids
    PROVE  OpenServerSpec => RepliesToRequester
  <1>1. OpenServerInit => PresenceInv
    BY PresenceInit
  <1>2. PresenceInv /\ [OpenServerNext]_openServerVars => PresenceInv'
    BY PresenceStep
  <1>3. PresenceInv /\ [OpenServerNext]_openServerVars => [RepliesOnly]_openServerVars
    BY RepliesStep DEF OpenServerNext
  <1> QED
    BY <1>1, <1>2, <1>3, PTL DEF OpenServerSpec, RepliesToRequester

-----------------------------------------------------------------------------
(***************************************************************************)
(* With guids that do not repeat, the User of a departed client is inert:  *)
(* a dispatch follows the pointer of a connected peer, and OwnUser keeps   *)
(* that from leading to a User nobody points to; a new connection takes a  *)
(* guid under which nothing is stored.                                     *)
(***************************************************************************)
LEMMA InertStep ==
    ASSUME UniqueGuids, PresenceInv, NEW p \in Peers, ProcessEvent(p) \/ AnyClient(p)
    PROVE  StaysInert
  <1> USE DEF PresenceInv, TypeInv, ServerTypeOK
  <1> SUFFICES ASSUME NEW h \in Guids, LeftBehind(h)
               PROVE  /\ activeUserMap'[h] = activeUserMap[h]
                      /\ \A s \in Screens : localUsers'[s][h] = localUsers[s][h]
                      /\ \A q \in Peers : data'[q] # h
    BY DEF StaysInert
  <1>1. h # NULL /\ activeUserMap[h] # NULL /\ \A q \in Peers : data[q] # h
    BY ServerAssumption DEF LeftBehind
  <1>2. CASE Connect(p)
    <2>1. PICK g \in Guids :
            /\ activeUserMap[g] = NULL
            /\ localUsers' = EnterUser(localUsers, "mainmenu", g)
            /\ activeUserMap' = Inserted(g, [screen |-> "mainmenu", peer |-> p])
            /\ data' = [data EXCEPT ![p] = g]
      BY <1>2 DEF Connect, generate_new_guid
    <2>2. g # h
      BY <1>1, <2>1
    <2> QED
      BY <1>1, <2>1, <2>2 DEF EnterUser, Inserted, Screens
  <1>3. CASE NewGame(p)
    <2>1. PICK g \in Guids :
            /\ g = data[p]
            /\ activeUserMap[g] \in User /\ activeUserMap[g].screen = "mainmenu"
      BY <1>3, ServerAssumption, ENetAssumption
         DEF NewGame, Selects, Receives, OwnUser, HasUser, Present
    <2>2. /\ activeUserMap' = [activeUserMap EXCEPT ![g].screen = "test1"]
          /\ localUsers' = EnterUser(ExitUser(localUsers, "mainmenu", g), "test1", g)
          /\ data' = data
      BY <1>3, <2>1 DEF NewGame, SetScreen, Selects, Receives
    <2>3. g # h
      BY <1>1, <2>1
    <2> QED
      BY <1>1, <2>2, <2>3 DEF EnterUser, ExitUser, Screens
  <1>4. CASE Disconnect(p)
    <2>1. PICK g \in Guids : g = data[p] /\ activeUserMap[g] \in User
      BY <1>4, ServerAssumption, ENetAssumption DEF Disconnect, OwnUser, HasUser, Present
    <2>2. /\ localUsers' = ExitUser(localUsers, activeUserMap[g].screen, g)
          /\ data' = [data EXCEPT ![p] = NULL]
          /\ activeUserMap' = activeUserMap
      BY <1>4, <2>1 DEF Disconnect
    <2>3. g # h
      BY <1>1, <2>1
    <2> QED
      BY <1>1, <2>1, <2>2, <2>3 DEF ExitUser, User
  <1>5. CASE \/ LoginOK(p) \/ LoginRefused(p) \/ LoginFault(p) \/ QuitGame(p) \/ MenuSelCrash(p)
             \/ IgnoreCommand(p) \/ ReceiveJunk(p) \/ ReceiveFault(p)
             \/ ConnectFault(p) \/ AnyClient(p)
    <2>1. UNCHANGED <<activeUserMap, localUsers, data>>
      BY <1>5 DEF LoginOK, LoginRefused, QuitGame, MenuSelCrash, ReceiveFault, LoginFault,
                  IgnoreCommand, ReceiveJunk,
                  ConnectFault, AnyClient, Selects, Receives, serverVars
    <2> QED
      BY <1>1, <2>1
  <1> QED
    BY <1>2, <1>3, <1>4, <1>5 DEF ProcessEvent, ProcessPacket

(***************************************************************************)
(* A User that no peer points to is never written, listed or given to      *)
(* another connection again.                                               *)
(***************************************************************************)
THEOREM LeftUsersCorrect ==
    ASSUME UniqueGuids
    PROVE  OpenServerSpec => LeftUsersInert
  <1>1. OpenServerInit => PresenceInv
    BY PresenceInit
  <1>2. PresenceInv /\ [OpenServerNext]_openServerVars => PresenceInv'
    BY PresenceStep
  <1>3. PresenceInv /\ [OpenServerNext]_openServerVars => [StaysInert]_openServerVars
    BY InertStep DEF OpenServerNext
  <1> QED
    BY <1>1, <1>2, <1>3, PTL DEF OpenServerSpec, LeftUsersInert

-----------------------------------------------------------------------------
(***************************************************************************)
(* The lists of guids implement the rooms of Lobby.  Under the invariant a *)
(* client stands in the room of its User's screen, so each action of the   *)
(* server is an action of Lobby or changes no room.                        *)
(***************************************************************************)
Standing(s) == {p \in Peers : Present(p) /\ activeUserMap[data[p]].screen = s}

LEMMA RoomIsScreen == PresenceInv => \A s \in Screens : RoomOf(s) = Standing(s)
  <1> SUFFICES ASSUME PresenceInv, NEW s \in Screens
               PROVE  RoomOf(s) = Standing(s)
    OBVIOUS
  <1>1. ASSUME NEW p \in Peers, Present(p)
        PROVE  localUsers[s][data[p]] > 0 <=> activeUserMap[data[p]].screen = s
    <2>1. data[p] \in Guids
      BY <1>1 DEF Present, PresenceInv, TypeInv, ServerTypeOK
    <2> QED
      BY <1>1, <2>1 DEF PresenceInv, Roster
  <1> QED
    BY <1>1 DEF RoomOf, Standing

LEMMA RoomIsScreenNext == PresenceInv' => \A s \in Screens : RoomOf(s)' = Standing(s)'
  <1>1. (PresenceInv => \A s \in Screens : RoomOf(s) = Standing(s))'
    BY RoomIsScreen, PTL
  <1> QED
    BY <1>1

LEMMA SameRooms ==
    ASSUME UNCHANGED <<localUsers, data>>
    PROVE  \A s \in Screens : RoomOf(s)' = RoomOf(s)
  BY DEF RoomOf, Present

LEMMA ConnectArrives ==
    ASSUME UniqueGuids, PresenceInv, PresenceInv', NEW p \in Peers, Connect(p)
    PROVE  /\ \A s \in Screens : p \notin RoomOf(s)
           /\ RoomOf("mainmenu")' = RoomOf("mainmenu") \cup {p}
           /\ RoomOf("test1")' = RoomOf("test1")
  <1>1. PICK g \in Guids :
          /\ activeUserMap[g] = NULL
          /\ activeUserMap' = Inserted(g, [screen |-> "mainmenu", peer |-> p])
          /\ data' = [data EXCEPT ![p] = g]
    BY DEF Connect, generate_new_guid
  <1>2. ~Present(p)
    BY DEF Connect, PresenceInv, OwnUser, HasUser
  <1>3. /\ data'[p] = g /\ g # NULL /\ activeUserMap'[g].screen = "mainmenu"
        /\ \A q \in Peers : q # p => data'[q] = data[q]
    BY <1>1, ServerAssumption, ENetAssumption DEF Inserted, PresenceInv, TypeInv, ServerTypeOK
  <1>4. ASSUME NEW q \in Peers, q # p, Present(q)
        PROVE  activeUserMap'[data[q]] = activeUserMap[data[q]]
    BY <1>1, <1>4 DEF Inserted, Present, PresenceInv, TypeInv, ServerTypeOK
  <1>5. /\ Standing("mainmenu")' = Standing("mainmenu") \cup {p}
        /\ Standing("test1")' = Standing("test1")
        /\ p \notin Standing("mainmenu") /\ p \notin Standing("test1")
    BY <1>2, <1>3, <1>4 DEF Standing, Present
  <1> QED
    BY <1>5, RoomIsScreen, RoomIsScreenNext DEF Screens

LEMMA NewGamePlays ==
    ASSUME PresenceInv, PresenceInv', NEW p \in Peers, NewGame(p)
    PROVE  /\ p \in RoomOf("mainmenu")
           /\ RoomOf("mainmenu")' = RoomOf("mainmenu") \ {p}
           /\ RoomOf("test1")' = RoomOf("test1") \cup {p}
  <1>1. PICK g \in Guids : /\ g = data[p] /\ Present(p)
                           /\ activeUserMap[g] \in User
                           /\ activeUserMap[g].screen = "mainmenu"
    BY ServerAssumption, ENetAssumption DEF NewGame, Selects, Receives, PresenceInv, TypeInv,
                                            ServerTypeOK,
                            OwnUser, HasUser, Present
  <1>2. /\ activeUserMap' = [activeUserMap EXCEPT ![g].screen = "test1"]
        /\ data' = data
    BY <1>1 DEF NewGame, SetScreen, Selects, Receives
  <1>3. activeUserMap'[g].screen = "test1"
    BY <1>1, <1>2 DEF PresenceInv, TypeInv, ServerTypeOK, User
  <1>4. ASSUME NEW q \in Peers, q # p, Present(q)
        PROVE  activeUserMap'[data[q]] = activeUserMap[data[q]]
    <2>1. data[q] # g
      BY <1>1, <1>4, OneUserPerPeer DEF PresenceInv
    <2> QED
      BY <1>2, <1>4, <2>1 DEF Present, PresenceInv, TypeInv, ServerTypeOK
  <1>5. /\ Standing("mainmenu")' = Standing("mainmenu") \ {p}
        /\ Standing("test1")' = Standing("test1") \cup {p}
        /\ p \in Standing("mainmenu")
    <2>1. data' = data
      BY <1>2
    <2> QED
      BY <1>1, <1>3, <1>4, <2>1 DEF Standing, Present
  <1> QED
    BY <1>5, RoomIsScreen, RoomIsScreenNext DEF Screens

LEMMA DisconnectLeaves ==
    ASSUME PresenceInv, PresenceInv', NEW p \in Peers, Disconnect(p)
    PROVE  /\ \E s \in Screens : p \in RoomOf(s)
           /\ \A s \in Screens : RoomOf(s)' = RoomOf(s) \ {p}
  <1>1. Present(p) /\ activeUserMap[data[p]] \in User
    BY ServerAssumption, ENetAssumption DEF Disconnect, PresenceInv, TypeInv, ServerTypeOK,
                                            OwnUser, HasUser, Present
  <1>2. /\ data'[p] = NULL /\ \A q \in Peers : q # p => data'[q] = data[q]
        /\ activeUserMap' = activeUserMap
    BY DEF Disconnect, PresenceInv, TypeInv, ServerTypeOK
  <1>3. /\ \E s \in Screens : p \in Standing(s)
        /\ \A s \in Screens : Standing(s)' = Standing(s) \ {p}
    BY <1>1, <1>2 DEF Standing, Present, User
  <1> QED
    BY <1>3, RoomIsScreen, RoomIsScreenNext

LobbyRooms == [s \in Screens |-> RoomOf(s)]

LEMMA LobbyInit == OpenServerInit => Presence!Init
  <1> SUFFICES ASSUME OpenServerInit PROVE Presence!Init
    OBVIOUS
  <1>1. \A s \in Screens : RoomOf(s) = {}
    BY DEF OpenServerInit, ServerInit, RoomOf, Present
  <1>2. server = "running"
    BY DEF OpenServerInit, ServerInit
  <1> QED
    BY <1>1, <1>2 DEF Presence!Init, Presence!Rooms, Screens

LEMMA LobbyStep ==
    UniqueGuids /\ PresenceInv /\ PresenceInv' /\ [OpenServerNext]_openServerVars
        => [Presence!Next]_<<server = "running", LobbyRooms>>
  <1> SUFFICES ASSUME UniqueGuids, PresenceInv, PresenceInv', [OpenServerNext]_openServerVars
               PROVE  Presence!Next \/ UNCHANGED <<server = "running", LobbyRooms>>
    OBVIOUS
  <1>1. ASSUME UNCHANGED <<server, localUsers, data>>
        PROVE  UNCHANGED <<server = "running", LobbyRooms>>
    BY <1>1, SameRooms DEF LobbyRooms
  <1>2. CASE UNCHANGED openServerVars
    BY <1>1, <1>2 DEF openServerVars, serverVars
  <1>3. CASE OpenServerNext
    <2>1. PICK p \in Peers : ProcessEvent(p) \/ AnyClient(p)
      BY <1>3 DEF OpenServerNext
    <2>2. CASE Connect(p)
      <3>1. Presence!Arrive(p)
        BY <2>2, ConnectArrives DEF Presence!Arrive, Presence!Rooms, Screens, Connect
      <3> QED
        BY <3>1 DEF Presence!Next
    <2>3. CASE NewGame(p)
      <3>1. Presence!Play(p)
        BY <2>3, NewGamePlays DEF Presence!Play, Presence!Rooms, Screens, NewGame, Selects,
                                  Receives
      <3> QED
        BY <3>1 DEF Presence!Next
    <2>4. CASE Disconnect(p)
      <3>1. Presence!Leave(p)
        BY <2>4, DisconnectLeaves DEF Presence!Leave, Presence!Rooms, Screens, Disconnect
      <3> QED
        BY <3>1 DEF Presence!Next
    <2>5. CASE \/ ReceiveJunk(p) \/ ReceiveFault(p) \/ LoginFault(p) \/ MenuSelCrash(p)
               \/ ConnectFault(p)
      <3>1. Presence!Stop
        BY <2>5, SameRooms DEF Presence!Stop, Screens, ReceiveJunk, MenuSelCrash,
                               ReceiveFault, LoginFault, ConnectFault, Receives
      <3> QED
        BY <3>1 DEF Presence!Next
    <2>6. CASE LoginOK(p) \/ LoginRefused(p) \/ QuitGame(p) \/ IgnoreCommand(p) \/ AnyClient(p)
      BY <1>1, <2>6 DEF LoginOK, LoginRefused, QuitGame, IgnoreCommand, AnyClient, Selects,
                        Receives,
                        serverVars
    <2> QED
      BY <2>1, <2>2, <2>3, <2>4, <2>5, <2>6 DEF ProcessEvent, ProcessPacket
  <1> QED
    BY <1>2, <1>3

(***************************************************************************)
(* With guids that do not repeat, the server implements Lobby: each        *)
(* connected client is in exactly one room, from its CONNECT event in the  *)
(* menu to its DISCONNECT event, and the only move is from the menu to the *)
(* start screen.                                                           *)
(***************************************************************************)
THEOREM LobbyImplemented ==
    ASSUME UniqueGuids
    PROVE  OpenServerSpec => PresenceSpec
  <1>1. OpenServerInit => PresenceInv /\ Presence!Init
    BY PresenceInit, LobbyInit
  <1>2. PresenceInv /\ [OpenServerNext]_openServerVars => PresenceInv'
    BY PresenceStep
  <1>3. PresenceInv /\ PresenceInv' /\ [OpenServerNext]_openServerVars
          => [Presence!Next]_<<server = "running", [s \in Screens |-> RoomOf(s)]>>
    BY LobbyStep DEF LobbyRooms
  <1> QED
    BY <1>1, <1>2, <1>3, PTL DEF OpenServerSpec, PresenceSpec, Presence!Spec
=============================================================================
