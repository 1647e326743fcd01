----------------------------- MODULE MurkServer -----------------------------
(***************************************************************************)
(* The game server, src/cppserver: one thread that dispatches one ENet     *)
(* event after the other.  One action here is the whole dispatch of one    *)
(* event, with every call it makes (SetScreen, ExitUser, EnterUser,        *)
(* SendPacket, ...), because nothing interleaves with a dispatch.          *)
(*                                                                         *)
(* Abstractions: a guid is a value of a small set; a name and the text of  *)
(* a digest are sequences; a JSON packet is the record of the fields that  *)
(* ParseData reads from it, and "FAULT" is the type of the packets that it *)
(* does not survive; the vector of guids in a screen is the number of      *)
(* times each guid occurs in it, which is all that entering, leaving and   *)
(* counting look at.  An SQL statement is not modelled: of a name with a   *)
(* character of SqlKeys in it only what the joined text may do is.         *)
(***************************************************************************)
EXTENDS ENet

CONSTANTS
    Guids,          \* what generate_new_guid can return
    ClientPackets,  \* the packets a client can send
    StoredPw,       \* users.db: the password column of each registered user,
                    \* a text or NULL
    SqlKeys,        \* the characters that end the quoted name in the query
    MenuType,       \* what ParseData finds as "type" in the menu blob
    UniqueGuids,    \* TRUE: generate_new_guid never repeats a guid
    UninitPeer,     \* what using the unset User::mypeer can do (see Connect)
    SqlResult       \* how sqlite3_exec can end ("fault": pw_callback reads
                    \* 128 bytes of a column that has fewer)

Screens == {"mainmenu", "test1"}

User == [screen : Screens, peer : Peers]

ASSUME ServerAssumption ==
    /\ NULL \notin Guids \cup User
    /\ NULL \notin Screens
    /\ UniqueGuids \in BOOLEAN
    /\ UninitPeer \subseteq {"ignored", "stale", "fault"}
    /\ SqlResult \subseteq {"ok", "error", "fault"}

VARIABLES
    server,         \* the process: running, exited or crashed
    activeUserMap,  \* activeUserMap[g]: the User stored under g, or NULL
    localUsers,     \* localUsers[s][g]: occurrences of g in Screen s
    data,           \* data[p]: ENetPeer::data, the guid of the User pointed to
    lastPeer,       \* what the last CONNECT left in _nuser.mypeer's memory
    usersDb         \* users.db: intact, or written by a query with a name in it

serverVars == <<server, activeUserMap, localUsers, data, lastPeer, usersDb>>
openServerVars == <<serverVars, enetVars>>

MenuPacket == [type |-> MenuType, screen |-> NULL]
RoomInfo(s) == [type |-> "ROOM_INFO", screen |-> s]
ServerPackets == {MenuPacket} \cup {RoomInfo(s) : s \in Screens}

ServerInit ==
    /\ server = "running"
    /\ activeUserMap = [g \in Guids |-> NULL]
    /\ localUsers = [s \in Screens |-> [g \in Guids |-> 0]]
    /\ data = [p \in Peers |-> NULL]
    /\ lastPeer = NULL
    /\ usersDb = "intact"

-----------------------------------------------------------------------------
(* Screen and User.                                                        *)

EnterUser(local, s, g) == [local EXCEPT ![s][g] = @ + 1]

(* Only the first match is erased. *)
ExitUser(local, s, g) ==
    IF local[s][g] > 0 THEN [local EXCEPT ![s][g] = @ - 1] ELSE local

(***************************************************************************)
(* SetScreen of a user that is already on a screen, up to its packet:      *)
(* leave that screen, enter s, and remember it.                            *)
(***************************************************************************)
SetScreenNoExit(g, s) ==
    /\ localUsers' = EnterUser(localUsers, s, g)
    /\ activeUserMap' = [activeUserMap EXCEPT ![g].screen = s]

SetScreenForgets(g, s) ==
    /\ localUsers' = EnterUser(ExitUser(localUsers, activeUserMap[g].screen, g), s, g)
    /\ UNCHANGED activeUserMap

SetScreen(g, s) ==
    /\ localUsers' = EnterUser(ExitUser(localUsers, activeUserMap[g].screen, g), s, g)
    /\ activeUserMap' = [activeUserMap EXCEPT ![g].screen = s]

(* unordered_map::insert keeps the User that is already stored under g. *)
Inserted(g, user) ==
    IF activeUserMap[g] = NULL
    THEN [activeUserMap EXCEPT ![g] = user]
    ELSE activeUserMap

-----------------------------------------------------------------------------
(* ENET_EVENT_TYPE_CONNECT.                                                *)

generate_new_guidNotInUse ==
    {g \in Guids : UniqueGuids => \A p \in Peers : data[p] # g}

generate_new_guid == {g \in Guids : UniqueGuids => activeUserMap[g] = NULL}

(***************************************************************************)
(* SetScreen runs before SetPeer, so it sends the room info of the main    *)
(* menu through User::mypeer while that is uninitialised.  In the stack    *)
(* slot there may be a value enet_peer_send refuses, the peer of an        *)
(* earlier CONNECT, or an address whose use faults.                        *)
(***************************************************************************)
RoomInfoOfConnect(peers, u) ==
    \/ /\ u = "ignored"
       /\ UNCHANGED toClient
    \/ /\ u = "stale"
       /\ lastPeer # NULL
       /\ RoomToReply(lastPeer)
       /\ toClient' = enet_peer_send(peers, lastPeer, RoomInfo("mainmenu"))

ConnectNoSetPeer(p) ==
    /\ server = "running"
    /\ conn[p] = "pending"
    /\ \E g \in generate_new_guid, u \in UninitPeer :
          /\ conn' = [conn EXCEPT ![p] = "up"]
          /\ localUsers' = EnterUser(localUsers, "mainmenu", g)
          /\ activeUserMap' = Inserted(g, [screen |-> "mainmenu", peer |-> lastPeer])
          /\ data' = [data EXCEPT ![p] = g]
          /\ lastPeer' = p
          /\ RoomInfoOfConnect(conn', u)
    /\ UNCHANGED <<server, usersDb, toServer>>

Connect(p) ==
    /\ server = "running"
    /\ conn[p] = "pending"
    /\ \E g \in generate_new_guid, u \in UninitPeer :
          /\ conn' = [conn EXCEPT ![p] = "up"]
          /\ localUsers' = EnterUser(localUsers, "mainmenu", g)
          /\ activeUserMap' = Inserted(g, [screen |-> "mainmenu", peer |-> p])
          /\ data' = [data EXCEPT ![p] = g]
          /\ lastPeer' = p
          /\ RoomInfoOfConnect(conn', u)
    /\ UNCHANGED <<server, usersDb, toServer>>

ConnectFault(p) ==
    /\ server = "running"
    /\ conn[p] = "pending"
    /\ "fault" \in UninitPeer
    /\ server' = "crashed"
    /\ UNCHANGED <<activeUserMap, localUsers, data, lastPeer, usersDb, enetVars>>

-----------------------------------------------------------------------------
(* ENET_EVENT_TYPE_RECEIVE.                                                *)

(***************************************************************************)
(* The oldest packet of p is dispatched.  SetString reads the received     *)
(* bytes up to a NUL, and nobody puts one after them.                      *)
(***************************************************************************)
Receives(p, type) ==
    /\ server = "running"
    /\ conn[p] = "up"
    /\ toServer[p] # <<>>
    /\ "nul" \in PacketTail
    /\ Head(toServer[p]).type = type
    /\ toServer' = Dispatched(p)
    /\ UNCHANGED <<conn, data, lastPeer>>

(* Validate fails on the bytes read past the end: exit(1). *)
ReceiveJunk(p) ==
    /\ server = "running"
    /\ conn[p] = "up"
    /\ toServer[p] # <<>>
    /\ "junk" \in PacketTail
    /\ server' = "exited"
    /\ toServer' = Dispatched(p)
    /\ UNCHANGED <<conn, toClient, activeUserMap, localUsers, data, lastPeer, usersDb>>

(***************************************************************************)
(* ParseData takes the payload of every field after the first for a string *)
(* and every element of an array for one, and follows the null it finds    *)
(* where there is none.                                                    *)
(***************************************************************************)
ReceiveFault(p) ==
    /\ Receives(p, "FAULT")
    /\ server' = "crashed"
    /\ UNCHANGED <<activeUserMap, localUsers, toClient, usersDb>>

(***************************************************************************)
(* CheckPassword joins the name into the text of its query.  A name that   *)
(* ends the quotes makes it any query, or several: it may have any result  *)
(* and may write the table, after which any login may have any result.     *)
(***************************************************************************)
Injects(user) == \E i \in DOMAIN user : user[i] \in SqlKeys

AnyResult(user) == Injects(user) \/ usersDb = "written"

Queries(user) ==
    \/ UNCHANGED usersDb
    \/ Injects(user) /\ usersDb' = "written"

(* std::string::find: a text is found in every text that it is a part of. *)
Finds(text, part) ==
    \E i \in 1 .. (Len(text) - Len(part) + 1) : SubSeq(text, i, i + Len(part) - 1) = part

(* Whether CheckPassword may return 1, and whether it may return 0. *)
CheckPasswordAny(user, pass) == AnyResult(user) \/ user \in DOMAIN StoredPw

CheckPasswordEmpty(user, pass) ==
    \/ AnyResult(user)
    \/ /\ "ok" \in SqlResult
       /\ user \in DOMAIN StoredPw
       /\ StoredPw[user] # NULL
       /\ Finds(pass, StoredPw[user])

CheckPassword(user, pass) ==
    \/ AnyResult(user)
    \/ /\ "ok" \in SqlResult
       /\ user \in DOMAIN StoredPw
       /\ StoredPw[user] \notin {NULL, <<>>}
       /\ Finds(pass, StoredPw[user])

CheckPasswordFails(user, pass) ==
    \/ AnyResult(user)
    \/ "error" \in SqlResult
    \/ /\ "ok" \in SqlResult
       /\ user \in DOMAIN StoredPw =>
             /\ StoredPw[user] # NULL
             /\ StoredPw[user] = <<>> \/ ~Finds(pass, StoredPw[user])

(* pw_callback copies 128 bytes of the column, whatever it holds. *)
pw_callbackFaults(user) ==
    \/ AnyResult(user)
    \/ /\ user \in DOMAIN StoredPw
       /\ \/ "fault" \in SqlResult
          \/ "ok" \in SqlResult /\ StoredPw[user] = NULL

LoginOK(p) ==
    /\ Receives(p, "LOGIN_REQ")
    /\ CheckPassword(Head(toServer[p]).user, Head(toServer[p]).pass)
    /\ Queries(Head(toServer[p]).user)
    /\ RoomToReply(p)
    /\ toClient' = enet_peer_send(conn, p, MenuPacket)
    /\ UNCHANGED <<server, activeUserMap, localUsers>>

(* A wrong password, an unknown user and an SQL error are all answered by  *)
(* nothing.                                                                *)
LoginRefused(p) ==
    /\ Receives(p, "LOGIN_REQ")
    /\ CheckPasswordFails(Head(toServer[p]).user, Head(toServer[p]).pass)
    /\ Queries(Head(toServer[p]).user)
    /\ UNCHANGED <<server, activeUserMap, localUsers, toClient>>

LoginFault(p) ==
    /\ Receives(p, "LOGIN_REQ")
    /\ pw_callbackFaults(Head(toServer[p]).user)
    /\ Queries(Head(toServer[p]).user)
    /\ server' = "crashed"
    /\ UNCHANGED <<activeUserMap, localUsers, toClient>>

(***************************************************************************)
(* MENUSEL: Screen::Execute calls menuFunctions[select] of the screen the  *)
(* sender's User stands on.  Only the main menu has any: <<nullptr,        *)
(* new_game, quit_game>>.                                                  *)
(***************************************************************************)
Selects(p, option) ==
    /\ Receives(p, "MENUSEL")
    /\ activeUserMap[data[p]].screen = "mainmenu"
    /\ Head(toServer[p]).select = option

NewGameToLast(p) ==
    /\ Selects(p, "1")
    /\ SetScreen(data[p], "test1")
    /\ RoomToReply(lastPeer)
    /\ toClient' = enet_peer_send(conn, lastPeer, RoomInfo("test1"))
    /\ UNCHANGED <<server, usersDb>>

NewGameSilent(p) ==
    /\ Selects(p, "1")
    /\ SetScreen(data[p], "test1")
    /\ UNCHANGED <<server, usersDb, toClient>>

NewGame(p) ==
    LET up == activeUserMap[data[p]]
    IN  /\ Selects(p, "1")
        /\ SetScreen(data[p], "test1")
        /\ RoomToReply(up.peer)
        /\ toClient' = enet_peer_send(conn, up.peer, RoomInfo("test1"))
        /\ UNCHANGED <<server, usersDb>>

(* quit_game only prints. *)
QuitGame(p) ==
    /\ Selects(p, "2")
    /\ UNCHANGED <<server, activeUserMap, localUsers, usersDb, toClient>>

(***************************************************************************)
(* Any other selection leaves the program: stoi throws on a character that *)
(* is no digit, option 0 is a null function, and an index past the end of  *)
(* menuFunctions (any index on a screen without a menu) calls what is not  *)
(* a function.                                                             *)
(***************************************************************************)
MenuSelCrash(p) ==
    /\ Receives(p, "MENUSEL")
    /\ \/ activeUserMap[data[p]].screen # "mainmenu"
       \/ Head(toServer[p]).select \notin {"1", "2"}
    /\ server' = "crashed"
    /\ UNCHANGED <<activeUserMap, localUsers, usersDb, toClient>>

(* ProcessPacket has no branch for a player's command, nor for a packet    *)
(* without a type, which "PCOMMAND" stands for as well.                    *)
IgnoreCommand(p) ==
    /\ Receives(p, "PCOMMAND")
    /\ UNCHANGED <<server, activeUserMap, localUsers, usersDb, toClient>>

-----------------------------------------------------------------------------
(***************************************************************************)
(* ENET_EVENT_TYPE_DISCONNECT.  The User stays in activeUserMap for good.  *)
(***************************************************************************)
DisconnectNoExit(p) ==
    /\ server = "running"
    /\ conn[p] = "zombie"
    /\ data' = [data EXCEPT ![p] = NULL]
    /\ conn' = [conn EXCEPT ![p] = "free"]
    /\ UNCHANGED <<server, activeUserMap, localUsers, lastPeer, usersDb, toServer, toClient>>

DisconnectStays(p) ==
    /\ server = "running"
    /\ conn[p] = "zombie"
    /\ conn' = [conn EXCEPT ![p] = "free"]
    /\ UNCHANGED <<server, activeUserMap, localUsers, data, lastPeer, usersDb,
                   toServer, toClient>>

DisconnectErases(p) ==
    LET g == data[p]
    IN  /\ server = "running"
        /\ conn[p] = "zombie"
        /\ localUsers' = ExitUser(localUsers, activeUserMap[g].screen, g)
        /\ activeUserMap' = [activeUserMap EXCEPT ![g] = NULL]
        /\ conn' = [conn EXCEPT ![p] = "free"]
        /\ UNCHANGED <<server, data, lastPeer, usersDb, toServer, toClient>>

Disconnect(p) ==
    LET g == data[p]
    IN  /\ server = "running"
        /\ conn[p] = "zombie"
        /\ localUsers' = ExitUser(localUsers, activeUserMap[g].screen, g)
        /\ data' = [data EXCEPT ![p] = NULL]
        /\ conn' = [conn EXCEPT ![p] = "free"]
        /\ UNCHANGED <<server, activeUserMap, lastPeer, usersDb, toServer, toClient>>

-----------------------------------------------------------------------------
ProcessPacket(p) ==
    \/ LoginOK(p)
    \/ LoginRefused(p)
    \/ LoginFault(p)
    \/ NewGame(p)
    \/ QuitGame(p)
    \/ MenuSelCrash(p)
    \/ IgnoreCommand(p)

ProcessEvent(p) ==
    \/ Connect(p)
    \/ ConnectFault(p)
    \/ ReceiveJunk(p)
    \/ ReceiveFault(p)
    \/ ProcessPacket(p)
    \/ Disconnect(p)

(***************************************************************************)
(* The other end of each connection, as unconstrained as the transport     *)
(* leaves it: a client may send any packet, or any two, at any time.       *)
(***************************************************************************)
ClientSends(p) ==
    \E m \in ClientPackets, rest \in {<<>>} \cup {<<n>> : n \in ClientPackets} :
        /\ conn[p] \in {"pending", "up"}
        /\ RoomToSend(p, <<m>> \o rest)
        /\ toServer' = Carried(p, <<m>> \o rest)
        /\ UNCHANGED <<conn, toClient>>

ClientReads(p) ==
    /\ toClient[p] # <<>>
    /\ toClient' = Read(p)
    /\ UNCHANGED <<conn, toServer>>

AnyClient(p) ==
    /\ Dial(p) \/ Drop(p) \/ ClientSends(p) \/ ClientReads(p)
    /\ UNCHANGED serverVars

OpenServerInit == ServerInit /\ ENetInit

OpenServerNext == \E p \in Peers : ProcessEvent(p) \/ AnyClient(p)

OpenServerSpec == OpenServerInit /\ [][OpenServerNext]_openServerVars

-----------------------------------------------------------------------------
(***************************************************************************)
(* Type correctness.  ENetPeer::data is a raw pointer into activeUserMap:  *)
(* it must point at an element that exists.                                *)
(***************************************************************************)
ServerTypeOK ==
    /\ server \in {"running", "exited", "crashed"}
    /\ activeUserMap \in [Guids -> User \cup {NULL}]
    /\ localUsers \in [Screens -> [Guids -> Nat]]
    /\ data \in [Peers -> {g \in Guids : activeUserMap[g] # NULL} \cup {NULL}]
    /\ lastPeer \in Peers \cup {NULL}
    /\ usersDb \in {"intact", "written"}
    /\ conn \in [Peers -> ConnStates]
    /\ toServer \in [Peers -> Seq(ClientPackets)]
    /\ toClient \in [Peers -> Seq(ServerPackets)]

Present(p) == data[p] # NULL

(***************************************************************************)
(* A peer has a User exactly from its CONNECT event to its DISCONNECT      *)
(* event.  (ProcessEvent casts ENetPeer::data without looking.)            *)
(***************************************************************************)
HasUser == \A p \in Peers : Present(p) <=> conn[p] \in {"up", "zombie"}

(***************************************************************************)
(* The User a peer has sends to this very peer, so no two peers share a    *)
(* User.  (SetScreen sends to User::mypeer, not to the peer of the event.) *)
(***************************************************************************)
OwnUser ==
    /\ HasUser
    /\ \A p \in Peers : Present(p) => activeUserMap[data[p]].peer = p

(***************************************************************************)
(* The rosters and the users agree: a guid is in the list of a screen once *)
(* when a connected peer's User stands there, and not at all otherwise --  *)
(* nobody is listed twice, on two screens, or after leaving.               *)
(***************************************************************************)
Roster ==
    \A s \in Screens, g \in Guids :
        localUsers[s][g] =
            IF \E p \in Peers : data[p] = g /\ activeUserMap[g].screen = s
            THEN 1 ELSE 0

(***************************************************************************)
(* Room info of the start screen on its way to a connected client is true: *)
(* the client's User stands on the start screen when it arrives.           *)
(***************************************************************************)
StartInfoTrue ==
    \A p \in Peers : \A i \in 1 .. Len(toClient[p]) :
        conn[p] = "up" /\ toClient[p][i] = RoomInfo("test1")
            => activeUserMap[data[p]].screen = "test1"

(***************************************************************************)
(* Outside the dispatch of a CONNECT event the server sends only to the    *)
(* peer whose packet it is dispatching, and at most one packet.            *)
(***************************************************************************)
RepliesOnly ==
    \A p \in Peers :
        Len(toClient'[p]) > Len(toClient[p]) /\ conn' = conn =>
            /\ Len(toClient'[p]) = Len(toClient[p]) + 1
            /\ toServer[p] # <<>>
            /\ toServer'[p] = Tail(toServer[p])

RepliesToRequester == [][RepliesOnly]_openServerVars

(***************************************************************************)
(* Nothing ever erases a User, so those of departed clients pile up        *)
(* (server.cpp:74, 101-105).  They are inert: a User that no peer points   *)
(* to is never written again, never listed again and never becomes the     *)
(* User of another connection.                                             *)
(***************************************************************************)
LeftBehind(g) == activeUserMap[g] # NULL /\ \A p \in Peers : data[p] # g

StaysInert ==
    \A g \in Guids : LeftBehind(g) =>
        /\ activeUserMap'[g] = activeUserMap[g]
        /\ \A s \in Screens : localUsers'[s][g] = localUsers[s][g]
        /\ \A p \in Peers : data'[p] # g

LeftUsersInert == [][StaysInert]_openServerVars

(***************************************************************************)
(* The lists of guids implement rooms of clients.                          *)
(***************************************************************************)
RoomOf(s) == {p \in Peers : Present(p) /\ localUsers[s][data[p]] > 0}

Presence == INSTANCE Lobby WITH
    open <- server = "running",
    room <- [s \in Screens |-> RoomOf(s)]

PresenceSpec == Presence!Spec

(***************************************************************************)
(* "send a packet with all of the room info." (src/cppserver/user.cpp:59): *)
(* a client that enters the main menu is sent the room info of that screen *)
(* by the SetScreen that puts it there.                                    *)
(***************************************************************************)
ConnectInformed ==
    [][\A p \in Peers : ~Present(p) /\ Present(p)' =>
          toClient'[p] = Append(toClient[p], RoomInfo("mainmenu"))]_openServerVars
=============================================================================
