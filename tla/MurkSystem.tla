----------------------------- MODULE MurkSystem -----------------------------
(***************************************************************************)
(* The server and its clients together: MurkServer and MurkClient joined   *)
(* by the queues of ENet.  Each of them is closed by the other here, where *)
(* OpenServerSpec and OpenClientSpec let the other end do anything.        *)
(***************************************************************************)
EXTENDS MurkServer, MurkClient

systemVars == <<serverVars, client, enetVars>>

SystemInit == ServerInit /\ ClientInit /\ ENetInit

(* One turn of the server's loop. *)
ServerMoves(p) == ProcessEvent(p) /\ UNCHANGED client

(* A client is launched only against a server that answers: Connect ends   *)
(* the process after five seconds otherwise.                               *)
ClientMoves(p) ==
    /\ ~Running(p) => server = "running"
    /\ ClientStep(p)
    /\ UNCHANGED serverVars

LinkMoves(p) == Drop(p) /\ UNCHANGED <<serverVars, client>>

SystemNext == \E p \in Peers : ServerMoves(p) \/ ClientMoves(p) \/ LinkMoves(p)

SystemSpec == SystemInit /\ [][SystemNext]_systemVars

(***************************************************************************)
(* Both programs call enet_host_service in a loop without end, so an event *)
(* that is due is handled in the end, and ENet gives up a peer that is     *)
(* gone.  The user is under no obligation to press a key, and a link that  *)
(* works need not break.                                                   *)
(***************************************************************************)
GivesUp(p) == ~Running(p) /\ LinkMoves(p)

ClientReceives(p) == HandlePacket(p) /\ UNCHANGED serverVars

Fairness ==
    \A p \in Peers :
        /\ WF_systemVars(ServerMoves(p))
        /\ WF_systemVars(ClientReceives(p))
        /\ WF_systemVars(GivesUp(p))

FairSystemSpec == SystemSpec /\ Fairness

-----------------------------------------------------------------------------
OnScreen(p, s) == Present(p) /\ activeUserMap[data[p]].screen = s

(***************************************************************************)
(* The server remembers no login: MENUSEL is obeyed from anyone.  Still a  *)
(* plain client whose User stands on the start screen has sent a digest    *)
(* that the text stored for its user name is a part of, whatever the other *)
(* clients send, as long as no name with a character of SqlKeys was looked *)
(* up.                                                                     *)
(***************************************************************************)
LoginBeforePlay ==
    \A p \in Peers :
        OnScreen(p, "test1") /\ client[p].plain /\ ~AnyResult(client[p].user) =>
            /\ client[p].user \in DOMAIN StoredPw
            /\ StoredPw[client[p].user] \notin {NULL, <<>>}
            /\ Finds(client[p].pass, StoredPw[client[p].user])

Count(queue, type) == Cardinality({i \in DOMAIN queue : queue[i].type = type})

(***************************************************************************)
(* A login request turns into at most one menu, one prompt and one         *)
(* selection, of which there is only one at a time anywhere, and none is   *)
(* left once the User stands on the start screen.  (A selection that       *)
(* arrives there ends the server: the screen has no menu.)  This of plain  *)
(* clients: an unset FLAG_INPUT_MENU is a second prompt, and quoted text   *)
(* may be read as a second selection.                                      *)
(***************************************************************************)
SelectionsDue(p) ==
    Count(toServer[p], "LOGIN_REQ") + Count(toClient[p], MenuType)
        + (IF client[p].inputMenu THEN 1 ELSE 0) + Count(toServer[p], "MENUSEL")

OneSelection ==
    \A p \in Peers : Running(p) /\ client[p].plain =>
        SelectionsDue(p) <= IF OnScreen(p, "test1") THEN 0 ELSE 1

(***************************************************************************)
(* Of the packets of plain clients the server survives all but a selection *)
(* made on the main menu that is none of its options, and a login whose    *)
(* query may end in pw_callback or was never the one meant.  (Any other    *)
(* client has packets that it does not survive.)                           *)
(***************************************************************************)
BadSelection(p, packet) ==
    /\ packet.type = "MENUSEL"
    /\ OnScreen(p, "mainmenu")
    /\ packet.select \notin {"1", "2"}

BadLogin(packet) == packet.type = "LOGIN_REQ" /\ pw_callbackFaults(packet.user)

PlainPacketsSurvived ==
    [][\A p \in Peers :
          /\ server = "running" /\ server' = "crashed"
          /\ toServer'[p] # toServer[p]
          /\ client[p].plain
          => BadSelection(p, Head(toServer[p])) \/ BadLogin(Head(toServer[p]))]_systemVars

(***************************************************************************)
(* A client that takes commands is where it was last told to be, except    *)
(* that it was shown the main menu's room if the CONNECT of another        *)
(* connection, or of its own, sent through the unset mypeer.  Room info of *)
(* the start screen is never early: the User of the client stands there.   *)
(***************************************************************************)
Agreement ==
    \A p \in Peers : Running(p) /\ client[p].state = "NORMAL" /\ conn[p] = "up" =>
        \/ client[p].shown = "test1" /\ OnScreen(p, "test1")
        \/ client[p].shown = "mainmenu" /\ "stale" \in UninitPeer

(***************************************************************************)
(* The answer to the password prompt leaves a plain client as a login      *)
(* request and as nothing else, unless it was shown the main menu's room.  *)
(* (Enter looks at the prompts and then at the state, so the line of a     *)
(* client that was told of a room too early is taken for a command too.)   *)
(***************************************************************************)
PasswordStaysInLogin ==
    [][\A p \in Peers :
          /\ client[p].inputPass /\ ~client'[p].inputPass
          /\ client'[p].plain
          /\ client[p].shown # "mainmenu"
          => \A packet \in NewPackets(p) : packet.type = "LOGIN_REQ"]_systemVars

-----------------------------------------------------------------------------
Connected(p) == server = "running" /\ Running(p) /\ conn[p] = "up"

Queued(p, packet) == packet \in ToSet(toServer[p])

(***************************************************************************)
(* "Create and send login packet - Receive: welcome/main menu packet"      *)
(* (README.md:34-35): a client that has sent the right name and password   *)
(* is shown the menu prompt, unless the connection or a program ends.      *)
(***************************************************************************)
LoginAnswered ==
    \A p \in Peers : \A user \in DOMAIN StoredPw :
        /\ Connected(p)
        /\ StoredPw[user] \notin {NULL, <<>>}
        /\ ~Injects(user)
        /\ Queued(p, LoginReq(user, StoredPw[user]))
        ~> client[p].inputMenu \/ ~Connected(p) \/ usersDb = "written"

(***************************************************************************)
(* A client that chose "New Game" comes to the start screen and takes      *)
(* commands, unless the connection or a program ends.                      *)
(***************************************************************************)
SelectStart ==
    \A p \in Peers :
        Connected(p) /\ Queued(p, MenuSel("1"))
            ~> (client[p].state = "NORMAL" /\ client[p].shown = "test1") \/ ~Connected(p)

(***************************************************************************)
(* A client that died leaves the roster of the screen it stood on.         *)
(***************************************************************************)
GoneLeaves ==
    \A p \in Peers :
        ~Running(p) /\ Present(p)
            ~> (\A s \in Screens : p \notin RoomOf(s)) \/ server # "running"
=============================================================================
