----------------------------- MODULE MurkClient -----------------------------
(***************************************************************************)
(* The terminal client, src/cppclient.  main drains the ENet events, then  *)
(* calls GameLoop and ProcessInput, again and again; nothing interleaves   *)
(* with the last two, so an action is either the handling of one event or  *)
(* GameLoop followed by one key.                                           *)
(*                                                                         *)
(* Abstractions: the input buffer and what it is copied to are sequences   *)
(* of keys, of which the model has few; the base64 text of a SHA3-512      *)
(* digest is Digest of the password; a packet is the record of its fields, *)
(* and of one with a key of Quoting in it the model says which packets the *)
(* server may take its text for; what is printed and echoed is left out,   *)
(* except for which room was shown.                                        *)
(***************************************************************************)
EXTENDS ENet, VerbContext

CONSTANTS
    Keys,           \* the printable keys the user presses
    Quoting,        \* the keys with a meaning in JSON text: " and \
    ReadAs,         \* what the server may read of a packet with such a key
    InputSize,      \* bound of the model: keys that fit the input buffer and
                    \* leave a NUL behind them (255 of its 256 bytes)
    FlagInit,       \* what the unset FLAG_INPUT_MENU can hold at first
    DigestRead,     \* what Base64encode finds of the digest (see TakenAsPass)
    PastTable,      \* reading default_context[27]: "sorry" or "fault"
    FromServer      \* the packets the server can send

ASSUME ClientAssumption ==
    /\ Quoting \subseteq Keys
    /\ InputSize \in Nat \ {0}
    /\ FlagInit \subseteq BOOLEAN
    /\ DigestRead \subseteq {"sha3", "overwritten"}
    /\ PastTable \subseteq {"sorry", "fault"}
    /\ \A i \in DOMAIN default_context : Len(default_context[i]) <= InputSize

VARIABLE client     \* client[p]: the process whose connection is in slot p

(* Encrypt and Base64encode: no two passwords share a digest, though parts *)
(* of the text they may share.                                             *)
Digest(read, pass) == << <<read>>, pass >>

LoginReq(user, pass) == [type |-> "LOGIN_REQ", user |-> user, pass |-> pass]
MenuSel(key) == [type |-> "MENUSEL", select |-> key]
PCommand(cmd, s) == [type |-> "PCOMMAND", cmd |-> cmd, s |-> s]

(***************************************************************************)
(* Of a process that ended the model remembers the name and the password   *)
(* it had.  `shown' is the room that was last printed.  input_ctr is the   *)
(* length of the input except before it is first set, which `ctrSet'       *)
(* tells.  `plain' is a history variable, which decides nothing: the       *)
(* process found FLAG_INPUT_MENU cleared, and every packet it sent reads   *)
(* as it was meant.                                                        *)
(***************************************************************************)
NoClient ==
    [proc |-> "off", state |-> "LOGGING_IN", user |-> <<>>, pass |-> <<>>,
     inputUser |-> FALSE, inputPass |-> FALSE, inputMenu |-> FALSE,
     input |-> <<>>, ctrSet |-> FALSE, verb |-> <<>>, shown |-> NULL,
     plain |-> TRUE]

Ended(c, how) ==
    [NoClient EXCEPT !.proc = how, !.user = c.user, !.pass = c.pass, !.plain = c.plain]

ClientInit == client = [p \in Peers |-> NoClient]

Running(p) == client[p].proc = "running"

Becomes(p, c) == client' = [client EXCEPT ![p] = c]

-----------------------------------------------------------------------------
(* main up to its loop: Client(), Connect.  The server has a free slot.    *)
Launch(p) ==
    /\ ~Running(p)
    /\ Dial(p)
    /\ \E menu \in FlagInit :
          Becomes(p, [NoClient EXCEPT !.proc = "running", !.inputMenu = menu,
                                      !.plain = ~menu])

-----------------------------------------------------------------------------
(* ProcessEvent and ProcessPacket.                                         *)

ShownNoPrompt(c, packet) ==
    CASE packet.type = "ROOM_INFO" ->
            [c EXCEPT !.state = "NORMAL", !.shown = packet.screen]
      [] OTHER -> c

Shown(c, packet) ==
    CASE packet.type = "MENU_MAIN" -> [c EXCEPT !.inputMenu = TRUE]
      [] packet.type = "ROOM_INFO" ->
            [c EXCEPT !.state = "NORMAL", !.shown = packet.screen]
      [] OTHER -> c

HandlePacket(p) ==
    /\ Running(p)
    /\ toClient[p] # <<>>
    /\ "nul" \in PacketTail
    /\ toClient' = Read(p)
    /\ Becomes(p, Shown(client[p], Head(toClient[p])))
    /\ UNCHANGED <<conn, toServer>>

(* The bytes read past the end of the packet make it no JSON: it is lost.  *)
HandleJunk(p) ==
    /\ Running(p)
    /\ toClient[p] # <<>>
    /\ "junk" \in PacketTail
    /\ toClient' = Read(p)
    /\ UNCHANGED <<client, conn, toServer>>

(***************************************************************************)
(* The client's ENet gives the server up: ProcessEvent reads the packet of *)
(* an event that has none before it looks at the type of the event.        *)
(***************************************************************************)
LinkLost(p) ==
    /\ Running(p)
    /\ Becomes(p, Ended(client[p], "crashed"))
    /\ UNCHANGED enetVars

-----------------------------------------------------------------------------
(* GameLoop: the prompts.                                                  *)

PromptUser(c) ==
    IF c.state = "LOGGING_IN" /\ ~c.inputUser /\ c.user = <<>>
    THEN [c EXCEPT !.inputUser = TRUE, !.ctrSet = TRUE]
    ELSE c

PromptPassAgain(c) ==
    IF c.state = "LOGGING_IN" /\ ~c.inputPass /\ c.user # <<>>
    THEN [c EXCEPT !.inputPass = TRUE, !.ctrSet = TRUE]
    ELSE c

PromptPass(c) ==
    IF c.state = "LOGGING_IN" /\ ~c.inputPass /\ c.user # <<>> /\ c.pass = <<>>
    THEN [c EXCEPT !.inputPass = TRUE, !.ctrSet = TRUE]
    ELSE c

GameLoop(c) == PromptPass(PromptUser(c))

-----------------------------------------------------------------------------
(* ProcessInput.                                                           *)

(* UserPass, Select and AddSubject join the text of a field unescaped. *)
Quoted(packet) ==
    CASE packet.type = "LOGIN_REQ" -> ToSet(packet.user) \cap Quoting # {}
      [] packet.type = "MENUSEL"   -> packet.select \in Quoting
      [] packet.type = "PCOMMAND"  -> ToSet(packet.s) \cap Quoting # {}

(***************************************************************************)
(* What the server can read of a packet that passed Validate.  A quoted    *)
(* text that is JSON may hold other fields than were meant, the last of a  *)
(* name counts, and "type" is such a name; one quoted key alone is never   *)
(* JSON.                                                                   *)
(***************************************************************************)
Readings(packet) ==
    CASE ~Quoted(packet)           -> {packet}
      [] packet.type = "MENUSEL"   -> {}
      [] OTHER                     -> ReadAs

(* The packets of one key are queued in order, all of them JSON.           *)
Queues(p, packets, c) ==
    /\ RoomToSend(p, packets)
    /\ \E read \in [DOMAIN packets -> ReadAs \cup ToSet(packets)] :
          /\ \A i \in DOMAIN packets : read[i] \in Readings(packets[i])
          /\ toServer' = Carried(p, read)
    /\ Becomes(p, [c EXCEPT !.plain = @ /\ \A i \in DOMAIN packets : ~Quoted(packets[i])])
    /\ UNCHANGED <<conn, toClient>>

(* Or one of them is not: the process ends before ENet could send any.     *)
Breaks(p, packets) ==
    /\ \E i \in DOMAIN packets : Quoted(packets[i])
    /\ Becomes(p, Ended(client[p], "exited"))
    /\ UNCHANGED enetVars

Sends(p, packets, c) == Queues(p, packets, c) \/ Breaks(p, packets)

Cleared(c) == [c EXCEPT !.input = <<>>, !.ctrSet = TRUE]

(* A printable key where there is room for it: the menu takes it at once.  *)
TypeKeyMenuStays(p, key) ==
    LET c == GameLoop(client[p])
    IN  /\ Running(p)
        /\ c.ctrSet /\ Len(c.input) < InputSize
        /\ \/ /\ c.inputMenu
              /\ Sends(p, <<MenuSel(key)>>, Cleared(c))
           \/ /\ ~c.inputMenu
              /\ Sends(p, <<>>, [c EXCEPT !.input = Append(@, key)])

TypeKey(p, key) ==
    LET c == GameLoop(client[p])
    IN  /\ Running(p)
        /\ c.ctrSet /\ Len(c.input) < InputSize
        /\ \/ /\ c.inputMenu
              /\ Sends(p, <<MenuSel(key)>>, Cleared([c EXCEPT !.inputMenu = FALSE]))
           \/ /\ ~c.inputMenu
              /\ Sends(p, <<>>, [c EXCEPT !.input = Append(@, key)])

(***************************************************************************)
(* Nothing keeps input_ctr inside the buffer.  A key that leaves no NUL    *)
(* after the line, or a key or DELETE before input_ctr was ever set, makes *)
(* what follows undefined; the model ends the process there.               *)
(***************************************************************************)
Overrun(p) ==
    LET c == GameLoop(client[p])
    IN  /\ Running(p)
        /\ ~c.ctrSet \/ Len(c.input) >= InputSize
        /\ Becomes(p, Ended(c, "crashed"))
        /\ UNCHANGED enetVars

(* Enter: what the input is taken for.  Each part sees what the ones       *)
(* before it did.                                                          *)
TakenAsUserAsksOn(c) == IF c.inputUser THEN [c EXCEPT !.user = c.input] ELSE c

TakenAsUser(c) ==
    IF c.inputUser THEN [c EXCEPT !.user = c.input, !.inputUser = FALSE] ELSE c

(***************************************************************************)
(* Encrypt returns a pointer into its own stack frame, so Base64encode     *)
(* reads the digest or what has overwritten it since.                      *)
(***************************************************************************)
TakenAsPassPlain(c, read) ==
    IF c.inputPass THEN [c EXCEPT !.pass = c.input, !.inputPass = FALSE] ELSE c

TakenAsPass(c, read) ==
    IF c.inputPass
    THEN [c EXCEPT !.pass = Digest(read, c.input), !.inputPass = FALSE]
    ELSE c

LoginSent(c, read) ==
    IF c.inputPass THEN <<LoginReq(c.user, Digest(read, c.input))>> ELSE <<>>

(* The verb and the words of a command line in STATE_NORMAL.               *)
CommandVerb(c) == IF c.verb = <<>> THEN LineContext(c.input).verb ELSE c.verb
CommandRest(c) == IF c.verb = <<>> THEN LineContext(c.input).rest ELSE c.input

CommandSentAnyState(c) ==
    IF CommandVerb(c) = <<>> THEN <<>> ELSE <<PCommand(CommandVerb(c), <<>>)>>

CommandSent(c) ==
    IF c.state # "NORMAL" \/ CommandVerb(c) = <<>> THEN <<>>
    ELSE <<PCommand(CommandVerb(c),
                    IF CommandVerb(c) = MURK_VERB_SAY THEN SayWords(CommandRest(c)) ELSE <<>>)>>

CommandDoneKeepsVerb(c) == c

CommandDone(c) == IF c.state = "NORMAL" THEN [c EXCEPT !.verb = <<>>] ELSE c

(* A line without a verb reads the entry past the end of the table.        *)
NoVerb(c) == c.state = "NORMAL" /\ CommandVerb(c) = <<>>

Enter(p) ==
    LET c == TakenAsUser(GameLoop(client[p]))
    IN  /\ Running(p)
        /\ NoVerb(c) => "sorry" \in PastTable
        /\ \E read \in DigestRead :
              Sends(p, LoginSent(c, read) \o CommandSent(c),
                    Cleared(CommandDone(TakenAsPass(c, read))))

EnterFault(p) ==
    LET c == TakenAsUser(GameLoop(client[p]))
    IN  /\ Running(p)
        /\ NoVerb(c) /\ "fault" \in PastTable
        /\ Becomes(p, Ended(c, "crashed"))
        /\ UNCHANGED enetVars

(* TAB: without a context, complete the verb or at least capitalize.       *)
Completed(c) ==
    LET verb == Completion(c.input)
    IN  IF verb # <<>>
        THEN [c EXCEPT !.verb = verb, !.input = verb, !.ctrSet = TRUE]
        ELSE [c EXCEPT !.input = Upper(@)]

Tab(p) ==
    LET c == GameLoop(client[p])
    IN  /\ Running(p)
        /\ Becomes(p, IF c.verb = <<>> THEN Completed(c) ELSE c)
        /\ UNCHANGED enetVars

(* DELETE: a line that becomes empty has no context any more.              *)
Shortened(c) ==
    LET rest == Front(c.input)
    IN  [c EXCEPT !.input = rest, !.verb = IF rest = <<>> THEN <<>> ELSE @]

Delete(p) ==
    LET c == GameLoop(client[p])
    IN  /\ Running(p)
        /\ c.ctrSet
        /\ Becomes(p, IF c.input # <<>> THEN Shortened(c) ELSE c)
        /\ UNCHANGED enetVars

(* No key: GameLoop alone. *)
NoKey(p) ==
    /\ Running(p)
    /\ Becomes(p, GameLoop(client[p]))
    /\ UNCHANGED enetVars

-----------------------------------------------------------------------------
ProcessInput(p) ==
    \/ \E key \in Keys : TypeKey(p, key)
    \/ Overrun(p)
    \/ Enter(p)
    \/ EnterFault(p)
    \/ Tab(p)
    \/ Delete(p)
    \/ NoKey(p)

ClientStep(p) ==
    \/ Launch(p)
    \/ HandlePacket(p)
    \/ HandleJunk(p)
    \/ LinkLost(p)
    \/ ProcessInput(p)

-----------------------------------------------------------------------------
(* The server's end of the connection, as unconstrained as the transport   *)
(* leaves it.                                                              *)

Sent(p, packet) ==
    /\ conn[p] = "up"
    /\ RoomToReply(p)
    /\ toClient' = enet_peer_send(conn, p, packet)
    /\ UNCHANGED <<conn, toServer>>

AnyServer(p) ==
    /\ UNCHANGED client
    /\ \/ Drop(p)
       \/ \E packet \in FromServer : Sent(p, packet)
       \/ /\ conn[p] = "pending"
          /\ conn' = [conn EXCEPT ![p] = "up"]
          /\ UNCHANGED <<toServer, toClient>>
       \/ /\ conn[p] = "up" /\ toServer[p] # <<>>
          /\ toServer' = Dispatched(p)
          /\ UNCHANGED <<conn, toClient>>
       \/ /\ conn[p] = "zombie"
          /\ conn' = [conn EXCEPT ![p] = "free"]
          /\ UNCHANGED <<toServer, toClient>>

openClientVars == <<client, enetVars>>

OpenClientInit == ClientInit /\ ENetInit

OpenClientNext == \E p \in Peers : ClientStep(p) \/ AnyServer(p)

OpenClientSpec == OpenClientInit /\ [][OpenClientNext]_openClientVars

-----------------------------------------------------------------------------
(* Type correctness.                                                       *)

Texts == Seq(Keys \cup VerbCharacters \cup Range(ToUpper))

ClientRecords ==
    [proc : {"off", "running", "exited", "crashed"}, state : {"LOGGING_IN", "NORMAL"},
     user : Texts, pass : {<<>>} \cup ({<<"sha3">>, <<"overwritten">>} \X Texts),
     inputUser : BOOLEAN, inputPass : BOOLEAN, inputMenu : BOOLEAN,
     input : Texts, ctrSet : BOOLEAN, verb : {<<>>} \cup ToSet(default_context),
     shown : {packet.screen : packet \in FromServer} \cup {NULL},
     plain : BOOLEAN]

ClientTypeOK ==
    /\ client \in [Peers -> ClientRecords]
    /\ \A p \in Peers : Len(client[p].input) <= InputSize

(***************************************************************************)
(* One prompt at a time, and a prompt appears only over an empty line: no  *)
(* key typed as the answer to one question becomes part of the answer to   *)
(* another.  (GameLoop sets input_ctr to 0 without clearing the input.)    *)
(***************************************************************************)
PromptClean ==
    \A p \in Peers :
        /\ ~(client[p].inputUser /\ client[p].inputPass)
        /\ Running(p) /\ GameLoop(client[p]) # client[p] => client[p].input = <<>>

(* What the step adds to the queue of packets for the server.              *)
NewPackets(p) == {toServer'[p][i] : i \in (Len(toServer[p]) + 1) .. Len(toServer'[p])}

(***************************************************************************)
(* A process logs in once: the password it sent stays what it was, is not  *)
(* asked for and not sent again, whatever the server sends (though a       *)
(* command with quoted text in it may be read as a login request).         *)
(***************************************************************************)
LoggedInOnce ==
    \A p \in Peers :
        Running(p) /\ client[p].pass # <<>> =>
            /\ client'[p].pass = client[p].pass
            /\ ~client'[p].inputPass
            /\ client'[p].plain =>
                  \A packet \in NewPackets(p) : packet.type # "LOGIN_REQ"

LoginOnce == [][LoggedInOnce]_openClientVars

(***************************************************************************)
(* In the game a verb context ends with its line: when the line is gone,   *)
(* entered or deleted to its first key, so is the verb that TAB found for  *)
(* it, and it decides nothing about the next line.  (At the login prompts  *)
(* and over the menu prompt a line ends without that: client.cpp:426-433,  *)
(* 449-515.)                                                               *)
(***************************************************************************)
InGame(p) == Running(p) /\ client[p].state = "NORMAL" /\ ~client[p].inputMenu

VerbEndsWithLine ==
    \A p \in Peers :
        InGame(p) /\ client[p].input # <<>> /\ client'[p].input = <<>>
            => client'[p].verb = <<>>

ContextEnds == [][VerbEndsWithLine]_openClientVars
=============================================================================
