# MURK: models, checks and proofs

A verification development for the MURK multi-user game: the ENet server in
`src/cppserver` and the terminal client in `src/cppclient`. The modules are written in
TLA+; TLC checks them on small instances and TLAPS checks the proofs.

## 1. The system

| Component | State it keeps | Operations | Interacts with |
|---|---|---|---|
| Server loop (`cppserver/main.cpp`, `server.cpp`) | the process; `activeUserMap`; `ENetPeer::data` | dispatch of CONNECT, RECEIVE, DISCONNECT; LOGIN_REQ, MENUSEL | ENet, users, screens, users.db |
| Users and screens (`user.cpp`, `screen.cpp`) | a User's screen and peer; a Screen's `localUsers` and `menuFunctions` | SetScreen, SetPeer, EnterUser, ExitUser, Execute | the server, through `extern server` |
| Main menu (`main_menu.cpp`) | the table of options | new_game, quit_game | Screen::Execute, User::SetScreen |
| Login (`server.cpp` CheckPassword) | users.db | look a stored digest up with the typed name in the query | sqlite3 |
| GUIDs (`guid.cpp`) | none (the C generator is seeded at each call) | generate_new_guid | CONNECT |
| Client (`cppclient/client.cpp`, `main.cpp`) | `state`, the prompt flags, `userpass`, the input line, `verb_context` | ProcessEvent, ProcessPacket, GameLoop, ProcessInput | ENet, terminal |
| Verbs (`client.cpp`, `verb_context.h`) | none | CapitalizeVerb, verb search, TAB completion, the words of SAY | ProcessInput |
| Packets (`packet.cpp`) | a text, a map of fields, a set of options | the builders, Validate, ParseData | both programs |
| JSON parser (`res/json.h`) | one allocation: the DOM and behind it the characters | json_parse, in two passes | packets |
| Digest (`res/sha3.c`, `res/base64.c`) | hash state | SHA3-512, base64 | SendLogin |
| Items, mobs, commands; `old/`; `tools/` | data nobody uses; the earlier C programs; generators | | |

Each program is one thread that calls `enet_host_service` in a loop and handles one event
at a time. Nothing interleaves inside a handler, so the concurrency is between the two
programs: packets on their way, a user who may press any key between any two events, peers
that vanish and are noticed by a timeout, programs that end in the middle of a session and
are launched again. What is hard:

* **Ordering inside CONNECT.** `SetScreen` runs before `SetPeer`, so it sends through a
  pointer nobody has set (`server.cpp:68`).
* **Raw pointers kept across events.** `ENetPeer::data` points into `activeUserMap`.
* **A move is three updates** (old roster, new roster, the User's screen) that have to agree
  whatever comes between two moves.
* **The server remembers no login.** That a player has logged in, and that a selection never
  arrives at a screen without a menu (which would end the server), follow only from the order
  in which the client prompts.
* **Flags that overlap.** Prompt flags, `state` and `verb_context` are set by events and
  cleared by keys; one line can be taken for two things.
* **Loops that do not stop at a match** in the verb search, whose result depends on the order
  of the table.
* **Two passes that have to count alike.** `json_parse` walks a text twice with separate code:
  the first pass checks it and sizes one allocation, the second fills that without checking.
* **Packets are text in which nothing is escaped.** What a player types decides where the
  fields of a packet end, and a field that comes twice is its last one, the type included.
* **A name is SQL.** `CheckPassword` joins it into its query (`server.cpp:202`), and
  `pw_callback` reads 128 bytes of the column whatever it holds.

What makes each component correct: the pointer in a peer leads to a User of its own and the
rosters list exactly the users that are there (`OwnUser`, `Roster`, `PresenceSpec`,
`LeftUsersInert`); what the server says is true and goes to the one who asked (`StartInfoTrue`,
`RepliesToRequester`); the client's prompts do not mix and it logs in once (`PromptClean`,
`LoginOnce`, `ContextEnds`); together, a player whose packets say what was meant does not play
without the password, is where the server thinks it is, sends a password as nothing but a login
and stops the server in two named ways only, whatever the others do (`LoginBeforePlay`,
`OneSelection`, `Agreement`, `PasswordStaysInLogin`, `PlainPacketsSurvived`); a packet is read as
it was built (`FieldsArrive`, `ExitsArrive`), by a parser that accepts JSON and stays inside its
allocation (`AcceptsJson`, `PassesAgree`, `DataFits`, `StringsDecoded`); the digest depends on the
message only (`HashesMessage`, `NoCollision`) and survives its coding (`RoundTrip`).

`PROJECT.json` lists all hazards with the line where each bites.

## 2. Modules

| Module | What it is |
|---|---|
| `ENet` | The transport, external: the server's table of peers (`free`, `pending`, `up`, `zombie`) and a reliable FIFO queue per peer and direction. |
| `MurkServer` | The server. One action per dispatched event. |
| `Lobby` | What the server promises about presence: rooms of clients with Arrive, Play, Leave, Stop. |
| `VerbContext` | The command-line algorithms, as operators on sequences of characters. |
| `MurkClient` | The client. One action per event, and one per key (GameLoop followed by ProcessInput). |
| `MurkSystem` | Server and clients composed over `ENet`, with fairness and the end-to-end properties. |
| `Sponge` | The buffering of `res/sha3.c`: one action per function, on one context. |
| `Base64` | The two codings of `res/base64.c`, as operators on sequences. |
| `Json` | `json_parse` of `res/json.h`: the pass that checks and counts, and the pass that builds the tree, each as a function on positions of the text. |
| `JsonGrammar` | What a JSON text is, as a reader of one character at a time: the reference `Json` is checked against. |
| `Packet` | `cppclient/packet.cpp`: the builders with the text they produce, and ParseData over `Json`. |
| `MCServer`, `MCClient`, `MCSystem`, `MCVerbs`, `MCBase64`, `MCPacket` | Values of the constants for TLC; `MCVerbs`, `MCBase64` and `MCPacket` also the inputs TLC enumerates, and their properties. |
| `MurkServerProofs`, `MurkClientProofs`, `MurkSystemProofs`, `SpongeProofs` | The theorems about the module of the same name; of the system also the two refinements. |
| `Base64Proofs`, `VerbProofs`, `JsonProofs` | The theorems about the operators of `Base64`, `VerbContext` and `Json`, and the properties of `MCBase64`, `MCVerbs` and `MCPacket`. |
| `DataLemmas` | Induction over numbers, stated of sets; least and greatest elements; parts of sequences. |

`MurkServer` and `MurkClient` each come with an open environment (`AnyClient`,
`AnyServer`) in which the other end may do whatever the transport allows; `MurkSystem` closes
each with the other.

### State and actions

* `activeUserMap[g]` is the User stored under guid `g` (its screen and its peer) or `NULL`;
  `localUsers[s][g]` counts how often `g` is in the vector of screen `s`, which is all that
  entering (push_back) and leaving (erase the first match) look at; `data[p]` is the guid of the
  User that `ENetPeer::data` points to. `lastPeer` is what the last CONNECT left in the stack slot
  of `_nuser.mypeer`. `usersDb` says whether a query with a name in it may have written the table.
* `Connect`, `ConnectFault` are ENET_EVENT_TYPE_CONNECT; `LoginOK`, `LoginRefused`, `LoginFault`,
  `NewGame`, `QuitGame`, `MenuSelCrash`, `IgnoreCommand`, `ReceiveJunk`, `ReceiveFault` are
  RECEIVE by the packet's type and content; `Disconnect` is DISCONNECT.
* A login looks for the stored text in what was sent (`Finds`: a part of it is enough) and refuses
  an empty one. A name with a character of `SqlKeys` makes the query any query: it may succeed,
  fail or fault, and may write the table, after which every login may (`AnyResult`, `Queries`).
  SQL itself is not modelled.
* `client[p]` is the process whose connection is in slot `p` of the server's table: `proc`,
  `state`, the prompt flags, name and password, the input line, whether `input_ctr` was ever set,
  `verb_context`, and the room that was shown last. `plain` is a history variable: the process
  found `FLAG_INPUT_MENU` cleared and has sent no packet with a quote or a backslash in a field.
  `Enter`, `Tab`, `Delete`, `TypeKey`, `NoKey` are the keys; `HandlePacket`, `HandleJunk`,
  `LinkLost` the events; `Launch` is `main` up to its loop.

* In `Sponge`, `ctx` is the `sha3_context`. A byte is the set of its bits, so XOR and OR are
  set operations. `keccakf` is a fixed permutation, so the state after a call is determined
  by the blocks XORed in before each call: `ctx.permuted` records them in place of the 24
  rounds. In `Base64` a character is its index in `basis_64`, or 64 as in `pr2six`.

* What calls itself in `json.h` is in `Json` a record of functions of the offset (`calls`: the
  rest of a string, a value, the rest of an object, the rest of an array). A turn (`SizeTurn`,
  `ReadTurn`) makes of such a record the one whose every call is one deeper, and a pass is as
  many turns as its text can need (`Turns`, which `TurnsSuffice` proves to be enough). This says
  the same as recursive operators would, and can be proved about.
  The offset of the C code is a position, its error return is `ok = FALSE`, and the
  two counters of the allocation are `dom` (structures) and `data` (characters); strings are
  decoded to the bytes they stand for. In `Packet` a packet is a text; `ParseData` returns its
  outcome (`read`, `ignored`, `refused`, `undefined`) with the map and the set of options.
  `MurkServer` and `MurkClient` carry the record of the fields instead: `FieldsArrive` shows
  that these are what the other end reads when no field has a quote, a backslash or a control in
  it. A packet with such a key (`Quoting`) either is no JSON, and the client ends (`Breaks`), or is
  JSON that the server reads as a member of `ReadAs` (`Readings`, `Queues`). `ReadAs` is a constant,
  any set of packets: a selection nobody was asked for, a login, a packet with a number or an array
  of one where `ParseData` expects a string (type `FAULT`). So a model of the composed system has
  a player that can make the server read anything, next to players that type plain text.

### Undefined behaviour

Where the code's behaviour is undefined the model has a constant with the outcomes a build can
produce, and an action or a disjunct for each: `UninitPeer` (using the unset `User::mypeer`:
refused, an earlier peer, a fault), `PacketTail` (a received packet is read up to a NUL that
nobody puts there: it is there, or what follows makes it no JSON), `FlagInit` (the unset
`FLAG_INPUT_MENU`), `PastTable` (reading `default_context[27]`: no match, a fault), `DigestRead`
(the digest read through a pointer into a frame that has returned: intact, overwritten),
`SqlResult` (the query runs, fails, or `pw_callback` reads past a column that is shorter than 128
bytes; one that is NULL always faults). A key after the input buffer is full, or before
`input_ctr` was set, ends the process (`Overrun`).

### Abstractions

A guid, a name, a digest and a packet are values and records of small sets. Printing,
echoing, ANSI codes and the arrow keys (which only print) are left out, and so is the pause
of `InputPrompt`. Of a client process that ended only its name and password are kept.

## 3. Runs

| Run | Instance | What it checks |
|---|---|---|
| `server` | 2 peers, 3 guids, 6 requests, among them a name that is SQL and a packet `ParseData` does not survive | `ServerTypeOK`, `OwnUser` (each connected peer has a User of its own that sends to it), `Roster` (screens list exactly the Users standing there, once), `StartInfoTrue`, `RepliesToRequester`, `LeftUsersInert` (the User of a departed client, which nothing erases, is never written, listed or handed to another connection), `PresenceSpec` (implements `Lobby`). All outcomes of undefined behaviour. |
| `client` | 1 client, 2 keys, one of them a quote, lines of 2 keys | `ClientTypeOK`, `PromptClean` (one prompt at a time, over an empty line), `LoginOnce` (the password is asked for and sent once, whatever the server sends), `ContextEnds` (in the game a verb context ends with its line). All outcomes of undefined behaviour. |
| `system` | 2 clients, 2 guids, 1 key, lines of 1 key | Two plain sessions that meet in the unset `mypeer`, which is refused, is the earlier peer or faults: `LoginBeforePlay` (only who sent the password stands on the start screen), `OneSelection` (login requests, menus, menu prompts and selections of a client are at most one, none once it plays), `Agreement` (a client that takes commands is on the start screen for the server too, or was shown the main menu's room), `PasswordStaysInLogin` (the line that answers the password prompt is sent as a login and as nothing else, but by a client that was shown that room). |
| `typed` | 1 client after the other in one slot, 2 guids, 5 keys (three options, a JSON quote, an SQL quote), 4 users with a text, an empty, a missing and a partly matching password | The same four of what is typed, quoted text included, with every outcome of the undefined reads but that of the digest, and `FLAG_INPUT_MENU` cleared or set; and `PlainPacketsSurvived` (a packet of a plain client ends the server only as a selection that is no option of the main menu, or as a login whose query ends in `pw_callback` or runs on a table that was written). |
| `session` | 1 client, 2 guids, 3 keys, lines of 1 key | Under fairness `LoginAnswered` (a right login raises the menu prompt), `SelectStart` (New Game leads to the start screen), `GoneLeaves` (who is gone leaves the rosters). |
| `verbs` | the 27 verbs; lines of up to 4 of 6 characters, and every abbreviation with one more | `FirstMatchWins`, `ExpansionFound`, `TabAgreesWithEnter`. |
| `digest` | words of 2 bytes, blocks of 2 words, 2 byte values, messages of up to 8 bytes | `SpongeTypeOK`, `HashesMessage` (the permutation gets the padded message, however it was divided), `NoCollision`. |
| `base64` | strings of up to 6 of 4 bytes, texts of up to 7 of 4 characters | `RoundTrip`, `EncodeFits`, `DecodeFits`. |
| `packets` | texts of up to 6 chunks, 3 of them inside strings; the packets of 7 field characters, fields of up to 2; all 64 sets of exits | `AcceptsJson` (json_parse accepts JSON and no more, but for a lone minus), `PassesAgree` (the second pass takes the text apart as the first did and fills what it counted), `DataFits`, `StringsDecoded`, `FieldsArrive`, `ExitsArrive`. |
| `connect_info` | as `server` | **violated**: the client that enters the main menu is not sent its room info (`user.cpp:59`, `server.cpp:68`). |
| `menu_blob` | as `session`, with the blob as it is | **violated**: a correct login is answered by a menu (`README.md:34-35`); the blob's first key is `packetType`, which `ParseData` ignores. |
| `say` | as `verbs` | **violated**: the forespace of what is said is trimmed (`client.cpp:482`, `490`, `491`). |

The other runs of the system take the type of the menu blob to be `MENU_MAIN`, as the
client expects: with the blob as it is no session gets past the login, and there would be
nothing to check. They take the digest to be intact: an overwritten one is a wrong password.

**What the properties of the system leave out, and why.** Each is as strong as the code lets it
be, and says in its formula where the code breaks it. A client that found `FLAG_INPUT_MENU` set,
or sent a packet with a quote in it, is not `plain`: its first key is a selection without a login,
or its text is read as one, and the server obeys. A name that is SQL may log anybody in, and once
it has written the table it may do so for every name. `Agreement` and `PasswordStaysInLogin` name the
one source of early room info, a CONNECT that sends through the stale `mypeer`: `Shown` puts the
client it reaches in STATE_NORMAL, where Enter sends a line as a login and as a command. What the
properties say is how far this goes: injected packets and set flags harm no client but their own
(the table of users and the server's process apart), and room info of the start screen is never
early. `RepliesToRequester` leaves the dispatch of CONNECT out for
the same reason.

**Bounds.** `MaxToServer`, `MaxToClient`: undispatched and unread packets per peer; 1 and 2 in
`server`, 2 and 1 in `client`, 2 and 2 in `system`, `typed` and `session`. Packets of a peer
are handled one at a time and in order, so longer queues add no new step; two are enough for a
login request behind a key, the login and the command of one Enter, or room info behind a menu.
The server looks at the head of a queue only, so one request per peer is enough in `server`; two
packets of one key in a row are in the runs of the system. Two peers are enough for the only
interactions between clients, the stale peer pointer and a User shared by two peers. Three guids
let a slot be used a second time while the other peer is connected. `InputSize` replaces the 255
usable bytes of the buffer, so that its end is reached. One key is enough in `system`, for the
name and the password may be right or empty; the keys that are no option, those with a meaning
to JSON or SQL and the menu flag that starts set are in `typed`, where processes follow each other
in one slot (a dead client's packets are dropped, what it did to the table stays, and its CONNECT
left the peer that the next one's sends to). A client that is plain next to one that is not, at the
same time, is beyond TLC here: either makes ten times the states; the theorems have any number of
both. In `typed` quoted text is read as a selection or as a
packet that faults, in `client` as a login: each is what the properties of the run forbid to a
plain client. Lines there are one key long, so that key stands for a whole quoted text. Guids are
interchangeable in all modules, peers in `system`: they are symmetry sets there.
In `digest` a message of 8 bytes fills two blocks, so that a call can end in the middle of a word,
of a block and on both ends, and complete a word and a block at once; the rate of SHA3-512 is 9
words of 8 bytes, and the code treats every word alike. In `base64` two groups and a rest of each
length occur. In `packets` a text grows only while it is the beginning of a JSON text, so the
first wrong chunk comes at every place of every such beginning; six chunks are enough for an
object or array in another with a member each, and for every part of a number; three escapes are a
surrogate pair and a neighbour. The packets that are built are parsed too, and they are the long
texts. Deadlock is not checked where the processes may all have ended.

**Fairness** (`MurkSystem!Fairness`). Weak fairness of the server's dispatch for each peer
and of the client's handling of packets: both programs loop on `enet_host_service` without
end, and ENet hands out due events of all peers in turn. Weak fairness of the timeout of a
peer whose process is gone: ENet gives up a peer that does not acknowledge. The user owes no
key, a link that works need not break, and nothing makes a process fail; the liveness
properties therefore excuse a session whose connection or program ends.

**Observed and not claimed as a divergence.** A refused login has no reply and the client
asks once per process. Quit only prints on the server. Any menu key but 1 and 2 ends the
server (`stoi`, the null option, an index past the table), and so does the login of a registered
user without a password (`pw_callback` follows a null, `server.cpp:185`); `PlainPacketsSurvived`
shows that, of the packets that are read as they were meant, no other does. The text of an SQL query
and that of a packet are joined from what was typed with nothing escaped; no document claims
otherwise. The client told of a lost link reads the packet of an event that has none and ends
(`client.cpp:131`). `verb_context` completed with TAB at a login prompt is still there for the
first command of the game.
A line `S` is SOUTH after Enter and SAY after TAB. A text that is a lone minus sign is a
number to `json_parse` (`json.h:1230-1241`); no packet is one. `FieldsArrive` is about
fields without quotes, backslashes and control characters; for the others stand `Quoting` and
`ReadAs`.

## 4. Proofs

For every number of peers and clients, every set of guids, keys, packets and registered users,
every bound of the input and of the queues, and strings, messages and lines of any length:

| Module | Theorem | Statement | Assumes |
|---|---|---|---|
| `MurkServerProofs` | `ServerTypeCorrect` | `OpenServerSpec => [](ServerTypeOK /\ HasUser)` | |
| | `PresenceCorrect`, `OwnUserCorrect` | `[](OwnUser /\ Roster)`, `[]OwnUser` | `UniqueGuids` |
| | `StartInfoCorrect` | `[]StartInfoTrue` | `UniqueGuids` |
| | `RepliesCorrect` | `RepliesToRequester` | `UniqueGuids` |
| | `LeftUsersCorrect` | `LeftUsersInert` | `UniqueGuids` |
| | `LobbyImplemented` | `PresenceSpec` | `UniqueGuids` |
| `MurkClientProofs` | `ClientTypeCorrect` | `OpenClientSpec => []ClientTypeOK` | |
| | `PromptCorrect` | `[]PromptClean` | |
| | `LoginOnceCorrect` | `LoginOnce` | |
| | `ContextCorrect` | `ContextEnds` | |
| `MurkSystemProofs` | `LoginBeforePlayCorrect` | `SystemSpec => []LoginBeforePlay` | `Assumed` |
| | `OneSelectionCorrect` | `SystemSpec => []OneSelection` | `Assumed` |
| | `PlainPacketsSurvivedCorrect` | `SystemSpec => PlainPacketsSurvived` | `Assumed` |
| | `ClientInSystem` | `SystemSpec => [](ClientTypeOK /\ PromptClean) /\ LoginOnce /\ ContextEnds` | `Assumed` |
| | `AgreementCorrect` | `SystemSpec => []Agreement` | `Assumed` |
| | `PasswordStaysCorrect` | `SystemSpec => PasswordStaysInLogin` | `Assumed` |
| | `ServerInSystem` | `SystemSpec => OpenServerSpec` | `Assumed` |
| | `SystemImplementsLobby` | `SystemSpec => PresenceSpec` | `Assumed` |
| `SpongeProofs` | `SpongeTypeCorrect` | `Spec => []SpongeTypeOK` | |
| | `HashesMessageCorrect` | `Spec => []HashesMessage` | |
| | `NoCollisionCorrect` | `Spec => []NoCollision` | |
| | `PaddingInjective` | messages with the same padded blocks are equal | |
| `Base64Proofs` | `RoundTripCorrect` | `Spec => []RoundTrip` | |
| | `EncodeFitsCorrect`, `DecodeFitsCorrect` | `Spec => []EncodeFits`, `Spec => []DecodeFits` | |
| `VerbProofs` | `FirstMatchCorrect` | `Spec => []FirstMatchWins` | |
| | `ExpansionFoundCorrect` | `Spec => []ExpansionFound` | |
| | `TabAgreesCorrect` | `Spec => []TabAgreesWithEnter` | |
| `JsonProofs` | `PassesAgreeOnTexts` | for every text, `PassesAgree` and `DataFits` as facts about the two passes | |
| | `PassesAgreeCorrect`, `DataFitsCorrect` | `Spec => []PassesAgree`, `Spec => []DataFits` | `ChunksAreTexts`, `PacketsAreTexts` |
| | `TurnsSuffice` | more turns than `Turns` change neither pass | |
| | `AcceptsJsonOnTexts` | for every text, the first pass accepts it exactly when the grammar does, or it is a lone minus sign behind whitespace or none | |
| | `AcceptsJsonCorrect` | `Spec => []AcceptsJson` | `ChunksAreTexts`, `PacketsAreTexts` |

*Assumptions.* The named ASSUMEs of the modules (`ENetAssumption`, `ServerAssumption`,
`VerbAssumption`, `ClientAssumption`, `SpongeAssumption`, `Base64Assumption`) say that `NULL` is
no peer, guid, User or screen, that the verbs fit in the input, and give the ranges of the other
constants. `TableAssumption` says of the table of verbs that none begins another, that none is
found inside a later one, and that a shorthand other than `S` stands for the first verb it
abbreviates; TLC evaluates it for the table of `verb_context.h`. `UniqueGuids` says that
`generate_new_guid` returns no guid that is in `activeUserMap`; the comment at `server.cpp:63`
asks for it, and without it `insert` hands the second peer the first one's User. `Assumed`, for
the composed system: `UniqueGuids`; the menu is not of the type of a room info; and each
end's constant for what the other may send (`FromServer`, `ClientPackets`) covers what it does
send, `ReadAs` included. `SystemSpec` does not depend on the last: no action of it looks at
`ClientPackets`, which is why the runs of the system give it a small value. Nothing is assumed of
the undefined reads, of what quoted text is read as, or of the table of users: the theorems hold for
every `UninitPeer`, `PacketTail`, `FlagInit`, `DigestRead`, `PastTable`, `SqlResult`, `ReadAs` and
`StoredPw`.

*The server.* `ServerTypeOK` alone is not inductive: a RECEIVE follows `data[p]`, so the
invariant `TypeInv` adds `HasUser` (a peer has a User exactly from its CONNECT to its
DISCONNECT). `Roster` needs `OwnUser`, because moving one User must not move another peer's;
`OwnUser` needs that a new guid is stored nowhere, which is where `UniqueGuids` enters
(`PresenceInv`). `StartInfoTrue` needs in addition that a slot which was not yet connected
has no start-screen info waiting (`InfoInv`). `RepliesCorrect`, `LeftUsersCorrect` and
`LobbyImplemented` are step properties under `PresenceInv`; the refinement maps a room to the
clients whose guid is in the list of the screen, and every action of the server to one of
`Lobby` or to a stutter.

*The client.* `ClientInv` keeps every client in the set of records `Clients`: well typed, with
the prompts in order, each for an answer that is still missing (`PromptOrder`), and with an empty
line whenever GameLoop is about to ask (`PromptDue`). That GameLoop resets `input_ctr` without
clearing the input is harmless only because of the last part. There is one lemma per function
on the record, and one per action that it keeps the invariant and the two step properties
(`GoodStep`).

*The system.* `SystemInv` is `PresenceInv`, `ClientInv` and, for each slot, `SessionOK` of the
client, the two queues, the connection, whether the User plays, and the table: a slot that is free
or given up has nothing to dispatch; and of a plain client (`PlainOK`), none of its packets is one
that `ParseData` does not survive; every login request on its way carries what the client
remembers; whoever has a menu, a menu prompt, a selection on its way or plays has sent the stored
digest, or a name that is SQL, or the table was written (`Registered`); and of these, with the
request, there is one at most and none once it plays. No property is inductive without the others:
one selection at a time follows from one login at a time, and that from nothing being due before the
password is entered. Other clients enter only through the table (`usersDb`), which never becomes
intact again. A lemma per kind of event, about
one connection as data, carries the counting (`CountAppend`, `CountTail`, `CountFirst`); one
lemma per action finds the event. The rooms of `Lobby` say whose playing changes.

*Agreement.* That a client in STATE_NORMAL stands where the server thinks it does is not
inductive: the next room info it reads must tell the truth too. `AgreementInv` adds to
`SystemInv`, for each connection, that all room info on its way, and the one that was shown last, is
of the main menu (and `"stale"` is an outcome of `UninitPeer`), or is of the start screen, whose
User, while the connection lasts, stands there and whose client, if it is plain, has given a password;
and that a client in STATE_NORMAL was shown one. The last part is also why the line that answers
the password prompt leaves as a login alone (`PasswordStaysInLogin`): a plain client that is being
asked for it can have been shown the main menu's room only, and the property excuses that one.

*What carries over to the system.* The theorems about the server are about a server among
clients that may send anything (`OpenServerSpec`). `ServerInSystem` shows that every step of
the composed system is one of its steps: a key or an event of a client queues none, one or two
packets that `AnyClient` may send (two where Enter sends a line as a login and as a command), or
takes one from the queue. So `OwnUser`, `Roster`, `RepliesToRequester` and the others hold in the
system as proved, and the whole system implements `Lobby`. The client has no such refinement:
the server takes a packet and queues its answer in one step, `AnyServer` does this in two.
`ClientInSystem` therefore proves the client's properties of the system from `ClientInv` and the
lemmas on its actions.

*The digest.* `SpongeInv` says that between two calls the context has exactly the bytes passed
since `sha3_Init`, each in its place in the blocks already permuted, the state or the saved word,
and that after `sha3_Finalize` its blocks are those of the padded message; so what the context was
used for before, and where the message was cut, leave no trace. `sha3_Update` is taken apart as
the code is: what completes the saved word, the whole words (a fold, whose partial results are the
words folded so far), and the tail. `PaddingInjective` rests on the byte behind the longer of two
messages: its suffix bits are there, and of the shorter one's padding at most the final bit.

*Base64.* A string is a concatenation of groups, so each character is located in its group
(`Joined`), groups are shown to come back one by one (`GroupRoundTrip`), and the last, shorter
one to be decoded with zeros in the places that were not written. `DecodedLength` holds of any
text, valid or not.

*Verbs.* `CapitalizeVerb` is a fold over the table that goes on after a match. Its partial
results stay what was typed up to the first entry that matches and are that entry from there
on: the word has become a whole verb, and no verb begins another. The searches of Enter and TAB
take the least index with a match, which a second property of the table makes the same one.

*The JSON parser.* The first pass goes forward: whatever it lets through is at least a character
long (`SizingAdvances`). That the second pass is in step with it is shown by induction on the turns
(`PassesInStep`), one lemma for each function of the parser: for every offset, if the first pass
lets the part of the text from there on through, the second comes to the same offset, has taken the
bytes of the DOM that were counted and written no more characters than were. This holds of ends
inside the text only: an exponent without digits moves the offset behind the end, where the first
pass checks nothing and the second reads something else; `Sizes` refuses such a text in the end, and
the lemmas carry the condition along. A comma before the bracket that closes is where the passes
would part (the second looks for the bracket after each comma), and nothing that the first pass
accepts as an element begins with one. The characters of a string fit because the first pass counts
for each codepoint what `Utf8` takes at most (`Utf8Length`). `TurnsSuffice` ranks each part by twice
its distance from the end of the text (`Settled`): after so many turns another changes nothing, and
the second pass does not change where the first one lets through (`AlikeAlways`).

*The grammar.* `JsonGrammar` reads a text one character after the other and keeps what is open;
`json_parse` descends into it. `AcceptsJsonOnTexts` brings them together along one run of the grammar
(`RunFrom`: what it makes of the first `o` characters, for every `o`). For each part that starts at
an offset where the run expects it, the first pass either lets the part through, and then the run is
at the offset behind it where a value has ended and the brackets open are those that were open before
(`Meets`, `StringEnded`), or the run is none of an accepted text (`Fails`). This is shown of numbers,
words and strings character by character, and of values, members and elements by induction from the
end of the text (`AllMet`): a value needs what is behind its first character, the elements of an array
the value at the same offset. The last turn is a fixpoint (`LastTurn`, from `Settled`), so one
function of the parser may be replaced by its definition at any depth. Two things make the statement
more than a comparison of rules. A number has no end of its own, so "ended" is a mode of the grammar
together with the character behind it (`ValueEnded`); a minus sign that ends the text counts too, for
`json.h:1230-1241` looks at the next character only if there is one. And an exponent
without digits moves the first pass behind the end of the text, where it accepts anything: `Through`
says ok and inside, a part that is not `Through` never becomes it again (`BeyondStays`), and the check
at the end of `json_parse` refuses the text. What the model's texts add is `ReadingIsRead`: reading
them chunk by chunk is reading the whole.

`ChunksAreTexts` and `PacketsAreTexts` say that the texts TLC enumerates are sequences of characters;
the provers do not look into string literals, TLC does.

*Induction over data.* The induction theorems of the library take an operator, which the provers
cannot instantiate. `DataLemmas` states induction of sets instead: a set of numbers that has 0
and the successor of each of its elements is `Nat` (`AllNaturals`, from the least element of the
complement, `WFMin`), and each proof names the set of the numbers up to which its claim holds.
This reaches the recursive functions inside the folds of the community modules.

*Only model-checked.* Liveness (`LoginAnswered`, `SelectStart`, `GoneLeaves`), which is out of the
prover's reach, as is ENABLED. `StringsDecoded`, `FieldsArrive` and `ExitsArrive` are about texts
spelled out in string literals and numbers printed by `ToString`, which the provers cannot
evaluate. The three violated properties are false, and TLC shows how.

## 5. Not modelled

* `old/`: the C programs that `cppserver` and `cppclient` replaced. No Makefile builds them and
  they do not compile against this commit's `murk.h` (the struct `Screen` they use is commented
  out there), so there is no program to model.
* Items, mobs, `Command`: setters and data structures that no code of the two programs uses.
  `User::PickUp` and `SendLocalMessage` have no caller, and the server no branch for PCOMMAND
  (`IgnoreCommand`).
* `json.h`: the dialects other flags choose (simplified and JSON5 syntax, comments, locations),
  the writers and `json_extract_value` have no caller. Error codes and line numbers, which
  nothing reads, are abstracted to failure; the depth of the C stack is not bounded.
* The rounds of `keccakf` (a fixed permutation), and `tools/sha3test.c`, the test program of
  the digest.
* `guid.cpp`: what `rand` yields when seeded from the processor clock belongs to the C
  library; the model says only whether a guid may repeat.
* `InputPrompt`'s pause of a second (it only delays what the interleaving allows to be late),
  `FLAG_MUTE_INPUT` and the arrow keys (they decide what is printed), ANSI codes, `getpasswd`
  (called by the old client only) and the generators in `tools/`.

## 6. Plan

Done in the order of importance: the server and its presence, the client, the two together,
the algorithms (verbs, digest, base64), packets and JSON; then the proofs of the server, the
client and the system, of their agreement, and of the digest, the codings and the verbs for
inputs of any length, and of `json_parse` over any text: its two passes, and what it accepts.
What is left:

1. `LocalMessage`, when `SendLocalMessage` gets a caller: a broadcast against "users in the
   target scene", over `Roster`.
2. The commands, when the server handles PCOMMAND; the words of a SAY are already checked.
3. Integers of `json.h` at their width, should texts larger than a packet be parsed.
