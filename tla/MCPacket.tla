------------------------------ MODULE MCPacket ------------------------------
(***************************************************************************)
(* Packet and Json over the texts of up to MaxChunks chunks and over the   *)
(* packets the two programs build.  A text grows as long as it is the      *)
(* beginning of a JSON text, so the first wrong chunk comes last, wherever *)
(* it can.  Outside strings a chunk is a character or a whole word, inside *)
(* it is a character or an escape, of which MaxInString in one text.       *)
(***************************************************************************)
EXTENDS Packet, JsonGrammar

CONSTANTS
    MaxChunks, MaxInString,     \* bounds of the model
    FieldChars, MaxField        \* what the fields of packets are made of

MCFieldChars == {"a", " ", "{", "7", "n", "\"", "\\"}

VARIABLES
    text,       \* the text
    reading,    \* the grammar's reading of it
    chunks,     \* how many chunks it has, inside strings and outside
    said,       \* the characters its strings stand for
    packet      \* the packet it was built as

(* What a chunk inside a string stands for; the escapes are those of       *)
(* U+0041, U+00E9, U+20AC and, in two halves, U+1F600.  The last three     *)
(* begin an escape that others may complete; what it then means is open.   *)
Means ==
    LET Bytes(codes) == [i \in DOMAIN codes |-> "byte " \o ToString(codes[i])]
        chunk == {"a", "\\n", "\\\"", "\\u0041", "\\u00e9", "\\u20AC", "\\ud83d", "\\ude00",
                  "/", "\\", "\\u", "\\u00e"}
    IN  [s \in chunk |->
            CASE s = "\\n" -> <<"\n">>
              [] s = "\\\"" -> <<"\"">>
              [] s = "\\u0041" -> <<"A">>
              [] s = "\\u00e9" -> Bytes(<<195, 169>>)
              [] s = "\\u20AC" -> Bytes(<<226, 130, 172>>)
              [] s = "\\ud83d" -> <<>>
              [] s = "\\ude00" -> Bytes(<<240, 159, 152, 128>>)
              [] s \in {"\\", "\\u", "\\u00e"} -> <<"open">>
              [] s \in {"a", "/"} -> <<s>>]

Structural == {"{", "}", "[", "]", ",", ":", " ", "\"", "\"k\":", "{\"type\":\"k\"",
               "-", "0", "12", ".5", "e", "+", "true", "nul", "l"}

Fields == {Chars("ab")} \cup SeqOf(FieldChars, MaxField)

Screens ==
    [name : {<<>>, Chars("ab")}, desc : Fields, exits : {{"N", "Up"}}]
        \cup [name : {Chars("ab")}, desc : {Chars("ab")}, exits : SUBSET Exits]

Packets ==
    [type : {"LOGIN_REQ"}, user : Fields, pass : {Chars("ab+/0==")}]
        \cup [type : {"MENUSEL"}, select : {<<c>> : c \in FieldChars}]
        \cup [type : {"PCOMMAND"}, cmd : {Chars("SAY")}, tgt : {Chars("LOCAL")}, s : Fields]
        \cup [type : {"ROOM_INFO"}, screen : Screens]
        \cup [type : {"MESSAGE_SCREEN"}, text : Fields, screen : {7}]
        \cup [type : {"MENU_MAIN"}, key : {"type", "packetType"}, text : {<<>>},
              options : {<<Chars("1] New Game"), second>> : second \in Fields}]

NoPacket == [type |-> "NOPACKET"]

Built(p) ==
    LET new == Packet(p.type)
    IN  CASE p.type = "LOGIN_REQ" -> UserPass(new, p.user, p.pass)
          [] p.type = "MENUSEL" -> Select(new, p.select[1])
          [] p.type = "PCOMMAND" -> AddSubject(AddTarget(AddCommand(new, p.cmd), p.tgt), p.s)
          [] p.type = "ROOM_INFO" -> AddScreen(new, p.screen)
          [] p.type = "MESSAGE_SCREEN" -> SetScreen(SetMessage(new, p.text), p.screen)
          [] p.type = "MENU_MAIN" -> Menu(p.key, p.text, p.options[1], p.options[2])

(* No character of a text is what At says outside of it.                   *)
Texts == Seq(STRING \ {Outside})

ASSUME ChunksAreTexts ==
    \A chunk \in Structural \cup DOMAIN Means \cup {"\""} : Chars(chunk) \in Texts
ASSUME PacketsAreTexts == \A p \in Packets : Built(p) \in Texts

-----------------------------------------------------------------------------
Init ==
    /\ text = <<>> /\ reading = NothingYet /\ said = <<>>
    /\ chunks = [inside |-> 0, outside |-> 0]
    /\ packet = NoPacket

Extend(chunk) ==
    /\ packet = NoPacket
    /\ reading.mode # "stuck"
    /\ text' = text \o Chars(chunk)
    /\ reading' = ReadsAll(reading, Chars(chunk))
    /\ UNCHANGED packet

Quoting == reading.mode \in {"string", "escape", "unicode"}

OutsideString(chunk) ==
    /\ ~Quoting
    /\ chunks.inside + chunks.outside < MaxChunks
    /\ chunks' = [chunks EXCEPT !.outside = @ + 1]
    /\ Extend(chunk)
    /\ UNCHANGED said

InsideString(chunk) ==
    /\ Quoting
    /\ chunks.inside < MaxInString
    /\ chunks.inside + chunks.outside < MaxChunks
    /\ chunks' = [chunks EXCEPT !.inside = @ + 1]
    /\ said' = said \o Means[chunk]
    /\ Extend(chunk)

CloseString ==
    /\ Quoting
    /\ UNCHANGED <<chunks, said>>
    /\ Extend("\"")

Build(p) ==
    /\ text = <<>>
    /\ text' = Built(p)
    /\ reading' = ReadsAll(NothingYet, text')
    /\ packet' = p
    /\ UNCHANGED <<chunks, said>>

Next ==
    \/ \E chunk \in Structural : OutsideString(chunk)
    \/ \E chunk \in DOMAIN Means : InsideString(chunk)
    \/ CloseString
    \/ \E p \in Packets : Build(p)

Spec == Init /\ [][Next]_<<text, reading, chunks, said, packet>>

-----------------------------------------------------------------------------
(***************************************************************************)
(* json_parse accepts the JSON texts and no other, but for a minus sign    *)
(* that ends the text (json.h:1230-1241 checks what follows a sign only if *)
(* something does).  So an exponent without digits, which moves the offset *)
(* beyond the end and slips through every check of json_get_object_size,   *)
(* is still refused in the end (json.h:1304-1307, 1044-1048, 2093-2099).   *)
(***************************************************************************)
AcceptsJson ==
    Sizes(text).ok <=>
        Complete(reading) \/ (reading.mode = "minus" /\ reading.open = <<>>)

(***************************************************************************)
(* The second pass, which checks nothing, takes a text apart exactly as    *)
(* the first did: it ends at the same character and fills exactly the part *)
(* of the allocation that is meant for the DOM, so no structure lies over  *)
(* the characters (json.h:2113-2164).                                      *)
(***************************************************************************)
Agree(sizes, written) ==
    sizes.ok => written.at = sizes.at /\ written.dom = sizes.dom

PassesAgree == Agree(Sizes(text), Written(text))

(***************************************************************************)
(* The characters of all strings and numbers, each with its NUL, fit in    *)
(* what the first pass counted for them (json.h:850-854, 1337-1340).       *)
(***************************************************************************)
Fits(sizes, written) == sizes.ok => Len(written.data) <= sizes.data

DataFits == Fits(Sizes(text), Written(text))

(***************************************************************************)
(* A text that is one string is read as the characters it stands for, its  *)
(* escapes as UTF-8 and two surrogates as the one character they encode    *)
(* (json.h:1461-1588).                                                     *)
(***************************************************************************)
StringsDecoded ==
    (/\ Complete(reading)
     /\ chunks.outside = 1 /\ chunks.inside > 0
     /\ "open" \notin ToSet(said)) =>
        json_parse(text) = [type |-> "string", text |-> said]

-----------------------------------------------------------------------------
(* The fields a packet is to be read back with.                            *)
Meant(p) ==
    LET Pair(name, value) == Chars(name) :> value
        type == Pair("type", Chars(p.type))
    IN  CASE p.type = "LOGIN_REQ" -> type @@ Pair("user", p.user) @@ Pair("pass", p.pass)
          [] p.type = "MENUSEL" -> type @@ Pair("select", p.select)
          [] p.type = "PCOMMAND" ->
                type @@ Pair("cmd", p.cmd) @@ Pair("tgt", p.tgt) @@ Pair("s", p.s)
          [] p.type = "ROOM_INFO" ->
                type @@ Pair("name", p.screen.name) @@ Pair("desc", p.screen.desc)
                     @@ Pair("exits", Chars(ToString(ExitsToInt(p.screen.exits))))
          [] p.type = "MESSAGE_SCREEN" ->
                type @@ Pair("text", p.text) @@ Pair("screen", Chars(ToString(p.screen)))
          [] p.type = "MENU_MAIN" -> type @@ Pair("text", p.text)

Content(p) ==
    CASE p.type = "LOGIN_REQ" -> ToSet(p.user \o p.pass)
      [] p.type = "MENUSEL" -> ToSet(p.select)
      [] p.type = "PCOMMAND" -> ToSet(p.s)
      [] p.type = "ROOM_INFO" -> ToSet(p.screen.desc)
      [] p.type = "MESSAGE_SCREEN" -> ToSet(p.text)
      [] p.type = "MENU_MAIN" -> ToSet(p.text \o p.options[2])

Plain(p) == Content(p) \cap {"\"", "\\", "\t", "\n"} = {}

ReadAs(p, read) ==
    CASE p.type # "MENU_MAIN" ->
            read = [outcome |-> "read", data |-> Meant(p), options |-> {}]
      [] p.type = "MENU_MAIN" /\ p.key = "type" ->
            read = [outcome |-> "read", data |-> Meant(p),
                    options |-> {p.options[1], p.options[2]}]
      [] p.type = "MENU_MAIN" /\ p.key # "type" ->
            read = NothingRead("ignored")

(***************************************************************************)
(* What one program puts into a packet is what the other reads, field for  *)
(* field, when no field holds a quote, a backslash or one of the controls  *)
(* that json.h refuses (packet.cpp:14-127, 141-203): nothing escapes a     *)
(* field, so that condition is all there is between the two.  A menu is    *)
(* read with its options, unless its first field is not "type": then       *)
(* nothing of it is.                                                       *)
(***************************************************************************)
FieldsArrive ==
    (packet # NoPacket /\ Plain(packet)) => ReadAs(packet, ParseData(text))

(***************************************************************************)
(* The client shows exactly the exits the screen has, for each of the 64   *)
(* sets of them: a number, its decimal text in quotes and the bits of what *)
(* stoi makes of it (screen.cpp:65-75, packet.cpp:25-29,                   *)
(* client.cpp:207-232).                                                    *)
(***************************************************************************)
ExitsArrive ==
    (packet.type = "ROOM_INFO" /\ Plain(packet)) =>
        ExitsShown(ParseData(text).data[Chars("exits")]) = packet.screen.exits
=============================================================================
