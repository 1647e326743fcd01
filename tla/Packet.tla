------------------------------- MODULE Packet -------------------------------
(***************************************************************************)
(* cppclient/packet.cpp, which both programs build and read packets with.  *)
(* A packet is built by joining texts that nobody escapes, and read back   *)
(* by walking the values of json_parse without a look at their types.      *)
(***************************************************************************)
EXTENDS Json

Field(name, text) == Chars("\"") \o Chars(name) \o Chars("\":\"") \o text

-----------------------------------------------------------------------------
(* Building.  Whoever calls UserPass and Select made a packet of the type  *)
(* they ask for.                                                           *)

Packet(type) == Chars("{\n \"type\":\"") \o Chars(type) \o Chars("\",\n ")

UserPass(str, user, pass) ==
    str \o Field("user", user) \o Chars("\",\n ")
        \o Field("pass", pass) \o Chars("\"\n}")

Select(str, key) == str \o Field("select", <<key>>) \o Chars("\"\n}")

AddCommand(str, text) == str \o Chars(" ") \o Field("cmd", text) \o Chars("\",\n")
AddTarget(str, text)  == str \o Chars(" ") \o Field("tgt", text) \o Chars("\",\n")

AddSubjectLast(str, text) == str \o Chars(" ") \o Field("s", text) \o Chars("\",\n}")

(* The two NULs of the literal end it before they are added.               *)
AddSubject(str, text) == str \o Chars(" ") \o Field("s", text) \o Chars("\"\n}")

Bit(exit) ==
    CASE exit = "N" -> 1  [] exit = "S" -> 2   [] exit = "E" -> 4
      [] exit = "W" -> 8  [] exit = "Up" -> 16 [] exit = "Down" -> 32

ExitsToIntLast(exits) == FoldSet(LAMBDA exit, last : Bit(exit), 0, exits)

ExitsToInt(exits) == FoldSet(LAMBDA exit, sum : Bit(exit) + sum, 0, exits)

AddScreen(str, screen) ==
    str \o Field("name", screen.name) \o Chars("\",\n ")
        \o Field("desc", screen.desc) \o Chars("\",\n ")
        \o Field("exits", Chars(ToString(ExitsToInt(screen.exits)))) \o Chars("\"\n}")

SetMessage(str, text) == str \o Field("text", text) \o Chars("\",\n")
SetScreen(str, id) == str \o Field("screen", Chars(ToString(id))) \o Chars("\"\n}")

(* The menu, blobs/mainmenu.json, which is a text from the start; `key' is *)
(* the name of its first field, there "packetType".                        *)
Menu(key, text, first, second) ==
    Chars("{\n    ") \o Field(key, Chars("MENU_MAIN")) \o Chars("\",\n    ")
        \o Field("text", text) \o Chars("\",\n    \"menuOptions\": [\n        \"")
        \o first \o Chars("\",\n        \"") \o second \o Chars("\"\n    ]\n}")

-----------------------------------------------------------------------------
(* Reading.                                                                *)

Validate(str) == json_parse(str) # NotJson

(* What a std::string takes of a text: all before the first NUL.           *)
CString(text) ==
    LET nul == SelectInSeq(text, LAMBDA c : c = Nul)
    IN  IF nul = 0 THEN text ELSE SubSeq(text, 1, nul - 1)

(* A number has the layout of a string; nothing else can be read as one.   *)
LikeString(value) == value.type \in {"string", "number"}

(* The elements of an array are asked for their type, but an empty array   *)
(* and an element of another type give a null pointer all the same.        *)
IsOptions(value) ==
    /\ value.type = "array"
    /\ value.elements # <<>>
    /\ \A i \in DOMAIN value.elements : value.elements[i].type = "string"

(* "undefined" is what C leaves so: a null or a wrong pointer is read.     *)
Outcome(value) ==
    CASE value.type = "not JSON" -> "refused"
      [] value.type \notin {"not JSON", "object"} -> "undefined"
      [] value.type = "object" ->
            LET members == value.members
                Readable(i) == LikeString(members[i].value)
                                  \/ (i > 1 /\ IsOptions(members[i].value))
            IN  CASE members = <<>> -> "undefined"
                  [] members # <<>> /\ CString(members[1].name) # Chars("type") -> "ignored"
                  [] OTHER -> IF \A i \in DOMAIN members : Readable(i)
                              THEN "read" ELSE "undefined"

NothingRead(outcome) == [outcome |-> outcome, data |-> <<>>, options |-> {}]

FieldsNamed(members, name) ==
    {i \in DOMAIN members : LikeString(members[i].value) /\ CString(members[i].name) = name}

Names(members) ==
    {CString(members[i].name) : i \in {i \in DOMAIN members : LikeString(members[i].value)}}

(* Of two fields with one name the second replaces the first in the map.   *)
Data(members) ==
    [name \in Names(members) |-> CString(members[Max(FieldsNamed(members, name))].value.text)]

Options(members) ==
    UNION {{CString(members[i].value.elements[n].text) : n \in DOMAIN members[i].value.elements}
              : i \in {i \in DOMAIN members : members[i].value.type = "array"}}

Walked(value, outcome) ==
    IF outcome = "read"
    THEN [outcome |-> "read", data |-> Data(value.members), options |-> Options(value.members)]
    ELSE NothingRead(outcome)

Taken(value) == Walked(value, Outcome(value))

ParseData(str) == Taken(json_parse(str))

-----------------------------------------------------------------------------
(* What the client makes of the field `exits' of a ROOM_INFO.              *)

(* std::stoi of a text of digits. *)
stoi(text) ==
    FoldLeft(LAMBDA n, c : 10 * n + json_hexadecimal_digit[c], 0, text)

Exits == {"N", "S", "E", "W", "Up", "Down"}

ExitsShown(text) == {exit \in Exits : (stoi(text) \div Bit(exit)) % 2 = 1}
=============================================================================
