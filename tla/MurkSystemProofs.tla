-------------------------- MODULE MurkSystemProofs --------------------------
(***************************************************************************)
(* Proofs about MurkSystem, the server and its clients together, for every *)
(* number of clients, every keyboard and every size of the queues.         *)
(***************************************************************************)
EXTENDS MurkSystem, MurkServerProofs, MurkClientProofs, FiniteSetTheorems

-----------------------------------------------------------------------------
(* Counting the packets of a type in a queue.                              *)

Has(queue, type) == \E i \in DOMAIN queue : queue[i].type = type

Places(queue, type) == {i \in DOMAIN queue : queue[i].type = type}

LEMMA CountType ==
    ASSUME NEW S, NEW queue \in Seq(S), NEW type
    PROVE  /\ IsFiniteSet(Places(queue, type))
           /\ Count(queue, type) = Cardinality(Places(queue, type))
           /\ Count(queue, type) \in Nat
  <1>1. Places(queue, type) \subseteq 1 .. Len(queue)
    BY DEF Places
  <1>2. IsFiniteSet(1 .. Len(queue))
    BY FS_Interval
  <1>3. IsFiniteSet(Places(queue, type))
    BY <1>1, <1>2, FS_Subset
  <1> QED
    BY <1>3, FS_CardinalityType DEF Count, Places

LEMMA CountNone ==
    ASSUME NEW S, NEW queue \in Seq(S), NEW type
    PROVE  Count(queue, type) = 0 <=> ~Has(queue, type)
  <1>1. Count(queue, type) = 0 <=> Places(queue, type) = {}
    BY CountType, FS_EmptySet
  <1> QED
    BY <1>1 DEF Has, Places

LEMMA CountAppend ==
    ASSUME NEW S, NEW queue \in Seq(S), NEW m \in S, NEW type
    PROVE  Count(Append(queue, m), type)
             = Count(queue, type) + (IF m.type = type THEN 1 ELSE 0)
  <1> DEFINE after == Append(queue, m)
             n == Len(queue) + 1
  <1>1. after \in Seq(S)
    OBVIOUS
  <1>2. n \notin Places(queue, type)
    BY DEF Places
  <1>3. Places(after, type) = IF m.type = type THEN Places(queue, type) \cup {n}
                                               ELSE Places(queue, type)
    BY DEF Places
  <1>4. /\ Count(after, type) = Cardinality(Places(after, type))
        /\ Count(queue, type) = Cardinality(Places(queue, type))
        /\ IsFiniteSet(Places(queue, type))
        /\ Count(queue, type) \in Nat
    BY <1>1, CountType
  <1>5. Cardinality(Places(queue, type) \cup {n}) = Cardinality(Places(queue, type)) + 1
    BY <1>2, <1>4, FS_AddElement
  <1> HIDE DEF after, n
  <1>6. Count(after, type) = Count(queue, type) + (IF m.type = type THEN 1 ELSE 0)
    BY <1>3, <1>4, <1>5
  <1> QED
    BY <1>6 DEF after

LEMMA AppendedHas ==
    ASSUME NEW S, NEW queue \in Seq(S), NEW m \in S, NEW type
    PROVE  Has(Append(queue, m), type) => Has(queue, type) \/ m.type = type
  <1>1. \A i \in DOMAIN Append(queue, m) :
            Append(queue, m)[i] = m \/ (i \in DOMAIN queue /\ Append(queue, m)[i] = queue[i])
    OBVIOUS
  <1> QED
    BY <1>1 DEF Has

LEMMA CountTail ==
    ASSUME NEW S, NEW queue \in Seq(S), queue # <<>>, NEW type
    PROVE  Count(queue, type)
             = Count(Tail(queue), type) + (IF Head(queue).type = type THEN 1 ELSE 0)
  <1> DEFINE rest == Places(queue, type) \ {1}
             shift == [i \in Places(Tail(queue), type) |-> i + 1]
  <1>1. Tail(queue) \in Seq(S)
    OBVIOUS
  <1>2. IsFiniteSet(Places(queue, type)) /\ IsFiniteSet(Places(Tail(queue), type))
    BY <1>1, CountType
  <1>3. IsFiniteSet(rest)
    BY <1>2, FS_Subset
  <1>4. shift \in Bijection(Places(Tail(queue), type), rest)
    <2>1. \A i \in Places(Tail(queue), type) : i + 1 \in rest /\ i \in Nat
      BY DEF Places
    <2>2. \A j \in rest : j - 1 \in Places(Tail(queue), type) /\ j = (j - 1) + 1
      BY DEF Places
    <2> HIDE DEF rest
    <2>3. shift \in [Places(Tail(queue), type) -> rest]
      BY <2>1
    <2>4. \A i, j \in Places(Tail(queue), type) : shift[i] = shift[j] => i = j
      BY <2>1
    <2>5. \A j \in rest : \E i \in Places(Tail(queue), type) : shift[i] = j
      <3> TAKE j \in rest
      <3>1. j - 1 \in Places(Tail(queue), type) /\ shift[j - 1] = j
        BY <2>2
      <3> QED
        BY <3>1
    <2> HIDE DEF shift
    <2> QED
      BY <2>3, <2>4, <2>5 DEF Bijection, Injection, IsInjective, Surjection
  <1>5. Cardinality(rest) = Count(Tail(queue), type)
    <2> HIDE DEF rest, shift
    <2>1. ExistsBijection(Places(Tail(queue), type), rest)
      BY <1>4 DEF ExistsBijection
    <2>2. Cardinality(rest) = Cardinality(Places(Tail(queue), type))
      BY <1>2, <2>1, FS_Bijection
    <2> QED
      BY <1>1, <2>2, CountType
  <1>6. 1 \in Places(queue, type) <=> Head(queue).type = type
    BY DEF Places
  <1>7. CASE 1 \in Places(queue, type)
    <2>1. Cardinality(rest) = Cardinality(Places(queue, type)) - 1
      BY <1>2, <1>7, FS_RemoveElement
    <2>2. Count(queue, type) = Cardinality(Places(queue, type)) /\ Count(queue, type) \in Nat
      BY CountType
    <2> HIDE DEF rest
    <2> QED
      BY <1>5, <1>6, <1>7, <2>1, <2>2
  <1>8. CASE 1 \notin Places(queue, type)
    <2>1. rest = Places(queue, type)
      BY <1>8
    <2>2. Count(queue, type) = Cardinality(Places(queue, type)) /\ Count(queue, type) \in Nat
      BY CountType
    <2> HIDE DEF rest
    <2> QED
      BY <1>5, <1>6, <1>8, <2>1, <2>2
  <1> QED
    BY <1>7, <1>8

LEMMA CountFirst ==
    ASSUME NEW S, NEW queue \in Seq(S), NEW n \in 0 .. Len(queue), NEW type
    PROVE  /\ Count(SubSeq(queue, 1, n), type) <= Count(queue, type)
           /\ Has(SubSeq(queue, 1, n), type) => Has(queue, type)
  <1>1. SubSeq(queue, 1, n) \in Seq(S)
    OBVIOUS
  <1>2. Places(SubSeq(queue, 1, n), type) \subseteq Places(queue, type)
    BY DEF Places
  <1>3. Count(SubSeq(queue, 1, n), type) <= Count(queue, type)
    <2>1. /\ Count(SubSeq(queue, 1, n), type) = Cardinality(Places(SubSeq(queue, 1, n), type))
          /\ Count(queue, type) = Cardinality(Places(queue, type))
          /\ IsFiniteSet(Places(queue, type))
      BY <1>1, CountType
    <2> QED
      BY <1>2, <2>1, FS_Subset
  <1> QED
    BY <1>2, <1>3 DEF Has, Places

-----------------------------------------------------------------------------
(***************************************************************************)
(* One connection, as both ends and the queues between them see it; db is  *)
(* what the table of users is.  The properties alone are not inductive:    *)
(* that a selection is on its way only from somebody who has logged in     *)
(* takes that the same holds of the prompt it answers and of the menu that *)
(* raises the prompt; and that a login is the first one takes that no      *)
(* request of it is on its way.                                            *)
(***************************************************************************)
Registered(c, db) ==
    /\ c.pass # <<>>
    /\ \/ Injects(c.user) \/ db = "written"
       \/ /\ c.user \in DOMAIN StoredPw
          /\ StoredPw[c.user] \notin {NULL, <<>>}
          /\ Finds(c.pass, StoredPw[c.user])

Due(c, in, out) ==
    Count(in, "LOGIN_REQ") + Count(out, MenuType)
        + (IF c.inputMenu THEN 1 ELSE 0) + Count(in, "MENUSEL")

PlainOK(c, in, out, playing, db) ==
    /\ ~Has(in, "FAULT")
    /\ \A i \in DOMAIN in : in[i].type = "LOGIN_REQ" =>
          c.pass # <<>> /\ in[i].user = c.user /\ in[i].pass = c.pass
    /\ playing \/ c.inputMenu \/ Count(in, "MENUSEL") # 0 \/ Count(out, MenuType) # 0
          => Registered(c, db)
    /\ Due(c, in, out) <= IF playing THEN 0 ELSE 1

SessionOK(c, in, out, state, playing, db) ==
    /\ state \in {"free", "zombie"} => in = <<>>
    /\ c.plain => PlainOK(c, in, out, playing, db)

(* The numbers of packets that matter.                                     *)
Counted(in, out) ==
    /\ Count(in, "LOGIN_REQ") \in Nat
    /\ Count(in, "MENUSEL") \in Nat
    /\ Count(out, MenuType) \in Nat

LEMMA CountsType ==
    ASSUME NEW S, NEW in \in Seq(S), NEW T, NEW out \in Seq(T)
    PROVE  Counted(in, out)
  BY CountType DEF Counted

LEMMA CountEmpty == ASSUME NEW type PROVE Count(<<>>, type) = 0
  <1>1. <<>> \in Seq({})
    OBVIOUS
  <1>2. ~Has(<<>>, type)
    BY DEF Has
  <1> QED
    BY <1>1, <1>2, CountNone

-----------------------------------------------------------------------------
(* What can happen to a connection, without the programs around it.        *)

(* The client edits a line, is asked or ends: it keeps what it logged in   *)
(* with, and no menu prompt comes up.                                      *)
KeepsLogin(c, d) ==
    /\ d.pass = c.pass
    /\ c.pass # <<>> => d.user = c.user
    /\ d.inputMenu => c.inputMenu
    /\ d.plain => c.plain

LEMMA EditSession ==
    ASSUME NEW S, NEW in \in Seq(S), NEW T, NEW out \in Seq(T), NEW state,
           NEW playing \in BOOLEAN, NEW db, NEW c, NEW d, KeepsLogin(c, d),
           SessionOK(c, in, out, state, playing, db)
    PROVE  SessionOK(d, in, out, state, playing, db)
  <1> SUFFICES ASSUME d.plain PROVE PlainOK(d, in, out, playing, db)
    BY DEF SessionOK
  <1>1. PlainOK(c, in, out, playing, db)
    BY DEF SessionOK, KeepsLogin
  <1> QED
    BY <1>1, CountsType DEF PlainOK, KeepsLogin, Registered, Due, Counted

(* A query writes the table of users.                                      *)
LEMMA WrittenSession ==
    ASSUME NEW c, NEW in, NEW out, NEW state, NEW playing, NEW db, NEW after \in {db, "written"},
           SessionOK(c, in, out, state, playing, db)
    PROVE  SessionOK(c, in, out, state, playing, after)
  <1>1. Registered(c, db) => Registered(c, after)
    BY DEF Registered
  <1> QED
    BY <1>1 DEF SessionOK, PlainOK

(* Launch into a slot that is free.                                        *)
LEMMA LaunchSession ==
    ASSUME NEW c, c.plain => ~c.inputMenu, NEW db
    PROVE  SessionOK(c, <<>>, <<>>, "pending", FALSE, db)
  BY CountEmpty DEF SessionOK, PlainOK, Has, Due

(* The server takes a packet out and says nothing about a menu.            *)
LEMMA DispatchSession ==
    ASSUME NEW S, NEW in \in Seq(S), NEW T, NEW out \in Seq(T), NEW state,
           NEW playing \in BOOLEAN, NEW db, NEW c, in # <<>>, state \notin {"free", "zombie"},
           SessionOK(c, in, out, state, playing, db)
    PROVE  SessionOK(c, Tail(in), out, state, playing, db)
  <1> SUFFICES ASSUME PlainOK(c, in, out, playing, db)
               PROVE  PlainOK(c, Tail(in), out, playing, db)
    BY DEF SessionOK
  <1>1. /\ Tail(in) \in Seq(S)
        /\ \A i \in DOMAIN Tail(in) : i + 1 \in DOMAIN in /\ Tail(in)[i] = in[i + 1]
    OBVIOUS
  <1>2. /\ Count(Tail(in), "LOGIN_REQ") <= Count(in, "LOGIN_REQ")
        /\ Count(Tail(in), "MENUSEL") <= Count(in, "MENUSEL")
    <2>1. /\ Count(in, "LOGIN_REQ")
               = Count(Tail(in), "LOGIN_REQ") + (IF Head(in).type = "LOGIN_REQ" THEN 1 ELSE 0)
          /\ Count(in, "MENUSEL")
               = Count(Tail(in), "MENUSEL") + (IF Head(in).type = "MENUSEL" THEN 1 ELSE 0)
      BY CountTail
    <2>2. Count(Tail(in), "LOGIN_REQ") \in Nat /\ Count(Tail(in), "MENUSEL") \in Nat
      BY <1>1, CountType
    <2> QED
      BY <2>1, <2>2
  <1>3. Counted(in, out) /\ Counted(Tail(in), out)
    BY <1>1, CountsType
  <1>4. /\ Due(c, Tail(in), out) <= Due(c, in, out)
        /\ Due(c, in, out) \in Nat /\ Due(c, Tail(in), out) \in Nat
        /\ Count(in, "MENUSEL") = 0 => Count(Tail(in), "MENUSEL") = 0
    <2> DEFINE prompt == IF c.inputMenu THEN 1 ELSE 0
               l == Count(in, "LOGIN_REQ")
               s == Count(in, "MENUSEL")
               lt == Count(Tail(in), "LOGIN_REQ")
               st == Count(Tail(in), "MENUSEL")
               m == Count(out, MenuType)
    <2>1. /\ l \in Nat /\ s \in Nat /\ lt \in Nat /\ st \in Nat /\ m \in Nat
          /\ prompt \in Nat
      BY <1>3 DEF Counted
    <2>2. Due(c, in, out) = l + m + prompt + s /\ Due(c, Tail(in), out) = lt + m + prompt + st
      BY DEF Due
    <2>3. lt <= l /\ st <= s
      BY <1>2
    <2>4. Count(in, "MENUSEL") = 0 => Count(Tail(in), "MENUSEL") = 0
      BY <2>1, <2>3
    <2> HIDE DEF prompt, l, s, lt, st, m
    <2>5. /\ lt + m + prompt + st <= l + m + prompt + s
          /\ l + m + prompt + s \in Nat /\ lt + m + prompt + st \in Nat
      BY <2>1, <2>3
    <2> QED
      BY <2>2, <2>4, <2>5
  <1>5. ~Has(Tail(in), "FAULT")
    BY <1>1 DEF PlainOK, Has
  <1> QED
    BY <1>1, <1>4, <1>5 DEF PlainOK

(* Room info reaches the queue of a client.                                *)
LEMMA ToldSession ==
    ASSUME NEW S, NEW in \in Seq(S), NEW out \in Seq(ServerPackets), NEW state,
           NEW playing \in BOOLEAN, NEW db, NEW c, NEW s \in Screens, MenuType # "ROOM_INFO",
           SessionOK(c, in, out, state, playing, db)
    PROVE  SessionOK(c, in, Append(out, RoomInfo(s)), state, playing, db)
  <1>1. RoomInfo(s) \in ServerPackets /\ RoomInfo(s).type # MenuType
    BY DEF ServerPackets, RoomInfo
  <1>2. Count(Append(out, RoomInfo(s)), MenuType) = Count(out, MenuType) + 0
    BY <1>1, CountAppend
  <1>3. Count(Append(out, RoomInfo(s)), MenuType) = Count(out, MenuType)
    BY <1>2, CountsType DEF Counted
  <1> QED
    BY <1>3 DEF SessionOK, PlainOK, Due

(* The right password: the menu takes the place of the request.            *)
LEMMA LoginOKSession ==
    ASSUME NEW in \in Seq(ClientPackets), NEW out \in Seq(ServerPackets), NEW state,
           NEW playing \in BOOLEAN, NEW c, in # <<>>, state \notin {"free", "zombie"},
           Head(in).type = "LOGIN_REQ", CheckPassword(Head(in).user, Head(in).pass),
           SessionOK(c, in, out, state, playing, usersDb)
    PROVE  SessionOK(c, Tail(in), Append(out, MenuPacket), state, playing, usersDb)
  <1> SUFFICES ASSUME PlainOK(c, in, out, playing, usersDb)
               PROVE  PlainOK(c, Tail(in), Append(out, MenuPacket), playing, usersDb)
    BY DEF SessionOK
  <1>1. /\ Tail(in) \in Seq(ClientPackets)
        /\ \A i \in DOMAIN Tail(in) : i + 1 \in DOMAIN in /\ Tail(in)[i] = in[i + 1]
        /\ 1 \in DOMAIN in /\ Head(in) = in[1]
    OBVIOUS
  <1>2. Registered(c, usersDb)
    <2>1. c.pass # <<>> /\ Head(in).user = c.user /\ Head(in).pass = c.pass
      BY <1>1 DEF PlainOK
    <2> QED
      BY <2>1, Zenon DEF CheckPassword, AnyResult, Registered
  <1>3. /\ Count(in, "LOGIN_REQ") = Count(Tail(in), "LOGIN_REQ") + 1
        /\ Count(in, "MENUSEL") = Count(Tail(in), "MENUSEL") + 0
    BY CountTail
  <1>4. Count(Append(out, MenuPacket), MenuType) = Count(out, MenuType) + 1
    <2>1. MenuPacket \in ServerPackets /\ MenuPacket.type = MenuType
      BY DEF ServerPackets, MenuPacket
    <2> QED
      BY <2>1, CountAppend
  <1>5. Due(c, Tail(in), Append(out, MenuPacket)) = Due(c, in, out)
    <2> DEFINE prompt == IF c.inputMenu THEN 1 ELSE 0
               l == Count(Tail(in), "LOGIN_REQ")
               s == Count(Tail(in), "MENUSEL")
               m == Count(out, MenuType)
    <2>1. l \in Nat /\ s \in Nat /\ m \in Nat /\ prompt \in Nat
      BY <1>1, CountsType DEF Counted
    <2>2. Due(c, in, out) = (l + 1) + m + prompt + (s + 0)
      BY <1>3 DEF Due
    <2>3. Due(c, Tail(in), Append(out, MenuPacket)) = l + (m + 1) + prompt + s
      BY <1>4 DEF Due
    <2> HIDE DEF prompt, l, s, m
    <2> QED
      BY <2>1, <2>2, <2>3
  <1>6. ~Has(Tail(in), "FAULT")
    BY <1>1 DEF PlainOK, Has
  <1> QED
    BY <1>1, <1>2, <1>5, <1>6 DEF PlainOK

(* The selection is obeyed: the only thing that was due, and then the User *)
(* plays.                                                                  *)
LEMMA NewGameSession ==
    ASSUME NEW in \in Seq(ClientPackets), NEW out \in Seq(ServerPackets), NEW state,
           NEW playing \in BOOLEAN, NEW db, NEW c, in # <<>>, Head(in).type = "MENUSEL",
           state \notin {"free", "zombie"},
           SessionOK(c, in, out, state, playing, db)
    PROVE  SessionOK(c, Tail(in), out, state, TRUE, db)
  <1> SUFFICES ASSUME PlainOK(c, in, out, playing, db)
               PROVE  PlainOK(c, Tail(in), out, TRUE, db)
    BY DEF SessionOK
  <1>1. /\ Tail(in) \in Seq(ClientPackets)
        /\ \A i \in DOMAIN Tail(in) : i + 1 \in DOMAIN in /\ Tail(in)[i] = in[i + 1]
    OBVIOUS
  <1>2. /\ Count(in, "LOGIN_REQ") = Count(Tail(in), "LOGIN_REQ") + 0
        /\ Count(in, "MENUSEL") = Count(Tail(in), "MENUSEL") + 1
    BY CountTail
  <1>3. /\ Due(c, in, out) = Due(c, Tail(in), out) + 1
        /\ Due(c, Tail(in), out) \in Nat
        /\ Count(in, "MENUSEL") # 0
    <2> DEFINE prompt == IF c.inputMenu THEN 1 ELSE 0
               l == Count(Tail(in), "LOGIN_REQ")
               s == Count(Tail(in), "MENUSEL")
               m == Count(out, MenuType)
    <2>1. l \in Nat /\ s \in Nat /\ m \in Nat /\ prompt \in Nat
      BY <1>1, CountsType DEF Counted
    <2>2. Due(c, Tail(in), out) = l + m + prompt + s
      BY DEF Due
    <2>3. Due(c, in, out) = l + m + prompt + (s + 1) /\ Count(in, "MENUSEL") = s + 1
      BY <1>2, <2>1 DEF Due
    <2> HIDE DEF prompt, l, s, m
    <2> QED
      BY <2>1, <2>2, <2>3
  <1>4. Registered(c, db) /\ Due(c, Tail(in), out) <= 0
    BY <1>3 DEF PlainOK
  <1>5. ~Has(Tail(in), "FAULT")
    BY <1>1 DEF PlainOK, Has
  <1> QED
    BY <1>1, <1>4, <1>5 DEF PlainOK

(* The server gives the client up.                                         *)
LEMMA DropSession ==
    ASSUME NEW in \in Seq(ClientPackets), NEW out \in Seq(ServerPackets), NEW state,
           NEW playing \in BOOLEAN, NEW db, NEW c, NEW n \in 0 .. Len(out), NEW after,
           SessionOK(c, in, out, state, playing, db)
    PROVE  SessionOK(c, <<>>, SubSeq(out, 1, n), after, playing, db)
  <1>1. SubSeq(out, 1, n) \in Seq(ServerPackets)
    OBVIOUS
  <1>2. Count(SubSeq(out, 1, n), MenuType) <= Count(out, MenuType)
    BY CountFirst
  <1>3. /\ Due(c, <<>>, SubSeq(out, 1, n)) <= Due(c, in, out)
        /\ Due(c, in, out) \in Nat /\ Due(c, <<>>, SubSeq(out, 1, n)) \in Nat
        /\ Count(out, MenuType) = 0 => Count(SubSeq(out, 1, n), MenuType) = 0
        /\ Count(<<>>, "MENUSEL") = 0
    <2>1. Counted(in, out) /\ Count(SubSeq(out, 1, n), MenuType) \in Nat
      BY <1>1, CountsType, CountType
    <2>2. Count(<<>>, "LOGIN_REQ") = 0 /\ Count(<<>>, "MENUSEL") = 0
      BY CountEmpty
    <2> DEFINE prompt == IF c.inputMenu THEN 1 ELSE 0
               l == Count(in, "LOGIN_REQ")
               s == Count(in, "MENUSEL")
               m == Count(out, MenuType)
               first == Count(SubSeq(out, 1, n), MenuType)
    <2>3. /\ l \in Nat /\ s \in Nat /\ m \in Nat /\ first \in Nat /\ prompt \in Nat
          /\ first <= m
      BY <1>2, <2>1 DEF Counted
    <2>4. Due(c, in, out) = l + m + prompt + s
      BY DEF Due
    <2>5. Due(c, <<>>, SubSeq(out, 1, n)) = 0 + first + prompt + 0
      BY <2>2 DEF Due
    <2>6. Count(out, MenuType) = 0 => Count(SubSeq(out, 1, n), MenuType) = 0
      BY <2>3
    <2> HIDE DEF prompt, l, s, m, first
    <2>7. /\ 0 + first + prompt + 0 <= l + m + prompt + s
          /\ l + m + prompt + s \in Nat /\ 0 + first + prompt + 0 \in Nat
      BY <2>3
    <2> QED
      BY <2>2, <2>4, <2>5, <2>6, <2>7
  <1> QED
    BY <1>3 DEF SessionOK, PlainOK, Has

(* The DISCONNECT event is dispatched.                                     *)
LEMMA LeaveSession ==
    ASSUME NEW in \in Seq(ClientPackets), NEW out \in Seq(ServerPackets),
           NEW playing \in BOOLEAN, NEW db, NEW c, NEW after,
           SessionOK(c, in, out, "zombie", playing, db)
    PROVE  SessionOK(c, in, out, after, FALSE, db)
  <1>1. Due(c, in, out) \in Nat
    BY CountsType DEF Due, Counted
  <1> QED
    BY <1>1 DEF SessionOK, PlainOK

(* The client reads a packet; the menu raises its prompt.                  *)
LEMMA ReadSession ==
    ASSUME NEW in \in Seq(ClientPackets), NEW out \in Seq(ServerPackets), NEW state,
           NEW playing \in BOOLEAN, NEW db, NEW c, NEW d, out # <<>>,
           d.pass = c.pass, d.user = c.user, d.plain = c.plain,
           d.inputMenu => c.inputMenu \/ Head(out).type = MenuType,
           SessionOK(c, in, out, state, playing, db)
    PROVE  SessionOK(d, in, Tail(out), state, playing, db)
  <1>1. Tail(out) \in Seq(ServerPackets)
    OBVIOUS
  <1>2. Count(out, MenuType) =
            Count(Tail(out), MenuType) + (IF Head(out).type = MenuType THEN 1 ELSE 0)
    BY CountTail
  <1>3. /\ Due(d, in, Tail(out)) <= Due(c, in, out)
        /\ Due(c, in, out) \in Nat /\ Due(d, in, Tail(out)) \in Nat
        /\ d.inputMenu => c.inputMenu \/ Count(out, MenuType) # 0
        /\ Count(out, MenuType) = 0 => Count(Tail(out), MenuType) = 0
    <2> DEFINE l == Count(in, "LOGIN_REQ")
               s == Count(in, "MENUSEL")
               m == Count(Tail(out), MenuType)
               read == IF Head(out).type = MenuType THEN 1 ELSE 0
               before == IF c.inputMenu THEN 1 ELSE 0
               after == IF d.inputMenu THEN 1 ELSE 0
    <2>1. l \in Nat /\ s \in Nat /\ m \in Nat
      BY <1>1, CountsType DEF Counted
    <2>2. read \in Nat /\ before \in Nat /\ after \in Nat
      OBVIOUS
    <2>3. /\ after <= before + read
          /\ d.inputMenu => c.inputMenu \/ read = 1
      OBVIOUS
    <2>4. Due(d, in, Tail(out)) = l + m + after + s
      BY DEF Due
    <2>5. Count(out, MenuType) = m + read
      BY <1>2
    <2>6. Due(c, in, out) = l + (m + read) + before + s
      BY <2>5 DEF Due
    <2>7. Count(out, MenuType) = 0 => Count(Tail(out), MenuType) = 0
      BY <2>1, <2>2, <2>5
    <2>8. d.inputMenu => c.inputMenu \/ Count(out, MenuType) # 0
      BY <2>1, <2>3, <2>5
    <2> HIDE DEF l, s, m, read, before, after
    <2>9. /\ l + m + after + s <= l + (m + read) + before + s
          /\ l + m + after + s \in Nat /\ l + (m + read) + before + s \in Nat
      BY <2>1, <2>2, <2>3
    <2> QED
      BY <2>4, <2>6, <2>7, <2>8, <2>9
  <1> QED
    BY <1>3 DEF SessionOK, PlainOK, Registered

(* The menu prompt is answered.                                            *)
LEMMA SelectSession ==
    ASSUME NEW in \in Seq(ClientPackets), NEW out \in Seq(ServerPackets), NEW state,
           NEW playing \in BOOLEAN, NEW db, NEW c, NEW d, NEW key,
           MenuSel(key) \in ClientPackets, state \in {"pending", "up"},
           c.inputMenu, ~d.inputMenu, d.pass = c.pass, d.user = c.user, d.plain = c.plain,
           SessionOK(c, in, out, state, playing, db)
    PROVE  SessionOK(d, Append(in, MenuSel(key)), out, state, playing, db)
  <1> DEFINE m == MenuSel(key)
  <1>1. m.type = "MENUSEL" /\ m \in ClientPackets
    BY DEF MenuSel
  <1> HIDE DEF m
  <1>2. /\ Count(Append(in, m), "LOGIN_REQ") = Count(in, "LOGIN_REQ") + 0
        /\ Count(Append(in, m), "MENUSEL") = Count(in, "MENUSEL") + 1
    BY <1>1, CountAppend
  <1>3. Append(in, m) \in Seq(ClientPackets)
    BY <1>1
  <1>4. Due(d, Append(in, m), out) = Due(c, in, out)
    BY <1>2, <1>3, CountsType DEF Due, Counted
  <1>5. \A i \in DOMAIN Append(in, m) : Append(in, m)[i].type = "LOGIN_REQ" =>
            i \in DOMAIN in /\ Append(in, m)[i] = in[i]
    BY <1>1
  <1>6. Has(Append(in, m), "FAULT") => Has(in, "FAULT")
    BY <1>1, AppendedHas
  <1>7. SessionOK(d, Append(in, m), out, state, playing, db)
    BY <1>4, <1>5, <1>6 DEF SessionOK, PlainOK, Registered
  <1> QED
    BY <1>7 DEF m

(* A command is sent: it counts for nothing here.                          *)
LEMMA CommandSession ==
    ASSUME NEW in \in Seq(ClientPackets), NEW out \in Seq(ServerPackets), NEW state,
           NEW playing \in BOOLEAN, NEW db, NEW c, NEW m \in ClientPackets, m.type = "PCOMMAND",
           state \in {"pending", "up"},
           SessionOK(c, in, out, state, playing, db)
    PROVE  SessionOK(c, Append(in, m), out, state, playing, db)
  <1>1. /\ Count(Append(in, m), "LOGIN_REQ") = Count(in, "LOGIN_REQ") + 0
        /\ Count(Append(in, m), "MENUSEL") = Count(in, "MENUSEL") + 0
    BY CountAppend
  <1>2. Due(c, Append(in, m), out) = Due(c, in, out)
        /\ Count(Append(in, m), "MENUSEL") = Count(in, "MENUSEL")
    BY <1>1, CountsType DEF Due, Counted
  <1>3. \A i \in DOMAIN Append(in, m) : Append(in, m)[i].type = "LOGIN_REQ" =>
            i \in DOMAIN in /\ Append(in, m)[i] = in[i]
    OBVIOUS
  <1>4. Has(Append(in, m), "FAULT") => Has(in, "FAULT")
    BY AppendedHas
  <1> QED
    BY <1>2, <1>3, <1>4 DEF SessionOK, PlainOK

(* The password is entered: the client had not logged in, so nothing is on *)
(* its way.                                                                *)
LEMMA LoginSession ==
    ASSUME NEW in \in Seq(ClientPackets), NEW out \in Seq(ServerPackets), NEW state,
           NEW playing \in BOOLEAN, NEW db, NEW c, NEW d, c.pass = <<>>, d.pass # <<>>,
           LoginReq(d.user, d.pass) \in ClientPackets, d.plain => c.plain,
           d.inputMenu => c.inputMenu, state \in {"pending", "up"},
           SessionOK(c, in, out, state, playing, db)
    PROVE  SessionOK(d, Append(in, LoginReq(d.user, d.pass)), out, state, playing, db)
  <1> SUFFICES ASSUME d.plain, PlainOK(c, in, out, playing, db)
               PROVE  PlainOK(d, Append(in, LoginReq(d.user, d.pass)), out, playing, db)
    BY DEF SessionOK
  <1> DEFINE m == LoginReq(d.user, d.pass)
  <1>1. m.type = "LOGIN_REQ" /\ m.user = d.user /\ m.pass = d.pass /\ m \in ClientPackets
    BY DEF LoginReq
  <1> HIDE DEF m
  <1>2. /\ Count(Append(in, m), "LOGIN_REQ") = Count(in, "LOGIN_REQ") + 1
        /\ Count(Append(in, m), "MENUSEL") = Count(in, "MENUSEL") + 0
    BY <1>1, CountAppend
  <1>3. Append(in, m) \in Seq(ClientPackets)
    BY <1>1
  <1>4. ~Registered(c, db)
    BY DEF Registered
  <1>5. \A i \in DOMAIN in : in[i].type # "LOGIN_REQ"
    BY DEF PlainOK
  <1>6. Count(in, "LOGIN_REQ") = 0
    BY <1>5, CountNone DEF Has
  <1>7. ~playing /\ ~c.inputMenu /\ Count(in, "MENUSEL") = 0 /\ Count(out, MenuType) = 0
    BY <1>4 DEF PlainOK
  <1>8. Due(d, Append(in, m), out) = 1 /\ Count(Append(in, m), "MENUSEL") = 0
    BY <1>2, <1>6, <1>7 DEF Due
  <1>9. \A i \in DOMAIN Append(in, m) : Append(in, m)[i].type = "LOGIN_REQ" =>
            Append(in, m)[i] = m
    BY <1>5
  <1>10. ~Has(Append(in, m), "FAULT")
    BY <1>1, AppendedHas DEF PlainOK
  <1>11. PlainOK(d, Append(in, m), out, playing, db)
    BY <1>1, <1>7, <1>8, <1>9, <1>10 DEF PlainOK
  <1> QED
    BY <1>11 DEF m

-----------------------------------------------------------------------------
(***************************************************************************)
(* Server, clients and queues.  What each end promises is what the other   *)
(* takes for granted, guids do not repeat and the menu is not read as room *)
(* info.                                                                   *)
(***************************************************************************)
Assumed ==
    /\ UniqueGuids
    /\ MenuType # "ROOM_INFO"
    /\ FromServer = ServerPackets
    /\ Sendable \subseteq ClientPackets

Playing(p) == p \in RoomOf("test1")

Session(p) == SessionOK(client[p], toServer[p], toClient[p], conn[p], Playing(p), usersDb)

SystemInv == PresenceInv /\ ClientInv /\ \A p \in Peers : Session(p)

LEMMA PlayingIsOnScreen ==
    ASSUME PresenceInv, NEW p \in Peers
    PROVE  OnScreen(p, "test1") <=> Playing(p)
  BY RoomIsScreen DEF OnScreen, Playing, Standing, Screens

LEMMA SystemTypes ==
    ASSUME SystemInv
    PROVE  /\ client \in [Peers -> Clients]
           /\ toServer \in [Peers -> Seq(ClientPackets)]
           /\ toClient \in [Peers -> Seq(ServerPackets)]
           /\ conn \in [Peers -> ConnStates]
           /\ \A p \in Peers : /\ client[p] \in Clients
                              /\ toServer[p] \in Seq(ClientPackets)
                              /\ toClient[p] \in Seq(ServerPackets)
                              /\ Playing(p) \in BOOLEAN
  BY DEF SystemInv, PresenceInv, TypeInv, ServerTypeOK, ClientInv, Playing

(* Only the connection in p changes. *)
LEMMA OneSession ==
    ASSUME SystemInv, NEW p \in Peers,
           \A q \in Peers : q # p =>
               /\ client'[q] = client[q]
               /\ toServer'[q] = toServer[q] /\ toClient'[q] = toClient[q]
               /\ conn'[q] = conn[q]
               /\ q \in RoomOf("test1")' <=> q \in RoomOf("test1"),
           usersDb' \in {usersDb, "written"},
           SessionOK(client'[p], toServer'[p], toClient'[p], conn'[p], p \in RoomOf("test1")',
                     usersDb')
    PROVE  \A q \in Peers : Session(q)'
  <1> SUFFICES ASSUME NEW q \in Peers PROVE Session(q)'
    OBVIOUS
  <1>1. CASE q = p
    BY <1>1 DEF Session, Playing
  <1>2. CASE q # p
    <2>1. SessionOK(client[q], toServer[q], toClient[q], conn[q], Playing(q), usersDb)
      BY DEF SystemInv, Session
    <2>2. SessionOK(client[q], toServer[q], toClient[q], conn[q], Playing(q), usersDb')
      BY <2>1, WrittenSession
    <2>3. (q \in RoomOf("test1")') = (q \in RoomOf("test1"))
      BY <1>2
    <2> QED
      BY <1>2, <2>2, <2>3 DEF Session, Playing
  <1> QED
    BY <1>1, <1>2

-----------------------------------------------------------------------------
(* The server's steps. *)

LEMMA ConnectSession ==
    ASSUME Assumed, SystemInv, PresenceInv', NEW p \in Peers, Connect(p), UNCHANGED client
    PROVE  \A q \in Peers : Session(q)'
  <1>1. /\ conn[p] = "pending"
        /\ conn' = [conn EXCEPT ![p] = "up"]
        /\ toServer' = toServer
        /\ UNCHANGED usersDb
        /\ \/ UNCHANGED toClient
           \/ /\ lastPeer # NULL
              /\ toClient' = enet_peer_send(conn', lastPeer, RoomInfo("mainmenu"))
    BY DEF Connect, RoomInfoOfConnect
  <1>2. RoomOf("test1")' = RoomOf("test1")
    BY ConnectArrives DEF Assumed, SystemInv
  <1> SUFFICES ASSUME NEW q \in Peers PROVE Session(q)'
    OBVIOUS
  <1>3. SessionOK(client[q], toServer[q], toClient[q], conn[q], Playing(q), usersDb)
    BY DEF SystemInv, Session
  <1>4. SessionOK(client[q], toServer[q], toClient[q], conn'[q], Playing(q), usersDb)
    <2>1. conn'[q] = conn[q] \/ conn'[q] = "up"
      BY <1>1, SystemTypes
    <2> QED
      BY <1>3, <2>1 DEF SessionOK
  <1>5. \/ toClient'[q] = toClient[q]
        \/ toClient'[q] = Append(toClient[q], RoomInfo("mainmenu"))
    BY <1>1, SystemTypes DEF enet_peer_send
  <1>6. SessionOK(client[q], toServer[q], toClient'[q], conn'[q], Playing(q), usersDb)
    <2>1. toServer[q] \in Seq(ClientPackets) /\ toClient[q] \in Seq(ServerPackets)
          /\ Playing(q) \in BOOLEAN
      BY SystemTypes
    <2>2. "mainmenu" \in Screens /\ MenuType # "ROOM_INFO"
      BY DEF Screens, Assumed
    <2>3. SessionOK(client[q], toServer[q], Append(toClient[q], RoomInfo("mainmenu")), conn'[q],
                    Playing(q), usersDb)
      BY <1>4, <2>1, <2>2, ToldSession
    <2> QED
      BY <1>4, <1>5, <2>3
  <1> QED
    BY <1>1, <1>2, <1>6 DEF Session, Playing

(* A packet is dispatched, and but for NewGame no User moves.              *)
LEMMA ReceiveSession ==
    ASSUME Assumed, SystemInv, NEW p \in Peers, UNCHANGED client,
           \/ LoginOK(p) \/ LoginRefused(p) \/ LoginFault(p) \/ QuitGame(p)
           \/ MenuSelCrash(p) \/ IgnoreCommand(p) \/ ReceiveJunk(p) \/ ReceiveFault(p)
    PROVE  \A q \in Peers : Session(q)'
  <1>1. /\ conn[p] = "up" /\ toServer[p] # <<>>
        /\ toServer' = Dispatched(p)
        /\ UNCHANGED <<conn, localUsers, data>>
        /\ usersDb' \in {usersDb, "written"}
    BY DEF LoginOK, LoginRefused, LoginFault, QuitGame, MenuSelCrash, IgnoreCommand, ReceiveJunk,
           ReceiveFault, Queries, Selects, Receives
  <1>2. RoomOf("test1")' = RoomOf("test1")
    BY <1>1, SameRooms DEF Screens
  <1>3. /\ toServer'[p] = Tail(toServer[p])
        /\ \A q \in Peers : q # p => toServer'[q] = toServer[q]
    BY <1>1, SystemTypes DEF Dispatched
  <1>4. /\ toServer[p] \in Seq(ClientPackets) /\ toClient[p] \in Seq(ServerPackets)
        /\ Playing(p) \in BOOLEAN
    BY SystemTypes
  <1>5. SessionOK(client[p], toServer[p], toClient[p], conn[p], Playing(p), usersDb)
    BY DEF SystemInv, Session
  <1>6. CASE LoginOK(p)
    <2>1. toClient' = [toClient EXCEPT ![p] = Append(@, MenuPacket)]
      BY <1>1, <1>6 DEF LoginOK, enet_peer_send
    <2>2. /\ toClient'[p] = Append(toClient[p], MenuPacket)
          /\ \A q \in Peers : q # p => toClient'[q] = toClient[q]
      BY <2>1, SystemTypes
    <2>3. /\ Head(toServer[p]).type = "LOGIN_REQ"
          /\ CheckPassword(Head(toServer[p]).user, Head(toServer[p]).pass)
      BY <1>6 DEF LoginOK, Receives
    <2>4. SessionOK(client[p], Tail(toServer[p]), Append(toClient[p], MenuPacket), conn[p],
                    Playing(p), usersDb')
      BY <1>1, <1>4, <1>5, <2>3, LoginOKSession, WrittenSession
    <2>5. SessionOK(client'[p], toServer'[p], toClient'[p], conn'[p], p \in RoomOf("test1")',
                    usersDb')
      BY <1>1, <1>2, <1>3, <2>2, <2>4 DEF Playing
    <2> QED
      BY <1>1, <1>2, <1>3, <2>2, <2>5, OneSession
  <1>7. CASE UNCHANGED toClient
    <2>1. SessionOK(client[p], Tail(toServer[p]), toClient[p], conn[p], Playing(p), usersDb')
      BY <1>1, <1>4, <1>5, DispatchSession, WrittenSession
    <2>2. SessionOK(client'[p], toServer'[p], toClient'[p], conn'[p], p \in RoomOf("test1")',
                    usersDb')
      BY <1>1, <1>2, <1>3, <1>7, <2>1 DEF Playing
    <2> QED
      BY <1>1, <1>2, <1>3, <1>7, <2>2, OneSession
  <1> QED
    BY <1>6, <1>7 DEF LoginRefused, LoginFault, QuitGame, MenuSelCrash, IgnoreCommand, ReceiveJunk,
                      ReceiveFault

LEMMA NewGameSessions ==
    ASSUME Assumed, SystemInv, PresenceInv', NEW p \in Peers, NewGame(p), UNCHANGED client
    PROVE  \A q \in Peers : Session(q)'
  <1>1. /\ conn[p] = "up" /\ toServer[p] # <<>> /\ Head(toServer[p]).type = "MENUSEL"
        /\ toServer' = Dispatched(p)
        /\ conn' = conn /\ usersDb' = usersDb
    BY DEF NewGame, Selects, Receives
  <1>2. toClient' = [toClient EXCEPT ![p] = Append(@, RoomInfo("test1"))]
    <2>1. activeUserMap[data[p]].peer = p
      BY <1>1 DEF SystemInv, PresenceInv, OwnUser, HasUser
    <2> QED
      BY <1>1, <2>1 DEF NewGame, enet_peer_send
  <1>3. RoomOf("test1")' = RoomOf("test1") \cup {p}
    BY NewGamePlays DEF SystemInv
  <1>4. /\ toServer'[p] = Tail(toServer[p])
        /\ toClient'[p] = Append(toClient[p], RoomInfo("test1"))
        /\ \A q \in Peers : q # p => toServer'[q] = toServer[q] /\ toClient'[q] = toClient[q]
    BY <1>1, <1>2, SystemTypes DEF Dispatched
  <1>5. /\ toServer[p] \in Seq(ClientPackets) /\ toClient[p] \in Seq(ServerPackets)
        /\ Playing(p) \in BOOLEAN
    BY SystemTypes
  <1>6. SessionOK(client[p], toServer[p], toClient[p], conn[p], Playing(p), usersDb)
    BY DEF SystemInv, Session
  <1>7. SessionOK(client[p], Tail(toServer[p]), toClient[p], conn[p], TRUE, usersDb)
    BY <1>1, <1>5, <1>6, NewGameSession
  <1>8. SessionOK(client[p], Tail(toServer[p]), Append(toClient[p], RoomInfo("test1")), conn[p],
                  TRUE, usersDb)
    <2>1. Tail(toServer[p]) \in Seq(ClientPackets) /\ "test1" \in Screens
          /\ MenuType # "ROOM_INFO"
      BY <1>1, <1>5 DEF Screens, Assumed
    <2> QED
      BY <1>5, <1>7, <2>1, ToldSession
  <1>9. SessionOK(client'[p], toServer'[p], toClient'[p], conn'[p], p \in RoomOf("test1")',
                  usersDb')
    <2>1. (p \in RoomOf("test1")') = TRUE
      BY <1>3
    <2> QED
      BY <1>1, <1>4, <1>8, <2>1
  <1> QED
    BY <1>1, <1>3, <1>4, <1>9, OneSession

LEMMA DisconnectSession ==
    ASSUME SystemInv, PresenceInv', NEW p \in Peers, Disconnect(p), UNCHANGED client
    PROVE  \A q \in Peers : Session(q)'
  <1>1. /\ conn[p] = "zombie"
        /\ conn' = [conn EXCEPT ![p] = "free"]
        /\ UNCHANGED <<toServer, toClient, usersDb>>
    BY DEF Disconnect
  <1>2. RoomOf("test1")' = RoomOf("test1") \ {p}
    BY DisconnectLeaves DEF SystemInv, Screens
  <1>3. \A q \in Peers : q # p => conn'[q] = conn[q]
    BY <1>1, SystemTypes
  <1>4. SessionOK(client[p], toServer[p], toClient[p], "zombie", Playing(p), usersDb)
    BY <1>1 DEF SystemInv, Session
  <1>5. SessionOK(client[p], toServer[p], toClient[p], conn'[p], FALSE, usersDb)
    BY <1>4, SystemTypes, LeaveSession
  <1>6. SessionOK(client'[p], toServer'[p], toClient'[p], conn'[p], p \in RoomOf("test1")',
                  usersDb')
    <2>1. (p \in RoomOf("test1")') = FALSE
      BY <1>2
    <2> QED
      BY <1>1, <1>5, <2>1
  <1> QED
    BY <1>1, <1>2, <1>3, <1>6, OneSession

LEMMA DropSessions ==
    ASSUME SystemInv, NEW p \in Peers, Drop(p), UNCHANGED <<serverVars, client>>
    PROVE  \A q \in Peers : Session(q)'
  <1>1. PICK n \in 0 .. Len(toClient[p]) :
          toClient' = [toClient EXCEPT ![p] = SubSeq(@, 1, n)]
    BY DEF Drop
  <1>2. /\ toServer'[p] = <<>> /\ toClient'[p] = SubSeq(toClient[p], 1, n)
        /\ \A q \in Peers : q # p => /\ toServer'[q] = toServer[q] /\ toClient'[q] = toClient[q]
                                    /\ conn'[q] = conn[q]
    BY <1>1, SystemTypes DEF Drop
  <1>3. RoomOf("test1")' = RoomOf("test1") /\ usersDb' = usersDb
    BY SameRooms DEF Screens, serverVars
  <1>4. SessionOK(client[p], toServer[p], toClient[p], conn[p], Playing(p), usersDb)
    BY DEF SystemInv, Session
  <1>5. SessionOK(client[p], <<>>, SubSeq(toClient[p], 1, n), conn'[p], Playing(p), usersDb)
    BY <1>4, SystemTypes, DropSession
  <1>6. SessionOK(client'[p], toServer'[p], toClient'[p], conn'[p], p \in RoomOf("test1")',
                  usersDb')
    BY <1>2, <1>3, <1>5 DEF Playing
  <1> QED
    BY <1>2, <1>3, <1>6, OneSession

(* The invariants of both ends, where a client does nothing.               *)
LEMMA ServerKeeps ==
    ASSUME Assumed, SystemInv, NEW p \in Peers, ServerMoves(p) \/ LinkMoves(p)
    PROVE  PresenceInv' /\ ClientInv'
  <1>1. [OpenServerNext]_openServerVars
    BY DEF ServerMoves, LinkMoves, OpenServerNext, AnyClient
  <1>2. PresenceInv'
    BY <1>1, PresenceStep DEF Assumed, SystemInv
  <1>3. UNCHANGED client
    BY DEF ServerMoves, LinkMoves
  <1>4. toServer' \in [Peers -> Seq(Sendable)]
    <2>1. toServer \in [Peers -> Seq(Sendable)]
      BY DEF SystemInv, ClientInv, QueuesOK
    <2>2. CASE UNCHANGED toServer
      BY <2>1, <2>2
    <2>3. CASE toServer[p] # <<>> /\ toServer' = Dispatched(p)
      BY <2>1, <2>3 DEF Dispatched
    <2>4. CASE Drop(p)
      BY <2>1, <2>4 DEF Drop
    <2> QED
      BY <2>2, <2>3, <2>4
         DEF ServerMoves, LinkMoves, ProcessEvent, ProcessPacket, Connect, ConnectFault, ReceiveJunk,
             ReceiveFault, LoginOK, LoginRefused, LoginFault, NewGame, QuitGame, MenuSelCrash,
             IgnoreCommand, Disconnect, Selects, Receives, enetVars
  <1>5. toClient' \in [Peers -> Seq(FromServer)]
    BY <1>2 DEF Assumed, PresenceInv, TypeInv, ServerTypeOK
  <1> QED
    BY <1>2, <1>3, <1>4, <1>5 DEF SystemInv, ClientInv, QueuesOK

LEMMA ServerSessions ==
    ASSUME Assumed, SystemInv, NEW p \in Peers, ServerMoves(p) \/ LinkMoves(p)
    PROVE  \A q \in Peers : Session(q)'
  <1>1. UNCHANGED client /\ PresenceInv'
    BY ServerKeeps DEF ServerMoves, LinkMoves
  <1>2. CASE ConnectFault(p)
    <2>1. \A q \in Peers : Session(q)
      BY DEF SystemInv
    <2>2. UNCHANGED enetVars /\ RoomOf("test1")' = RoomOf("test1") /\ usersDb' = usersDb
      BY <1>2, SameRooms DEF ConnectFault, Screens
    <2> QED
      BY <1>1, <2>1, <2>2 DEF Session, Playing, enetVars
  <1> QED
    BY <1>1, <1>2, ConnectSession, ReceiveSession, NewGameSessions, DisconnectSession, DropSessions
       DEF ServerMoves, LinkMoves, ProcessEvent, ProcessPacket

-----------------------------------------------------------------------------
(* The client's steps. *)

LEMMA EndedKeeps == ASSUME NEW c, NEW how PROVE KeepsLogin(c, Ended(c, how))
  <1>1. /\ Ended(c, how).pass = c.pass /\ Ended(c, how).user = c.user
        /\ ~Ended(c, how).inputMenu /\ Ended(c, how).plain = c.plain
    BY DEF Ended, NoClient
  <1> QED
    BY <1>1 DEF KeepsLogin

LEMMA GameLoopKeeps == ASSUME NEW c \in Clients PROVE KeepsLogin(c, GameLoop(c))
  BY GameLoopIsClient DEF KeepsLogin

LEMMA KeepsTwice ==
    ASSUME NEW c, NEW d, NEW e, KeepsLogin(c, d), KeepsLogin(d, e)
    PROVE  KeepsLogin(c, e)
  BY DEF KeepsLogin

LEMMA UserTakenKeeps ==
    ASSUME NEW c \in Clients
    PROVE  KeepsLogin(c, TakenAsUser(c))
  BY TakenAsUserIsClient DEF KeepsLogin, TakenAsUser, Clients, PromptOrder

LEMMA EditKeeps ==
    ASSUME NEW c \in Clients
    PROVE  /\ KeepsLogin(c, Completed(c))
           /\ KeepsLogin(c, Shortened(c))
           /\ \A key \in Keys : KeepsLogin(c, [c EXCEPT !.input = Append(@, key)])
  BY DEF KeepsLogin, Completed, Shortened, Clients, ClientRecords

LEMMA EnteredFields ==
    ASSUME NEW c \in Clients, NEW read \in DigestRead
    PROVE  LET d == EnteredAs(c, read)
           IN  /\ d.inputMenu = c.inputMenu /\ d.plain = c.plain
               /\ ~c.inputPass => KeepsLogin(c, d)
               /\ c.inputPass => /\ d.user = TakenAsUser(c).user
                                 /\ d.pass = Digest(read, TakenAsUser(c).input)
                                 /\ d.pass # <<>>
  <1> DEFINE u == TakenAsUser(c)
             t == TakenAsPass(u, read)
             d == CommandDone(t)
             e == Cleared(d)
  <1>1. /\ u \in ClientRecords /\ PromptOrder(u) /\ u.inputPass = c.inputPass
        /\ u.inputMenu = c.inputMenu /\ u.input \in Texts /\ u.plain = c.plain
        /\ KeepsLogin(c, u)
    BY TakenAsUserIsClient, UserTakenKeeps DEF ClientRecords
  <1> HIDE DEF u
  <1>2. /\ t \in ClientRecords
        /\ t.inputMenu = u.inputMenu /\ t.user = u.user /\ t.plain = u.plain
        /\ ~u.inputPass => t = u
        /\ u.inputPass => t.pass = Digest(read, u.input)
    <2>1. t \in ClientRecords
      BY <1>1, TakenAsPassIsClient
    <2> QED
      BY <1>1, <2>1 DEF TakenAsPass, ClientRecords
  <1> HIDE DEF t
  <1>3. /\ d \in ClientRecords /\ d.inputMenu = t.inputMenu /\ d.user = t.user
        /\ d.pass = t.pass /\ d.plain = t.plain
    BY <1>2 DEF CommandDone, ClientRecords
  <1> HIDE DEF d
  <1>4. e.inputMenu = d.inputMenu /\ e.user = d.user /\ e.pass = d.pass /\ e.plain = d.plain
    BY <1>3 DEF Cleared, ClientRecords
  <1>5. Digest(read, u.input) # <<>>
    BY <1>1, DigestType
  <1>6. EnteredAs(c, read) = e
    BY DEF EnteredAs, e, d, t, u
  <1> HIDE DEF e
  <1>7. /\ e.inputMenu = c.inputMenu /\ e.plain = c.plain
        /\ ~c.inputPass => KeepsLogin(c, e)
        /\ c.inputPass => e.user = u.user /\ e.pass = Digest(read, u.input) /\ e.pass # <<>>
    BY <1>1, <1>2, <1>3, <1>4, <1>5 DEF KeepsLogin
  <1> QED
    BY <1>6, <1>7 DEF u

(* A password that cannot be sent any more: nothing is due either.         *)
LEMMA UnsentSession ==
    ASSUME NEW in \in Seq(ClientPackets), NEW out \in Seq(ServerPackets), NEW state,
           NEW playing \in BOOLEAN, NEW db, NEW c, NEW d, c.pass = <<>>,
           d.inputMenu => c.inputMenu, d.plain => c.plain, state \in {"free", "zombie"},
           SessionOK(c, in, out, state, playing, db)
    PROVE  SessionOK(d, in, out, state, playing, db)
  <1>1. ~Registered(c, db) /\ in = <<>>
    BY DEF Registered, SessionOK
  <1>2. c.plain => ~playing /\ ~c.inputMenu /\ Count(out, MenuType) = 0
    BY <1>1 DEF SessionOK, PlainOK
  <1>3. Count(in, "LOGIN_REQ") = 0 /\ Count(in, "MENUSEL") = 0
    BY <1>1, CountEmpty
  <1> QED
    BY <1>1, <1>2, <1>3 DEF SessionOK, PlainOK, Has, Due

LEMMA CommandsSession ==
    ASSUME NEW in \in Seq(ClientPackets), NEW out \in Seq(ServerPackets), NEW state,
           NEW playing \in BOOLEAN, NEW db, NEW c, NEW cs \in Seq(ClientPackets), Len(cs) <= 1,
           \A i \in DOMAIN cs : cs[i].type = "PCOMMAND",
           state \in {"pending", "up"},
           SessionOK(c, in, out, state, playing, db)
    PROVE  SessionOK(c, in \o cs, out, state, playing, db)
  <1>0. DOMAIN cs = 1 .. Len(cs) /\ Len(cs) \in Nat
    OBVIOUS
  <1>1. CASE Len(cs) = 0
    <2>1. in \o cs = in
      BY <1>1
    <2> QED
      BY <2>1
  <1>2. CASE Len(cs) = 1
    <2> DEFINE m == cs[1]
    <2>1. 1 \in DOMAIN cs
      BY <1>0, <1>2
    <2>2. m \in ClientPackets /\ m.type = "PCOMMAND"
      BY <2>1
    <2>3. cs = <<m>>
      BY <1>0, <1>2, <2>2
    <2> HIDE DEF m
    <2>4. in \o <<m>> = Append(in, m)
      BY <2>2
    <2>5. SessionOK(c, Append(in, m), out, state, playing, db)
      BY <2>2, CommandSession
    <2> QED
      BY <2>3, <2>4, <2>5
  <1> QED
    BY <1>0, <1>1, <1>2

(* The client in p becomes d, and the queues of p what is said here.       *)
LEMMA ClientSession ==
    ASSUME SystemInv, NEW p \in Peers, NEW d, Becomes(p, d), UNCHANGED serverVars,
           NEW in, NEW out, NEW state,
           toServer' = [toServer EXCEPT ![p] = in],
           toClient' = [toClient EXCEPT ![p] = out],
           conn' = [conn EXCEPT ![p] = state],
           SessionOK(d, in, out, state, Playing(p), usersDb)
    PROVE  \A q \in Peers : Session(q)'
  <1>1. /\ client'[p] = d /\ toServer'[p] = in /\ toClient'[p] = out /\ conn'[p] = state
        /\ \A q \in Peers : q # p =>
              /\ client'[q] = client[q] /\ conn'[q] = conn[q]
              /\ toServer'[q] = toServer[q] /\ toClient'[q] = toClient[q]
    BY SystemTypes DEF Becomes
  <1>2. RoomOf("test1")' = RoomOf("test1") /\ usersDb' = usersDb
    BY SameRooms DEF Screens, serverVars
  <1>3. SessionOK(client'[p], toServer'[p], toClient'[p], conn'[p], p \in RoomOf("test1")',
                  usersDb')
    BY <1>1, <1>2 DEF Playing
  <1> QED
    BY <1>1, <1>2, <1>3, OneSession

LEMMA QueuedSessions ==
    ASSUME SystemInv, NEW p \in Peers, NEW d, Becomes(p, d),
           UNCHANGED serverVars, UNCHANGED conn, UNCHANGED toClient,
           NEW in, toServer' = [toServer EXCEPT ![p] = in],
           SessionOK(d, in, toClient[p], conn[p], Playing(p), usersDb)
    PROVE  \A q \in Peers : Session(q)'
  <1>1. /\ client'[p] = d /\ toServer'[p] = in
        /\ \A q \in Peers : q # p => client'[q] = client[q] /\ toServer'[q] = toServer[q]
    BY SystemTypes DEF Becomes
  <1>2. RoomOf("test1")' = RoomOf("test1") /\ usersDb' = usersDb
    BY SameRooms DEF Screens, serverVars
  <1>3. SessionOK(client'[p], toServer'[p], toClient'[p], conn'[p], p \in RoomOf("test1")',
                  usersDb')
    BY <1>1, <1>2 DEF Playing
  <1> QED
    BY <1>1, <1>2, <1>3, OneSession

LEMMA EditSessions ==
    ASSUME SystemInv, NEW p \in Peers, NEW d, Becomes(p, d), KeepsLogin(client[p], d),
           UNCHANGED <<serverVars, enetVars>>
    PROVE  \A q \in Peers : Session(q)'
  <1>1. SessionOK(client[p], toServer[p], toClient[p], conn[p], Playing(p), usersDb)
    BY DEF SystemInv, Session
  <1>2. SessionOK(d, toServer[p], toClient[p], conn[p], Playing(p), usersDb)
    BY <1>1, SystemTypes, EditSession
  <1>3. toServer' = [toServer EXCEPT ![p] = toServer[p]]
    BY SystemTypes DEF enetVars
  <1>4. UNCHANGED serverVars /\ UNCHANGED conn /\ UNCHANGED toClient
    BY DEF enetVars
  <1> QED
    BY <1>2, <1>3, <1>4, QueuedSessions

LEMMA LaunchSessions ==
    ASSUME Assumed, SystemInv, NEW p \in Peers, Launch(p), UNCHANGED serverVars
    PROVE  \A q \in Peers : Session(q)'
  <1>0. PICK menu \in FlagInit :
          Becomes(p, [NoClient EXCEPT !.proc = "running", !.inputMenu = menu,
                                      !.plain = ~menu])
    BY DEF Launch
  <1> DEFINE d == [NoClient EXCEPT !.proc = "running", !.inputMenu = menu, !.plain = ~menu]
  <1>1. Becomes(p, d)
    BY <1>0
  <1>2. d.plain => ~d.inputMenu
    BY DEF NoClient
  <1> HIDE DEF d
  <1>3. /\ conn[p] = "free"
        /\ conn' = [conn EXCEPT ![p] = "pending"]
        /\ toClient' = [toClient EXCEPT ![p] = <<>>]
        /\ UNCHANGED toServer
    BY DEF Launch, Dial
  <1>4. toServer[p] = <<>>
    BY <1>3 DEF SystemInv, Session, SessionOK
  <1>5. toServer' = [toServer EXCEPT ![p] = <<>>]
    BY <1>3, <1>4, SystemTypes
  <1>6. Playing(p) = FALSE
    BY <1>3 DEF Playing, RoomOf, SystemInv, PresenceInv, OwnUser, HasUser
  <1>7. SessionOK(d, <<>>, <<>>, "pending", FALSE, usersDb)
    BY <1>2, LaunchSession
  <1>8. SessionOK(d, <<>>, <<>>, "pending", Playing(p), usersDb)
    BY <1>6, <1>7
  <1> QED
    BY <1>1, <1>3, <1>5, <1>8, ClientSession

LEMMA ReadSessions ==
    ASSUME Assumed, SystemInv, NEW p \in Peers, HandlePacket(p) \/ HandleJunk(p),
           UNCHANGED serverVars
    PROVE  \A q \in Peers : Session(q)'
  <1> DEFINE c == client[p]
  <1>1. /\ toClient[p] # <<>>
        /\ toClient' = [toClient EXCEPT ![p] = Tail(toClient[p])]
        /\ UNCHANGED <<conn, toServer>>
    BY DEF HandlePacket, HandleJunk, Read
  <1>2. c \in Clients /\ Head(toClient[p]) \in ServerPackets
    BY <1>1, SystemTypes
  <1>3. PICK d : /\ Becomes(p, d) /\ d.pass = c.pass /\ d.user = c.user /\ d.plain = c.plain
                 /\ d.inputMenu => c.inputMenu \/ Head(toClient[p]).type = MenuType
    <2>1. CASE HandlePacket(p)
      <3> DEFINE m == Head(toClient[p])
                 d == Shown(c, m)
      <3>1. Becomes(p, d)
        BY <2>1 DEF HandlePacket
      <3>2. m.type # "ROOM_INFO" => m.type = MenuType
        BY <1>2 DEF ServerPackets, RoomInfo, MenuPacket
      <3> HIDE DEF m
      <3>3. /\ d.pass = c.pass /\ d.user = c.user /\ d.plain = c.plain
            /\ d.inputMenu => c.inputMenu \/ m.type = "MENU_MAIN"
        BY <1>2 DEF Shown, Clients, ClientRecords
      <3>4. d.inputMenu => c.inputMenu \/ m.type = MenuType
        BY <3>2, <3>3
      <3> QED
        BY <3>1, <3>3, <3>4 DEF m
    <2>2. CASE HandleJunk(p)
      <3>1. Becomes(p, c)
        BY <2>2, SystemTypes DEF HandleJunk, Becomes
      <3> QED
        BY <3>1
    <2> QED
      BY <2>1, <2>2
  <1>4. SessionOK(c, toServer[p], toClient[p], conn[p], Playing(p), usersDb)
    BY DEF SystemInv, Session
  <1>5. SessionOK(d, toServer[p], Tail(toClient[p]), conn[p], Playing(p), usersDb)
    <2> HIDE DEF c
    <2> QED
      BY <1>1, <1>3, <1>4, SystemTypes, ReadSession
  <1>6. /\ toServer' = [toServer EXCEPT ![p] = toServer[p]]
        /\ conn' = [conn EXCEPT ![p] = conn[p]]
    BY <1>1, SystemTypes
  <1> QED
    BY <1>1, <1>3, <1>5, <1>6, ClientSession, ZenonT(30)

(* What is not JSON ends the process; everything else is queued, or lost   *)
(* where there is no connection any more.  One that was quoted makes the   *)
(* client no plain one.                                                    *)
LEMMA SendsSessions ==
    ASSUME SystemInv, NEW p \in Peers, NEW packets \in Seq(Sendable), NEW d \in Clients,
           Sends(p, packets, d), UNCHANGED serverVars,
           conn[p] \in {"pending", "up"} =>
               SessionOK(d, toServer[p] \o packets, toClient[p], conn[p], Playing(p), usersDb),
           conn[p] \in {"free", "zombie"} =>
               SessionOK(d, toServer[p], toClient[p], conn[p], Playing(p), usersDb)
    PROVE  \A q \in Peers : Session(q)'
  <1>1. CASE Breaks(p, packets)
    <2>1. Becomes(p, Ended(client[p], "exited")) /\ UNCHANGED enetVars
      BY <1>1 DEF Breaks
    <2> QED
      BY <2>1, EndedKeeps, EditSessions
  <1>2. CASE Queues(p, packets, d)
    <2> DEFINE asMeant == \A i \in DOMAIN packets : ~Quoted(packets[i])
               r == [d EXCEPT !.plain = d.plain /\ asMeant]
    <2>1. PICK read \in [DOMAIN packets -> ReadAs \cup ToSet(packets)] :
            /\ \A i \in DOMAIN packets : read[i] \in Readings(packets[i])
            /\ toServer' = Carried(p, read)
      BY <1>2 DEF Queues
    <2>2. asMeant => read = packets
      BY <2>1, ReadPackets
    <2>3. /\ Becomes(p, r) /\ UNCHANGED conn /\ UNCHANGED toClient
          /\ toServer' = IF conn[p] \in {"pending", "up"}
                         THEN [toServer EXCEPT ![p] = toServer[p] \o read]
                         ELSE toServer
      BY <1>2, <2>1 DEF Queues, Carried
    <2>4. /\ KeepsLogin(d, r)
          /\ ~asMeant => ~r.plain
      BY DEF KeepsLogin, Clients, ClientRecords
    <2> HIDE DEF r, asMeant
    <2>5. CASE conn[p] \in {"pending", "up"}
      <3> DEFINE in == toServer[p] \o read
      <3>1. toServer' = [toServer EXCEPT ![p] = in]
        BY <2>3, <2>5
      <3>2. CASE asMeant
        <4> DEFINE meant == toServer[p] \o packets
        <4>1. meant \in Seq(Sendable)
          BY DEF SystemInv, ClientInv, QueuesOK
        <4>2. SessionOK(d, meant, toClient[p], conn[p], Playing(p), usersDb)
          BY <2>5
        <4>3. in = meant
          BY <2>2, <3>2
        <4> HIDE DEF in, meant
        <4>4. SessionOK(r, meant, toClient[p], conn[p], Playing(p), usersDb)
          BY <2>4, <4>1, <4>2, SystemTypes, EditSession
        <4>5. SessionOK(r, in, toClient[p], conn[p], Playing(p), usersDb)
          BY <4>3, <4>4
        <4> QED
          BY <2>3, <3>1, <4>5, QueuedSessions
      <3>3. CASE ~asMeant
        <4> HIDE DEF in
        <4>1. SessionOK(r, in, toClient[p], conn[p], Playing(p), usersDb)
          BY <2>4, <2>5, <3>3 DEF SessionOK
        <4> QED
          BY <2>3, <3>1, <4>1, QueuedSessions
      <3> QED
        BY <3>2, <3>3
    <2>6. CASE conn[p] \notin {"pending", "up"}
      <3>1. conn[p] \in {"free", "zombie"}
        BY <2>6, SystemTypes DEF ConnStates
      <3>2. toServer' = [toServer EXCEPT ![p] = toServer[p]]
        BY <2>3, <2>6, SystemTypes
      <3>3. SessionOK(r, toServer[p], toClient[p], conn[p], Playing(p), usersDb)
        BY <2>4, <3>1, SystemTypes, EditSession
      <3> QED
        BY <2>3, <3>2, <3>3, QueuedSessions
    <2> QED
      BY <2>5, <2>6
  <1> QED
    BY <1>1, <1>2 DEF Sends

LEMMA TypeKeySessions ==
    ASSUME Assumed, SystemInv, NEW p \in Peers, NEW key \in Keys, TypeKey(p, key),
           UNCHANGED serverVars
    PROVE  \A q \in Peers : Session(q)'
  <1> DEFINE g == GameLoop(client[p])
             c == client[p]
  <1>1. /\ g \in Clients /\ KeepsLogin(c, g) /\ g.inputMenu = c.inputMenu /\ g.user = c.user
        /\ g.plain = c.plain
        /\ ~PromptDue(g)
    BY SystemTypes, GameLoopIsClient, GameLoopKeeps
  <1>2. SessionOK(c, toServer[p], toClient[p], conn[p], Playing(p), usersDb)
    BY DEF SystemInv, Session
  <1>3. CASE g.inputMenu
    <2> DEFINE d == Cleared([g EXCEPT !.inputMenu = FALSE])
    <2>1. Sends(p, <<MenuSel(key)>>, d)
      BY <1>3 DEF TypeKey
    <2> HIDE DEF g, c
    <2>2. d.pass = g.pass /\ d.user = g.user /\ ~d.inputMenu /\ d.plain = g.plain
      BY <1>1 DEF Cleared, Clients, ClientRecords
    <2>0. d \in Clients
      BY <1>1, MenuAnsweredIsClient
    <2> HIDE DEF d
    <2>3. /\ d.pass = c.pass /\ d.user = c.user /\ d.plain = c.plain /\ c.inputMenu
          /\ KeepsLogin(c, d)
      BY <1>1, <1>3, <2>2 DEF KeepsLogin
    <2>4. MenuSel(key) \in ClientPackets /\ <<MenuSel(key)>> \in Seq(Sendable)
      <3>1. MenuSel(key) \in Sendable
        BY DEF Sendable
      <3> QED
        BY <3>1 DEF Assumed
    <2>5. toServer[p] \o <<MenuSel(key)>> = Append(toServer[p], MenuSel(key))
      BY <2>4, SystemTypes
    <2>6. conn[p] \in {"pending", "up"} =>
              SessionOK(d, Append(toServer[p], MenuSel(key)), toClient[p], conn[p], Playing(p),
                        usersDb)
      BY <1>2, <2>2, <2>3, <2>4, SystemTypes, SelectSession
    <2>7. SessionOK(d, toServer[p], toClient[p], conn[p], Playing(p), usersDb)
      BY <1>2, <2>3, SystemTypes, EditSession
    <2> QED
      BY <2>0, <2>1, <2>4, <2>5, <2>6, <2>7, SendsSessions
  <1>4. CASE ~g.inputMenu
    <2> DEFINE d == [g EXCEPT !.input = Append(@, key)]
    <2>1. Sends(p, <<>>, d) /\ Len(g.input) < InputSize
      BY <1>4 DEF TypeKey
    <2> HIDE DEF g, c
    <2>2. KeepsLogin(c, d) /\ d \in Clients
      BY <1>1, <2>1, EditKeeps, KeepsTwice, TypedIsClient
    <2> HIDE DEF d
    <2>3. SessionOK(d, toServer[p], toClient[p], conn[p], Playing(p), usersDb)
      BY <1>2, <2>2, SystemTypes, EditSession
    <2>4. toServer[p] \o <<>> = toServer[p] /\ <<>> \in Seq(Sendable)
      BY SystemTypes
    <2> DEFINE none == <<>>
    <2>5. /\ none \in Seq(Sendable) /\ Sends(p, none, d)
          /\ SessionOK(d, toServer[p] \o none, toClient[p], conn[p], Playing(p), usersDb)
      BY <2>1, <2>3, <2>4
    <2> HIDE DEF none
    <2> QED
      BY <2>2, <2>3, <2>5, SendsSessions
  <1> QED
    BY <1>3, <1>4

LEMMA Concatenated ==
    ASSUME NEW S, NEW s \in Seq(S), NEW t \in Seq(S)
    PROVE  /\ s \o t \in Seq(S)
           /\ Len(s \o t) = Len(s) + Len(t)
           /\ Len(s) \in Nat /\ Len(t) \in Nat
           /\ \A i \in 1 .. Len(s) : (s \o t)[i] = s[i]
           /\ \A i \in 1 .. Len(t) : (s \o t)[Len(s) + i] = t[i]
  OBVIOUS

(* To send two packets is to send one and then the other.                  *)
LEMMA TwoSends ==
    ASSUME NEW S, NEW queue \in Seq(S), NEW m \in S, NEW rest \in Seq(S)
    PROVE  queue \o (<<m>> \o rest) = Append(queue, m) \o rest
  <1> DEFINE n == Len(queue)
             one == <<m>> \o rest
             more == Append(queue, m)
             a == queue \o one
             b == more \o rest
  <1>1. /\ one \in Seq(S) /\ Len(one) = 1 + Len(rest) /\ one[1] = m
        /\ n \in Nat /\ Len(rest) \in Nat
        /\ \A i \in 1 .. Len(rest) : one[1 + i] = rest[i]
    OBVIOUS
  <1>2. more \in Seq(S) /\ Len(more) = n + 1 /\ more[n + 1] = m
        /\ \A i \in 1 .. n : more[i] = queue[i]
    OBVIOUS
  <1>0. /\ one \in Seq(S) /\ more \in Seq(S)
    OBVIOUS
  <1> HIDE DEF one, more
  <1>3. /\ a \in Seq(S) /\ Len(a) = n + Len(one)
        /\ \A i \in 1 .. n : a[i] = queue[i]
        /\ \A i \in 1 .. Len(one) : a[n + i] = one[i]
    BY <1>0, Concatenated
  <1>4. /\ b \in Seq(S) /\ Len(b) = Len(more) + Len(rest)
        /\ \A i \in 1 .. Len(more) : b[i] = more[i]
        /\ \A i \in 1 .. Len(rest) : b[Len(more) + i] = rest[i]
    BY <1>0, Concatenated
  <1> HIDE DEF a, b, n
  <1>5. Len(a) = n + 1 + Len(rest) /\ Len(b) = n + 1 + Len(rest)
    BY <1>1, <1>2, <1>3, <1>4
  <1>6. ASSUME NEW i \in 1 .. (n + 1 + Len(rest)) PROVE a[i] = b[i]
    <2>1. CASE i <= n
      BY <1>1, <1>2, <1>3, <1>4, <2>1
    <2>2. CASE i = n + 1
      BY <1>1, <1>2, <1>3, <1>4, <2>2
    <2>3. CASE i > n + 1
      <3> DEFINE k == i - (n + 1)
      <3>1. k \in 1 .. Len(rest) /\ i = n + (1 + k) /\ i = (n + 1) + k /\ 1 + k \in 1 .. Len(one)
        BY <1>1, <2>3
      <3> HIDE DEF k
      <3>2. a[i] = rest[k]
        BY <1>1, <1>3, <3>1
      <3>3. b[i] = rest[k]
        BY <1>2, <1>4, <3>1
      <3> QED
        BY <3>2, <3>3
    <2> QED
      BY <1>1, <2>1, <2>2, <2>3
  <1>7. a = b
    <2>1. a \in Seq(S) /\ b \in Seq(S) /\ Len(a) = Len(b)
      BY <1>3, <1>4, <1>5
    <2>2. \A i \in 1 .. Len(a) : a[i] = b[i]
      BY <1>5, <1>6
    <2> QED
      BY <2>1, <2>2
  <1> QED
    BY <1>7 DEF a, b, one, more

LEMMA EnterSessions ==
    ASSUME Assumed, SystemInv, NEW p \in Peers, Enter(p), UNCHANGED serverVars
    PROVE  \A q \in Peers : Session(q)'
  <1> DEFINE c == client[p]
             g == GameLoop(c)
             u == TakenAsUser(g)
  <1>1. /\ g \in Clients /\ KeepsLogin(c, g) /\ g.pass = c.pass /\ g.inputMenu = c.inputMenu
        /\ g.inputPass => g.pass = <<>>
        /\ g.plain = c.plain
    BY SystemTypes, GameLoopIsClient, GameLoopKeeps DEF Clients, PromptOrder
  <1>2. SessionOK(c, toServer[p], toClient[p], conn[p], Playing(p), usersDb)
    BY DEF SystemInv, Session
  <1>3. PICK read \in DigestRead :
          Sends(p, LoginSent(u, read) \o CommandSent(u), Cleared(CommandDone(TakenAsPass(u, read))))
    BY DEF Enter
  <1> DEFINE d == EnteredAs(g, read)
             cs == CommandSent(u)
  <1>4. Sends(p, LoginSent(u, read) \o cs, d)
    BY <1>3 DEF EnteredAs
  <1> HIDE DEF c, g
  <1>5. u \in ClientRecords /\ u.inputPass = g.inputPass /\ u.input \in Texts /\ u.user \in Texts
    BY <1>1, TakenAsUserIsClient DEF ClientRecords
  <1>6. /\ d \in Clients
        /\ d.inputMenu = g.inputMenu /\ d.plain = g.plain
        /\ ~g.inputPass => KeepsLogin(g, d)
        /\ g.inputPass => d.user = u.user /\ d.pass = Digest(read, u.input) /\ d.pass # <<>>
    BY <1>1, EnteredFields, EnteredIsClient
  <1> HIDE DEF d, u
  <1>7. /\ cs \in Seq(Sendable) /\ cs \in Seq(ClientPackets) /\ Len(cs) <= 1
        /\ \A i \in DOMAIN cs : cs[i].type = "PCOMMAND"
    <2>1. cs \in Seq(Sendable)
      BY <1>5, CommandSentType
    <2>2. cs \in Seq(ClientPackets)
      BY <2>1 DEF Assumed
    <2> QED
      BY <1>5, <2>1, <2>2, CommandSentType
  <1> HIDE DEF cs
  <1>8. CASE ~g.inputPass
    <2>1. LoginSent(u, read) \o cs = cs
      <3>1. LoginSent(u, read) = <<>>
        BY <1>5, <1>8, LoginSentType
      <3> QED
        BY <1>7, <3>1
    <2>2. KeepsLogin(c, d)
      BY <1>1, <1>6, <1>8, KeepsTwice
    <2>3. SessionOK(d, toServer[p], toClient[p], conn[p], Playing(p), usersDb)
      BY <1>2, <2>2, SystemTypes, EditSession
    <2>4. conn[p] \in {"pending", "up"} =>
              SessionOK(d, toServer[p] \o cs, toClient[p], conn[p], Playing(p), usersDb)
      BY <1>7, <2>3, SystemTypes, CommandsSession
    <2> QED
      BY <1>4, <1>6, <1>7, <2>1, <2>3, <2>4, SendsSessions
  <1>9. CASE g.inputPass
    <2> DEFINE m == LoginReq(d.user, d.pass)
    <2>1. LoginSent(u, read) = <<m>>
      BY <1>5, <1>6, <1>9, LoginSentType
    <2>2. m \in Sendable /\ m \in ClientPackets
      <3>1. m \in Sendable
        BY <1>5, <1>6, <1>9 DEF Sendable
      <3> QED
        BY <3>1 DEF Assumed
    <2>3. /\ c.pass = <<>> /\ d.pass # <<>> /\ (d.inputMenu => c.inputMenu)
          /\ d.plain => c.plain
      BY <1>1, <1>6, <1>9
    <2>4. conn[p] \in {"pending", "up"} =>
              SessionOK(d, Append(toServer[p], m), toClient[p], conn[p], Playing(p), usersDb)
      BY <1>2, <2>2, <2>3, SystemTypes, LoginSession
    <2>5. conn[p] \in {"free", "zombie"} =>
              SessionOK(d, toServer[p], toClient[p], conn[p], Playing(p), usersDb)
      BY <1>2, <2>3, SystemTypes, UnsentSession
    <2> HIDE DEF m
    <2>6. Append(toServer[p], m) \in Seq(ClientPackets)
      BY <2>2, SystemTypes
    <2>7. conn[p] \in {"pending", "up"} =>
              SessionOK(d, Append(toServer[p], m) \o cs, toClient[p], conn[p], Playing(p), usersDb)
      BY <1>7, <2>4, <2>6, SystemTypes, CommandsSession
    <2>8. toServer[p] \o (<<m>> \o cs) = Append(toServer[p], m) \o cs
      BY <1>7, <2>2, SystemTypes, TwoSends
    <2>9. <<m>> \o cs \in Seq(Sendable)
      BY <1>7, <2>2
    <2> QED
      BY <1>4, <1>6, <2>1, <2>5, <2>7, <2>8, <2>9, SendsSessions
  <1> QED
    BY <1>8, <1>9

LEMMA ClientSessions ==
    ASSUME Assumed, SystemInv, NEW p \in Peers, ClientStep(p), UNCHANGED serverVars
    PROVE  \A q \in Peers : Session(q)'
  <1> DEFINE g == GameLoop(client[p])
  <1>1. client[p] \in Clients /\ g \in Clients /\ KeepsLogin(client[p], g)
    BY SystemTypes, GameLoopIsClient, GameLoopKeeps
  <1>2. CASE LinkLost(p)
    BY <1>2, EndedKeeps, EditSessions DEF LinkLost
  <1>3. CASE Overrun(p)
    <2>1. KeepsLogin(client[p], Ended(g, "crashed"))
      BY <1>1, EndedKeeps, KeepsTwice
    <2> QED
      BY <1>3, <2>1, EditSessions DEF Overrun
  <1>4. CASE EnterFault(p)
    <2>1. KeepsLogin(client[p], Ended(TakenAsUser(g), "crashed"))
      BY <1>1, UserTakenKeeps, EndedKeeps, KeepsTwice
    <2> QED
      BY <1>4, <2>1, EditSessions DEF EnterFault
  <1>5. CASE Tab(p) \/ Delete(p) \/ NoKey(p)
    <2>1. UNCHANGED enetVars
      BY <1>5 DEF Tab, Delete, NoKey
    <2>2. KeepsLogin(client[p], Completed(g)) /\ KeepsLogin(client[p], Shortened(g))
      BY <1>1, EditKeeps, KeepsTwice
    <2> QED
      BY <1>1, <1>5, <2>1, <2>2, EditSessions DEF Tab, Delete, NoKey
  <1> QED
    BY <1>2, <1>3, <1>4, <1>5, LaunchSessions, ReadSessions, TypeKeySessions, EnterSessions
       DEF ClientStep, ProcessInput

LEMMA ClientKeeps ==
    ASSUME Assumed, SystemInv, NEW p \in Peers, ClientStep(p), UNCHANGED serverVars
    PROVE  PresenceInv' /\ ClientInv'
  <1>1. ClientInv'
    BY ClientStepGood, GoodStepSuffices DEF SystemInv
  <1>2. UNCHANGED <<server, activeUserMap, localUsers, data, lastPeer, usersDb>>
    BY DEF serverVars
  <1>3. /\ conn' \in [Peers -> ConnStates]
        /\ \A q \in Peers : conn'[q] \in {"up", "zombie"} <=> conn[q] \in {"up", "zombie"}
    <2>1. CASE Launch(p)
      BY <2>1, SystemTypes DEF Launch, Dial, ConnStates
    <2>2. CASE UNCHANGED conn
      BY <2>2, SystemTypes
    <2> QED
      BY <2>1, <2>2 DEF ClientStep, ProcessInput, HandlePacket, HandleJunk, LinkLost, TypeKey,
                        Overrun, Enter, EnterFault, Tab, Delete, NoKey, Sends, Queues, Breaks, enetVars
  <1>4. HasUser'
    BY <1>2, <1>3 DEF HasUser, Present, SystemInv, PresenceInv, OwnUser
  <1>5. /\ toServer' \in [Peers -> Seq(ClientPackets)]
        /\ toClient' \in [Peers -> Seq(ServerPackets)]
    BY <1>1 DEF ClientInv, QueuesOK, Assumed
  <1>6. TypeInv'
    BY <1>2, <1>3, <1>4, <1>5 DEF TypeInv, ServerTypeOK, SystemInv, PresenceInv
  <1>7. OwnUser' /\ Roster'
    BY <1>2, <1>4, PresenceFrame DEF SystemInv
  <1> QED
    BY <1>1, <1>6, <1>7 DEF PresenceInv

-----------------------------------------------------------------------------
LEMMA SystemInvInit == SystemInit => SystemInv
  <1> SUFFICES ASSUME SystemInit PROVE SystemInv
    OBVIOUS
  <1>1. PresenceInv /\ ClientInv
    BY PresenceInit, ClientInvInit DEF SystemInit, OpenServerInit, OpenClientInit
  <1>2. ASSUME NEW p \in Peers PROVE Session(p)
    <2>1. /\ client[p] = NoClient /\ toServer[p] = <<>> /\ toClient[p] = <<>>
          /\ Playing(p) = FALSE
      BY DEF SystemInit, ServerInit, ClientInit, ENetInit, Playing, RoomOf, Present
    <2>2. ~NoClient.inputMenu
      BY DEF NoClient
    <2>3. Due(NoClient, <<>>, <<>>) = 0 /\ Count(<<>>, "MENUSEL") = 0 /\ Count(<<>>, MenuType) = 0
      BY <2>2, CountEmpty DEF Due
    <2> QED
      BY <2>1, <2>2, <2>3 DEF Session, SessionOK, PlainOK, Has
  <1> QED
    BY <1>1, <1>2 DEF SystemInv

LEMMA SystemInvStep == Assumed /\ SystemInv /\ [SystemNext]_systemVars => SystemInv'
  <1> SUFFICES ASSUME Assumed, SystemInv, [SystemNext]_systemVars
               PROVE  SystemInv'
    OBVIOUS
  <1>1. CASE UNCHANGED systemVars
    <2>1. PresenceInv'
      <3>1. [OpenServerNext]_openServerVars
        BY <1>1 DEF systemVars, openServerVars
      <3> QED
        BY <3>1, PresenceStep DEF Assumed, SystemInv
    <2>2. ClientInv'
      BY <1>1 DEF systemVars, enetVars, SystemInv, ClientInv, QueuesOK
    <2>3. RoomOf("test1")' = RoomOf("test1")
      BY <1>1, SameRooms DEF systemVars, serverVars, Screens
    <2>4. \A q \in Peers : Session(q)'
      <3>1. \A q \in Peers : Session(q)
        BY DEF SystemInv
      <3> QED
        BY <1>1, <2>3, <3>1 DEF Session, Playing, systemVars, enetVars, serverVars
    <2> QED
      BY <2>1, <2>2, <2>4 DEF SystemInv
  <1>2. CASE SystemNext
    <2>1. PICK p \in Peers : ServerMoves(p) \/ ClientMoves(p) \/ LinkMoves(p)
      BY <1>2 DEF SystemNext
    <2>2. CASE ServerMoves(p) \/ LinkMoves(p)
      BY <2>2, ServerKeeps, ServerSessions DEF SystemInv
    <2>3. CASE ClientMoves(p)
      BY <2>3, ClientKeeps, ClientSessions DEF ClientMoves, SystemInv
    <2> QED
      BY <2>1, <2>2, <2>3
  <1> QED
    BY <1>1, <1>2

(***************************************************************************)
(* A plain client that plays has logged in, although the server remembers  *)
(* no login: it sends a selection only for a menu, and the menu comes only *)
(* for a password that the stored text is found in, or after a name that   *)
(* ends the quotes of its query.  Whatever the other clients send, and     *)
(* whatever the unset fields hold, of this the server cannot be talked out.*)
(***************************************************************************)
THEOREM LoginBeforePlayCorrect ==
    ASSUME Assumed
    PROVE  SystemSpec => []LoginBeforePlay
  <1>1. SystemInv => LoginBeforePlay
    <2> SUFFICES ASSUME SystemInv, NEW p \in Peers, OnScreen(p, "test1"), client[p].plain
                 PROVE  Registered(client[p], usersDb)
      BY DEF LoginBeforePlay, Registered, AnyResult
    <2>1. Playing(p)
      BY PlayingIsOnScreen DEF SystemInv
    <2> QED
      BY <2>1 DEF SystemInv, Session, SessionOK, PlainOK
  <1>2. SystemInv /\ [SystemNext]_systemVars => SystemInv'
    BY SystemInvStep
  <1> QED
    BY <1>1, <1>2, SystemInvInit, PTL DEF SystemSpec

(***************************************************************************)
(* A plain client has one selection at a time, and none where it would     *)
(* find a screen without a menu.                                           *)
(***************************************************************************)
THEOREM OneSelectionCorrect ==
    ASSUME Assumed
    PROVE  SystemSpec => []OneSelection
  <1>1. SystemInv => OneSelection
    <2> SUFFICES ASSUME SystemInv, NEW p \in Peers, client[p].plain
                 PROVE  SelectionsDue(p) <= IF OnScreen(p, "test1") THEN 0 ELSE 1
      BY DEF OneSelection
    <2>1. OnScreen(p, "test1") <=> Playing(p)
      BY PlayingIsOnScreen DEF SystemInv
    <2>2. SelectionsDue(p) = Due(client[p], toServer[p], toClient[p])
      BY DEF SelectionsDue, Due
    <2> QED
      BY <2>1, <2>2 DEF SystemInv, Session, SessionOK, PlainOK
  <1>2. SystemInv /\ [SystemNext]_systemVars => SystemInv'
    BY SystemInvStep
  <1> QED
    BY <1>1, <1>2, SystemInvInit, PTL DEF SystemSpec

(* A plain client selects where there is a menu.                           *)
LEMMA SelectsInMenu ==
    ASSUME SystemInv, NEW p \in Peers, client[p].plain, conn[p] = "up",
           toServer[p] # <<>>, Head(toServer[p]).type = "MENUSEL"
    PROVE  OnScreen(p, "mainmenu")
  <1>1. Present(p) /\ activeUserMap[data[p]] \in User
    BY ServerAssumption, ENetAssumption
       DEF SystemInv, PresenceInv, TypeInv, ServerTypeOK, OwnUser, HasUser, Present
  <1>2. OnScreen(p, "mainmenu") \/ OnScreen(p, "test1")
    BY <1>1 DEF OnScreen, User, Screens
  <1>3. ASSUME OnScreen(p, "test1") PROVE FALSE
    <2>1. Playing(p)
      BY <1>3, PlayingIsOnScreen DEF SystemInv
    <2>2. Due(client[p], toServer[p], toClient[p]) <= 0
      BY <2>1 DEF SystemInv, Session, SessionOK, PlainOK
    <2>3. /\ toServer[p] \in Seq(ClientPackets)
          /\ Tail(toServer[p]) \in Seq(ClientPackets) /\ toClient[p] \in Seq(ServerPackets)
      BY SystemTypes
    <2>4. Count(toServer[p], "MENUSEL") = Count(Tail(toServer[p]), "MENUSEL") + 1
      BY <2>3, CountTail
    <2> DEFINE prompt == IF client[p].inputMenu THEN 1 ELSE 0
               l == Count(toServer[p], "LOGIN_REQ")
               s == Count(Tail(toServer[p]), "MENUSEL")
               m == Count(toClient[p], MenuType)
    <2>5. l \in Nat /\ s \in Nat /\ m \in Nat /\ prompt \in Nat
      BY <2>3, CountType, CountsType DEF Counted
    <2>6. Due(client[p], toServer[p], toClient[p]) = l + m + prompt + (s + 1)
      BY <2>4 DEF Due
    <2> HIDE DEF prompt, l, s, m
    <2> QED
      BY <2>2, <2>5, <2>6
  <1> QED
    BY <1>2, <1>3

(***************************************************************************)
(* The server survives the packets of plain clients, whatever the other    *)
(* clients send and the unset fields hold, but for a key that is no option *)
(* of the menu and a login whose query ends in pw_callback: a selection on *)
(* a screen without a menu is never one of theirs, and neither is a packet *)
(* with no text where ParseData takes it for one.                          *)
(***************************************************************************)
THEOREM PlainPacketsSurvivedCorrect ==
    ASSUME Assumed
    PROVE  SystemSpec => PlainPacketsSurvived
  <1> DEFINE Survived ==
          \A p \in Peers :
              /\ server = "running" /\ server' = "crashed"
              /\ toServer'[p] # toServer[p]
              /\ client[p].plain
              => BadSelection(p, Head(toServer[p])) \/ BadLogin(Head(toServer[p]))
  <1>1. SystemInv /\ [SystemNext]_systemVars => [Survived]_systemVars
    <2> SUFFICES ASSUME SystemInv, SystemNext, NEW p \in Peers,
                        server = "running", server' = "crashed",
                        toServer'[p] # toServer[p], client[p].plain
                 PROVE  BadSelection(p, Head(toServer[p])) \/ BadLogin(Head(toServer[p]))
      BY DEF systemVars, serverVars
    <2>1. PICK q \in Peers : ServerMoves(q) \/ ClientMoves(q) \/ LinkMoves(q)
      BY DEF SystemNext
    <2>2. ReceiveFault(q) \/ LoginFault(q) \/ MenuSelCrash(q)
      BY <2>1 DEF ServerMoves, ClientMoves, LinkMoves, serverVars, ProcessEvent, ProcessPacket,
                  Connect, ConnectFault, ReceiveJunk, LoginOK, LoginRefused, NewGame, QuitGame,
                  IgnoreCommand, Disconnect, Selects, Receives, enetVars
    <2>3. conn[q] = "up" /\ toServer[q] # <<>> /\ toServer' = Dispatched(q)
      BY <2>2 DEF ReceiveFault, LoginFault, MenuSelCrash, Receives
    <2>4. q = p
      BY <2>3, SystemTypes DEF Dispatched
    <2>5. CASE ReceiveFault(q)
      <3>1. toServer[p] \in Seq(ClientPackets) /\ 1 \in DOMAIN toServer[p]
        BY <2>3, <2>4, SystemTypes
      <3>2. Has(toServer[p], "FAULT")
        BY <2>4, <2>5, <3>1 DEF ReceiveFault, Receives, Has
      <3>3. ~Has(toServer[p], "FAULT")
        BY DEF SystemInv, Session, SessionOK, PlainOK
      <3> QED
        BY <3>2, <3>3
    <2>6. CASE LoginFault(q)
      BY <2>4, <2>6 DEF LoginFault, Receives, BadLogin
    <2>7. CASE MenuSelCrash(q)
      <3>1. Head(toServer[p]).type = "MENUSEL"
        BY <2>4, <2>7 DEF MenuSelCrash, Receives
      <3>2. OnScreen(p, "mainmenu")
        BY <2>3, <2>4, <3>1, SelectsInMenu
      <3> QED
        BY <2>4, <2>7, <3>1, <3>2 DEF MenuSelCrash, BadSelection, OnScreen
    <2> QED
      BY <2>2, <2>5, <2>6, <2>7
  <1>2. SystemInv /\ [SystemNext]_systemVars => SystemInv'
    BY SystemInvStep
  <1> QED
    BY <1>1, <1>2, SystemInvInit, PTL DEF SystemSpec, PlainPacketsSurvived

-----------------------------------------------------------------------------
(* The server takes packets out of the queues of its clients, never puts   *)
(* any in.                                                                 *)
LEMMA ServerQueuesNothing ==
    ASSUME SystemInv, NEW p \in Peers, ServerMoves(p) \/ LinkMoves(p)
    PROVE  \A q \in Peers : NewPackets(q) = {}
  <1>1. toServer \in [Peers -> Seq(ClientPackets)]
    BY SystemTypes
  <1>2. \A q \in Peers : Len(toServer'[q]) <= Len(toServer[q]) /\ Len(toServer[q]) \in Nat
                         /\ Len(toServer'[q]) \in Nat
    <2>1. CASE UNCHANGED toServer
      BY <1>1, <2>1
    <2>2. CASE toServer[p] # <<>> /\ toServer' = Dispatched(p)
      BY <1>1, <2>2 DEF Dispatched
    <2>3. CASE Drop(p)
      BY <1>1, <2>3 DEF Drop
    <2> QED
      BY <2>1, <2>2, <2>3
         DEF LinkMoves, ServerMoves, ProcessEvent, ProcessPacket, Connect, ConnectFault,
             ReceiveJunk, ReceiveFault, LoginOK, LoginRefused, LoginFault, NewGame, QuitGame, MenuSelCrash,
             IgnoreCommand, Selects, Receives, Disconnect, enetVars
  <1> QED
    BY <1>2 DEF NewPackets

(***************************************************************************)
(* What is proved of a client among servers that may send anything holds   *)
(* of every client of this server: its types and prompts in every state,   *)
(* and in every step one login per process and no verb that outlives its   *)
(* line.                                                                   *)
(***************************************************************************)
THEOREM ClientInSystem ==
    ASSUME Assumed
    PROVE  SystemSpec => [](ClientTypeOK /\ PromptClean) /\ LoginOnce /\ ContextEnds
  <1>1. SystemInv => ClientTypeOK /\ PromptClean
    BY ClientInvSays DEF SystemInv
  <1>2. SystemInv /\ [SystemNext]_systemVars => [LoggedInOnce /\ VerbEndsWithLine]_openClientVars
    <2> SUFFICES ASSUME SystemInv, [SystemNext]_systemVars
                 PROVE  [LoggedInOnce /\ VerbEndsWithLine]_openClientVars
      OBVIOUS
    <2>1. CASE UNCHANGED systemVars
      BY <2>1 DEF systemVars, openClientVars
    <2>2. CASE SystemNext
      <3>1. PICK p \in Peers : ServerMoves(p) \/ ClientMoves(p) \/ LinkMoves(p)
        BY <2>2 DEF SystemNext
      <3>2. CASE ServerMoves(p) \/ LinkMoves(p)
        <4>1. UNCHANGED client /\ \A q \in Peers : NewPackets(q) = {}
          BY <3>2, ServerQueuesNothing DEF ServerMoves, LinkMoves
        <4>2. \A q \in Peers : client[q].pass # <<>> => ~client[q].inputPass
          BY DEF SystemInv, ClientInv, Clients, PromptOrder
        <4> QED
          BY <4>1, <4>2 DEF LoggedInOnce, VerbEndsWithLine
      <3>3. CASE ClientMoves(p)
        BY <3>3, ClientStepGood, GoodStepSuffices DEF ClientMoves, SystemInv
      <3> QED
        BY <3>1, <3>2, <3>3
    <2> QED
      BY <2>1, <2>2
  <1>3. SystemInv /\ [SystemNext]_systemVars => SystemInv'
    BY SystemInvStep
  <1>4. SystemInv /\ [SystemNext]_systemVars => [LoggedInOnce]_openClientVars
    BY <1>2
  <1>5. SystemInv /\ [SystemNext]_systemVars => [VerbEndsWithLine]_openClientVars
    BY <1>2
  <1> QED
    BY <1>1, <1>3, <1>4, <1>5, SystemInvInit, PTL DEF SystemSpec, LoginOnce, ContextEnds

-----------------------------------------------------------------------------
(* Server and client agree on where the client is, with a link and         *)
(* programs that may fail at any moment.                                   *)

(***************************************************************************)
(* One connection.  Agreement is not inductive: that the room info a       *)
(* client reads tells the truth takes that all the room info on its way    *)
(* does; and that no password is being asked for when it comes takes that  *)
(* room info of the start screen is on its way only to a client that has   *)
(* given one.  Room info of the main menu comes through the unset mypeer   *)
(* and says nothing of the client it comes to.                             *)
(***************************************************************************)
Agreed(c, screen, state, playing) ==
    \/ screen = "mainmenu" /\ "stale" \in UninitPeer
    \/ /\ screen = "test1"
       /\ state \in {"pending", "up"} => playing
       /\ c.plain => c.pass # <<>>

RoomOK(c, out, state, playing) ==
    /\ c.state = "NORMAL" => c.shown # NULL
    /\ c.shown # NULL => Agreed(c, c.shown, state, playing)
    /\ \A i \in DOMAIN out :
          out[i].type = "ROOM_INFO" => Agreed(c, out[i].screen, state, playing)

Room(p) == RoomOK(client[p], toClient[p], conn[p], Playing(p))

AgreementInv == SystemInv /\ \A p \in Peers : Room(p)

(* The client edits a line, is asked or ends.                              *)
KeepsRoom(c, d) ==
    /\ d.shown \in {c.shown, NULL}
    /\ d.state = "NORMAL" => c.state = "NORMAL" /\ d.shown = c.shown
    /\ d.plain => c.plain
    /\ c.pass # <<>> => d.pass # <<>>

LEMMA EditRoom ==
    ASSUME NEW c, NEW d, NEW out, NEW state, NEW playing, KeepsRoom(c, d),
           RoomOK(c, out, state, playing)
    PROVE  RoomOK(d, out, state, playing)
  <1>1. \A screen : Agreed(c, screen, state, playing) => Agreed(d, screen, state, playing)
    BY DEF Agreed, KeepsRoom
  <1> QED
    BY <1>1 DEF RoomOK, KeepsRoom

LEMMA KeepsRoomTwice ==
    ASSUME NEW c, NEW d, NEW e, KeepsRoom(c, d), KeepsRoom(d, e)
    PROVE  KeepsRoom(c, e)
  BY DEF KeepsRoom

(* A packet is read and lost, or shown.                                    *)
LEMMA TailRoom ==
    ASSUME NEW c, NEW out \in Seq(ServerPackets), NEW state, NEW playing, out # <<>>,
           RoomOK(c, out, state, playing)
    PROVE  RoomOK(c, Tail(out), state, playing)
  <1>1. \A i \in DOMAIN Tail(out) : i + 1 \in DOMAIN out /\ Tail(out)[i] = out[i + 1]
    OBVIOUS
  <1> QED
    BY <1>1 DEF RoomOK

LEMMA ShownRoom ==
    ASSUME NEW c \in ClientRecords, NEW out \in Seq(ServerPackets), NEW state, NEW playing,
           out # <<>>, RoomOK(c, out, state, playing)
    PROVE  RoomOK(Shown(c, Head(out)), Tail(out), state, playing)
  <1> DEFINE m == Head(out)
             d == Shown(c, m)
  <1>1. m = out[1] /\ 1 \in DOMAIN out
    OBVIOUS
  <1>2. RoomOK(c, Tail(out), state, playing)
    BY TailRoom
  <1> HIDE DEF m
  <1>3. d.pass = c.pass /\ d.plain = c.plain
    BY DEF Shown, ClientRecords
  <1>4. CASE m.type = "ROOM_INFO"
    <2>1. Agreed(c, m.screen, state, playing)
      BY <1>1, <1>4 DEF RoomOK
    <2>2. d.shown = m.screen
      BY <1>4 DEF Shown, ClientRecords
    <2>3. m.screen # NULL
      BY <2>1, ServerAssumption DEF Agreed, Screens
    <2> HIDE DEF d
    <2>4. \A screen : Agreed(c, screen, state, playing) => Agreed(d, screen, state, playing)
      BY <1>3 DEF Agreed
    <2>5. RoomOK(d, Tail(out), state, playing)
      BY <1>2, <2>1, <2>2, <2>3, <2>4 DEF RoomOK
    <2> QED
      BY <2>5 DEF d, m
  <1>5. CASE m.type # "ROOM_INFO"
    <2>1. d.state = c.state /\ d.shown = c.shown
      BY <1>5 DEF Shown, ClientRecords
    <2>2. KeepsRoom(c, d)
      BY <1>3, <2>1 DEF KeepsRoom
    <2> HIDE DEF d
    <2>3. RoomOK(d, Tail(out), state, playing)
      BY <1>2, <2>2, EditRoom
    <2> QED
      BY <2>3 DEF d, m
  <1> QED
    BY <1>4, <1>5

(* The client is told of a screen.                                         *)
LEMMA ToldRoom ==
    ASSUME NEW c, NEW out \in Seq(ServerPackets), NEW state, NEW playing, NEW screen,
           Agreed(c, screen, state, playing), RoomOK(c, out, state, playing)
    PROVE  RoomOK(c, Append(out, RoomInfo(screen)), state, playing)
  <1> DEFINE m == RoomInfo(screen)
  <1>1. m.screen = screen
    BY DEF RoomInfo
  <1> HIDE DEF m
  <1>2. \A i \in DOMAIN Append(out, m) :
            Append(out, m)[i] = m \/ (i \in DOMAIN out /\ Append(out, m)[i] = out[i])
    OBVIOUS
  <1>3. RoomOK(c, Append(out, m), state, playing)
    BY <1>1, <1>2 DEF RoomOK
  <1> QED
    BY <1>3 DEF m

LEMMA MenuRoom ==
    ASSUME NEW c, NEW out \in Seq(ServerPackets), NEW state, NEW playing,
           MenuType # "ROOM_INFO", RoomOK(c, out, state, playing)
    PROVE  RoomOK(c, Append(out, MenuPacket), state, playing)
  <1> DEFINE m == MenuPacket
  <1>1. m.type # "ROOM_INFO"
    BY DEF MenuPacket
  <1> HIDE DEF m
  <1>2. \A i \in DOMAIN Append(out, m) :
            Append(out, m)[i] = m \/ (i \in DOMAIN out /\ Append(out, m)[i] = out[i])
    OBVIOUS
  <1>3. RoomOK(c, Append(out, m), state, playing)
    BY <1>1, <1>2 DEF RoomOK
  <1> QED
    BY <1>3 DEF m

(* The server gives the client up: what is left of the queue is its front. *)
LEMMA DropRoom ==
    ASSUME NEW c, NEW out \in Seq(ServerPackets), NEW n \in 0 .. Len(out), NEW state,
           NEW after \in {"free", "zombie"}, NEW playing, RoomOK(c, out, state, playing)
    PROVE  RoomOK(c, SubSeq(out, 1, n), after, playing)
  <1>1. \A i \in DOMAIN SubSeq(out, 1, n) : i \in DOMAIN out /\ SubSeq(out, 1, n)[i] = out[i]
    OBVIOUS
  <1>2. \A screen : Agreed(c, screen, state, playing) => Agreed(c, screen, after, playing)
    BY DEF Agreed
  <1> QED
    BY <1>1, <1>2 DEF RoomOK

-----------------------------------------------------------------------------
(* The server's steps. *)

(* Only the connection in p changes, and of it the queue and the User.     *)
LEMMA OneRoom ==
    ASSUME AgreementInv, NEW p \in Peers,
           \A q \in Peers : q # p =>
               /\ client'[q] = client[q] /\ toClient'[q] = toClient[q] /\ conn'[q] = conn[q]
               /\ q \in RoomOf("test1")' <=> q \in RoomOf("test1"),
           RoomOK(client'[p], toClient'[p], conn'[p], p \in RoomOf("test1")')
    PROVE  \A q \in Peers : Room(q)'
  <1> SUFFICES ASSUME NEW q \in Peers PROVE Room(q)'
    OBVIOUS
  <1>1. CASE q = p
    BY <1>1 DEF Room, Playing
  <1>2. CASE q # p
    <2>1. Room(q)
      BY DEF AgreementInv
    <2>2. (q \in RoomOf("test1")') = (q \in RoomOf("test1"))
      BY <1>2
    <2> QED
      BY <1>2, <2>1, <2>2 DEF Room, Playing
  <1> QED
    BY <1>1, <1>2

(* The room info of the new User goes to nobody or to the peer of the      *)
(* latest CONNECT.                                                         *)
LEMMA ConnectRoom ==
    ASSUME Assumed, AgreementInv, PresenceInv', NEW p \in Peers, Connect(p), UNCHANGED client
    PROVE  \A q \in Peers : Room(q)'
  <1>1. /\ conn[p] = "pending" /\ conn' = [conn EXCEPT ![p] = "up"]
        /\ \/ UNCHANGED toClient
           \/ /\ "stale" \in UninitPeer /\ lastPeer # NULL
              /\ toClient' = enet_peer_send(conn', lastPeer, RoomInfo("mainmenu"))
    BY DEF Connect, RoomInfoOfConnect
  <1>2. RoomOf("test1")' = RoomOf("test1")
    BY ConnectArrives DEF Assumed, AgreementInv, SystemInv
  <1> SUFFICES ASSUME NEW q \in Peers PROVE Room(q)'
    OBVIOUS
  <1>3. RoomOK(client[q], toClient[q], conn[q], Playing(q)) /\ toClient[q] \in Seq(ServerPackets)
    BY SystemTypes DEF AgreementInv, Room
  <1>4. RoomOK(client[q], toClient[q], conn'[q], Playing(q))
    <2>1. conn'[q] = conn[q] \/ (conn[q] = "pending" /\ conn'[q] = "up")
      BY <1>1, SystemTypes DEF AgreementInv
    <2>2. \A screen : Agreed(client[q], screen, conn[q], Playing(q)) =>
                          Agreed(client[q], screen, conn'[q], Playing(q))
      BY <2>1 DEF Agreed
    <2> QED
      BY <1>3, <2>2 DEF RoomOK
  <1>5. \/ toClient'[q] = toClient[q]
        \/ /\ "stale" \in UninitPeer
           /\ toClient'[q] = Append(toClient[q], RoomInfo("mainmenu"))
    BY <1>1, SystemTypes DEF enet_peer_send, AgreementInv
  <1>6. RoomOK(client[q], toClient'[q], conn'[q], Playing(q))
    <2>1. CASE toClient'[q] = toClient[q]
      BY <1>4, <2>1
    <2>2. CASE /\ "stale" \in UninitPeer
               /\ toClient'[q] = Append(toClient[q], RoomInfo("mainmenu"))
      <3>1. Agreed(client[q], "mainmenu", conn'[q], Playing(q))
        BY <2>2 DEF Agreed
      <3> QED
        BY <1>3, <1>4, <2>2, <3>1, ToldRoom
    <2> QED
      BY <1>5, <2>1, <2>2
  <1> QED
    BY <1>2, <1>6 DEF Room, Playing

LEMMA ReceiveRoom ==
    ASSUME Assumed, AgreementInv, NEW p \in Peers, UNCHANGED client,
           \/ LoginOK(p) \/ LoginRefused(p) \/ LoginFault(p) \/ QuitGame(p)
           \/ MenuSelCrash(p) \/ IgnoreCommand(p) \/ ReceiveJunk(p) \/ ReceiveFault(p)
    PROVE  \A q \in Peers : Room(q)'
  <1>1. conn[p] = "up" /\ UNCHANGED <<conn, localUsers, data>>
    BY DEF LoginOK, LoginRefused, LoginFault, QuitGame, MenuSelCrash, IgnoreCommand,
           ReceiveJunk, ReceiveFault, Selects, Receives
  <1>2. RoomOf("test1")' = RoomOf("test1")
    BY <1>1, SameRooms DEF Screens
  <1>3. RoomOK(client[p], toClient[p], conn[p], Playing(p))
    BY DEF AgreementInv, Room
  <1>4. CASE LoginOK(p)
    <2>1. toClient' = [toClient EXCEPT ![p] = Append(@, MenuPacket)]
      BY <1>1, <1>4 DEF LoginOK, enet_peer_send
    <2>2. /\ toClient'[p] = Append(toClient[p], MenuPacket)
          /\ \A q \in Peers : q # p => toClient'[q] = toClient[q]
      BY <2>1, SystemTypes DEF AgreementInv
    <2>3. toClient[p] \in Seq(ServerPackets) /\ MenuType # "ROOM_INFO"
      BY SystemTypes DEF AgreementInv, Assumed
    <2>4. RoomOK(client[p], Append(toClient[p], MenuPacket), conn[p], Playing(p))
      BY <1>3, <2>3, MenuRoom
    <2>5. RoomOK(client'[p], toClient'[p], conn'[p], p \in RoomOf("test1")')
      BY <1>1, <1>2, <2>2, <2>4 DEF Playing
    <2> QED
      BY <1>1, <1>2, <2>2, <2>5, OneRoom
  <1>5. CASE UNCHANGED toClient
    <2>1. RoomOK(client'[p], toClient'[p], conn'[p], p \in RoomOf("test1")')
      BY <1>1, <1>2, <1>3, <1>5 DEF Playing
    <2> QED
      BY <1>1, <1>2, <1>5, <2>1, OneRoom
  <1> QED
    BY <1>4, <1>5 DEF LoginRefused, LoginFault, QuitGame, MenuSelCrash, IgnoreCommand,
                      ReceiveJunk, ReceiveFault

LEMMA NewGameRoom ==
    ASSUME Assumed, AgreementInv, SystemInv', NEW p \in Peers, NewGame(p), UNCHANGED client
    PROVE  \A q \in Peers : Room(q)'
  <1>1. conn[p] = "up" /\ conn' = conn
    BY DEF NewGame, Selects, Receives
  <1>2. toClient' = [toClient EXCEPT ![p] = Append(@, RoomInfo("test1"))]
    <2>1. activeUserMap[data[p]].peer = p
      BY <1>1 DEF AgreementInv, SystemInv, PresenceInv, OwnUser, HasUser
    <2> QED
      BY <1>1, <2>1 DEF NewGame, enet_peer_send
  <1>3. RoomOf("test1")' = RoomOf("test1") \cup {p}
    BY NewGamePlays DEF AgreementInv, SystemInv
  <1>4. /\ toClient'[p] = Append(toClient[p], RoomInfo("test1"))
        /\ \A q \in Peers : q # p => toClient'[q] = toClient[q]
        /\ toClient[p] \in Seq(ServerPackets)
    BY <1>2, SystemTypes DEF AgreementInv
  <1>5. client[p].plain => client[p].pass # <<>>
    <2>1. SessionOK(client'[p], toServer'[p], toClient'[p], conn'[p], p \in RoomOf("test1")',
                    usersDb')
      BY DEF SystemInv, Session, Playing
    <2>2. client'[p].plain => Registered(client'[p], usersDb')
      BY <1>3, <2>1 DEF SessionOK, PlainOK
    <2> QED
      BY <2>2 DEF Registered
  <1>6. RoomOK(client[p], toClient[p], conn[p], TRUE)
    <2>1. RoomOK(client[p], toClient[p], conn[p], Playing(p))
      BY DEF AgreementInv, Room
    <2>2. \A screen : Agreed(client[p], screen, conn[p], Playing(p)) =>
                          Agreed(client[p], screen, conn[p], TRUE)
      BY DEF Agreed
    <2> QED
      BY <2>1, <2>2 DEF RoomOK
  <1>7. RoomOK(client[p], Append(toClient[p], RoomInfo("test1")), conn[p], TRUE)
    <2>1. Agreed(client[p], "test1", conn[p], TRUE)
      BY <1>5 DEF Agreed
    <2> QED
      BY <1>4, <1>6, <2>1, ToldRoom
  <1>8. RoomOK(client'[p], toClient'[p], conn'[p], p \in RoomOf("test1")')
    <2>1. (p \in RoomOf("test1")') = TRUE
      BY <1>3
    <2> QED
      BY <1>1, <1>4, <1>7, <2>1
  <1> QED
    BY <1>1, <1>3, <1>4, <1>8, OneRoom

LEMMA DisconnectRoom ==
    ASSUME AgreementInv, PresenceInv', NEW p \in Peers, Disconnect(p), UNCHANGED client
    PROVE  \A q \in Peers : Room(q)'
  <1>1. conn' = [conn EXCEPT ![p] = "free"] /\ UNCHANGED toClient
    BY DEF Disconnect
  <1>2. RoomOf("test1")' = RoomOf("test1") \ {p}
    BY DisconnectLeaves DEF AgreementInv, SystemInv, Screens
  <1>3. conn'[p] = "free" /\ \A q \in Peers : q # p => conn'[q] = conn[q]
    BY <1>1, SystemTypes DEF AgreementInv
  <1>4. RoomOK(client[p], toClient[p], conn[p], Playing(p))
    BY DEF AgreementInv, Room
  <1>5. RoomOK(client'[p], toClient'[p], conn'[p], p \in RoomOf("test1")')
    BY <1>1, <1>3, <1>4 DEF RoomOK, Agreed
  <1> QED
    BY <1>1, <1>2, <1>3, <1>5, OneRoom

LEMMA LinkRoom ==
    ASSUME AgreementInv, NEW p \in Peers, Drop(p), UNCHANGED <<serverVars, client>>
    PROVE  \A q \in Peers : Room(q)'
  <1>1. PICK n \in 0 .. Len(toClient[p]) :
          toClient' = [toClient EXCEPT ![p] = SubSeq(@, 1, n)]
    BY DEF Drop
  <1>2. /\ toClient'[p] = SubSeq(toClient[p], 1, n) /\ conn'[p] \in {"free", "zombie"}
        /\ \A q \in Peers : q # p => toClient'[q] = toClient[q] /\ conn'[q] = conn[q]
    BY <1>1, SystemTypes DEF Drop, AgreementInv
  <1>3. RoomOf("test1")' = RoomOf("test1")
    BY SameRooms DEF Screens, serverVars
  <1>4. RoomOK(client[p], toClient[p], conn[p], Playing(p)) /\ toClient[p] \in Seq(ServerPackets)
    BY SystemTypes DEF AgreementInv, Room
  <1>5. RoomOK(client[p], SubSeq(toClient[p], 1, n), conn'[p], Playing(p))
    BY <1>2, <1>4, DropRoom
  <1>6. RoomOK(client'[p], toClient'[p], conn'[p], p \in RoomOf("test1")')
    BY <1>2, <1>3, <1>5 DEF Playing
  <1> QED
    BY <1>2, <1>3, <1>6, OneRoom

LEMMA ServerRoom ==
    ASSUME Assumed, AgreementInv, SystemInv', NEW p \in Peers, ServerMoves(p) \/ LinkMoves(p)
    PROVE  \A q \in Peers : Room(q)'
  <1>1. UNCHANGED client /\ PresenceInv'
    BY DEF ServerMoves, LinkMoves, SystemInv
  <1>2. CASE ConnectFault(p)
    <2>1. \A q \in Peers : Room(q)
      BY DEF AgreementInv
    <2>2. UNCHANGED enetVars /\ RoomOf("test1")' = RoomOf("test1")
      BY <1>2, SameRooms DEF ConnectFault, Screens
    <2> QED
      BY <1>1, <2>1, <2>2 DEF Room, Playing, enetVars
  <1> QED
    BY <1>1, <1>2, ConnectRoom, ReceiveRoom, NewGameRoom, DisconnectRoom, LinkRoom
       DEF ServerMoves, LinkMoves, ProcessEvent, ProcessPacket

-----------------------------------------------------------------------------
(* The client's steps. *)

LEMMA GameLoopRoom ==
    ASSUME NEW c \in Clients
    PROVE  KeepsRoom(c, GameLoop(c))
  <1>1. /\ PromptUser(c) \in ClientRecords /\ PromptUser(c).state = c.state
        /\ PromptUser(c).shown = c.shown /\ PromptUser(c).pass = c.pass
        /\ PromptUser(c).plain = c.plain
    BY ZenonT(30) DEF PromptUser, Clients, ClientRecords
  <1> DEFINE u == PromptUser(c)
  <1> HIDE DEF u
  <1>2. PromptPass(u).state = u.state /\ PromptPass(u).shown = u.shown
        /\ PromptPass(u).pass = u.pass /\ PromptPass(u).plain = u.plain
    BY <1>1 DEF PromptPass, ClientRecords, u
  <1> QED
    BY <1>1, <1>2 DEF GameLoop, KeepsRoom, u

LEMMA EndedRoom == ASSUME NEW c, NEW how PROVE KeepsRoom(c, Ended(c, how))
  BY DEF KeepsRoom, Ended, NoClient

LEMMA LineRoom ==
    ASSUME NEW c \in Clients
    PROVE  /\ KeepsRoom(c, TakenAsUser(c))
           /\ KeepsRoom(c, Completed(c))
           /\ KeepsRoom(c, Shortened(c))
           /\ KeepsRoom(c, Cleared([c EXCEPT !.inputMenu = FALSE]))
           /\ \A key \in Keys : KeepsRoom(c, [c EXCEPT !.input = Append(@, key)])
  BY DEF KeepsRoom, TakenAsUser, Completed, Shortened, Cleared, Clients, ClientRecords

LEMMA EnteredRoom ==
    ASSUME NEW c \in Clients, NEW read \in DigestRead
    PROVE  KeepsRoom(c, EnteredAs(c, read))
  <1> DEFINE u == TakenAsUser(c)
             t == TakenAsPass(u, read)
             d == CommandDone(t)
  <1>1. u \in ClientRecords /\ PromptOrder(u) /\ u.input \in Texts /\ KeepsRoom(c, u)
    BY TakenAsUserIsClient, LineRoom DEF ClientRecords
  <1> HIDE DEF u
  <1>2. t \in ClientRecords /\ KeepsRoom(u, t)
    <2>1. t \in ClientRecords
      BY <1>1, TakenAsPassIsClient
    <2>2. u.inputPass => t.pass = Digest(read, u.input)
      BY <1>1 DEF TakenAsPass, ClientRecords
    <2>3. Digest(read, u.input) # <<>>
      BY <1>1, DigestType
    <2>4. /\ t.state = u.state /\ t.shown = u.shown /\ (~u.inputPass => t.pass = u.pass)
          /\ t.plain = u.plain
      BY <1>1 DEF TakenAsPass, ClientRecords
    <2> HIDE DEF t
    <2> QED
      BY <2>1, <2>2, <2>3, <2>4 DEF KeepsRoom
  <1> HIDE DEF t
  <1>3. d \in ClientRecords /\ KeepsRoom(t, d)
    BY <1>2 DEF CommandDone, KeepsRoom, ClientRecords
  <1> HIDE DEF d
  <1>4. KeepsRoom(d, Cleared(d))
    BY <1>3 DEF Cleared, KeepsRoom, ClientRecords
  <1>5. KeepsRoom(c, Cleared(d))
    BY <1>1, <1>2, <1>3, <1>4, KeepsRoomTwice
  <1> QED
    BY <1>5 DEF EnteredAs, u, t, d

(* The client in p becomes d, and nothing comes to it.                     *)
LEMMA EditRooms ==
    ASSUME AgreementInv, NEW p \in Peers, NEW d, Becomes(p, d), KeepsRoom(client[p], d),
           UNCHANGED serverVars, UNCHANGED conn, UNCHANGED toClient
    PROVE  \A q \in Peers : Room(q)'
  <1>1. client'[p] = d /\ \A q \in Peers : q # p => client'[q] = client[q]
    BY SystemTypes DEF Becomes, AgreementInv
  <1>2. RoomOf("test1")' = RoomOf("test1")
    BY SameRooms DEF Screens, serverVars
  <1>3. RoomOK(client[p], toClient[p], conn[p], Playing(p))
    BY DEF AgreementInv, Room
  <1>4. RoomOK(d, toClient[p], conn[p], Playing(p))
    BY <1>3, EditRoom
  <1>5. RoomOK(client'[p], toClient'[p], conn'[p], p \in RoomOf("test1")')
    BY <1>1, <1>2, <1>4 DEF Playing
  <1> QED
    BY <1>1, <1>2, <1>5, OneRoom

LEMMA SendsRoom ==
    ASSUME AgreementInv, NEW p \in Peers, NEW packets, NEW d \in ClientRecords,
           Sends(p, packets, d), KeepsRoom(client[p], d), UNCHANGED serverVars
    PROVE  \A q \in Peers : Room(q)'
  <1>1. UNCHANGED conn /\ UNCHANGED toClient
    BY DEF Sends, Queues, Breaks, enetVars
  <1>2. CASE Breaks(p, packets)
    BY <1>1, <1>2, EndedRoom, EditRooms DEF Breaks
  <1>3. CASE Queues(p, packets, d)
    <2> DEFINE r == [d EXCEPT !.plain = d.plain /\ \A i \in DOMAIN packets : ~Quoted(packets[i])]
    <2>1. Becomes(p, r)
      BY <1>3 DEF Queues
    <2>2. KeepsRoom(d, r)
      BY DEF KeepsRoom, ClientRecords
    <2> HIDE DEF r
    <2>3. KeepsRoom(client[p], r)
      BY <2>2, KeepsRoomTwice
    <2> QED
      BY <1>1, <2>1, <2>3, EditRooms
  <1> QED
    BY <1>2, <1>3 DEF Sends

LEMMA LaunchRoom ==
    ASSUME AgreementInv, NEW p \in Peers, Launch(p), UNCHANGED serverVars
    PROVE  \A q \in Peers : Room(q)'
  <1>1. PICK menu \in FlagInit :
          Becomes(p, [NoClient EXCEPT !.proc = "running", !.inputMenu = menu,
                                      !.plain = ~menu])
    BY DEF Launch
  <1>2. /\ client'[p].state = "LOGGING_IN" /\ client'[p].shown = NULL /\ toClient'[p] = <<>>
        /\ \A q \in Peers : q # p =>
              client'[q] = client[q] /\ toClient'[q] = toClient[q] /\ conn'[q] = conn[q]
    BY <1>1, SystemTypes DEF Becomes, NoClient, Launch, Dial, AgreementInv
  <1>3. RoomOf("test1")' = RoomOf("test1")
    BY SameRooms DEF Screens, serverVars
  <1>4. RoomOK(client'[p], toClient'[p], conn'[p], p \in RoomOf("test1")')
    BY <1>2 DEF RoomOK
  <1> QED
    BY <1>2, <1>3, <1>4, OneRoom

LEMMA ReadRoom ==
    ASSUME AgreementInv, NEW p \in Peers, HandlePacket(p) \/ HandleJunk(p), UNCHANGED serverVars
    PROVE  \A q \in Peers : Room(q)'
  <1>1. /\ toClient[p] # <<>> /\ UNCHANGED conn
        /\ toClient' = [toClient EXCEPT ![p] = Tail(toClient[p])]
    BY DEF HandlePacket, HandleJunk, Read
  <1>2. /\ client[p] \in ClientRecords /\ toClient[p] \in Seq(ServerPackets)
        /\ RoomOK(client[p], toClient[p], conn[p], Playing(p))
    BY SystemTypes DEF AgreementInv, Room, Clients
  <1>3. /\ toClient'[p] = Tail(toClient[p])
        /\ \A q \in Peers : q # p => client'[q] = client[q] /\ toClient'[q] = toClient[q]
    BY <1>1, SystemTypes DEF AgreementInv, HandlePacket, HandleJunk, Becomes
  <1>4. RoomOf("test1")' = RoomOf("test1")
    BY SameRooms DEF Screens, serverVars
  <1>5. RoomOK(client'[p], Tail(toClient[p]), conn[p], Playing(p))
    <2>1. CASE HandlePacket(p)
      <3>1. client'[p] = Shown(client[p], Head(toClient[p]))
        BY <2>1, SystemTypes DEF HandlePacket, Becomes, AgreementInv
      <3> QED
        BY <1>1, <1>2, <3>1, ShownRoom
    <2>2. CASE HandleJunk(p)
      <3>1. client'[p] = client[p]
        BY <2>2 DEF HandleJunk
      <3> QED
        BY <1>1, <1>2, <3>1, TailRoom
    <2> QED
      BY <2>1, <2>2
  <1>6. RoomOK(client'[p], toClient'[p], conn'[p], p \in RoomOf("test1")')
    BY <1>1, <1>3, <1>4, <1>5 DEF Playing
  <1> QED
    BY <1>1, <1>3, <1>4, <1>6, OneRoom

LEMMA KeyTaken ==
    ASSUME NEW c \in Clients, NEW key \in Keys, ~PromptDue(c), Len(c.input) < InputSize
    PROVE  LET d == IF c.inputMenu THEN Cleared([c EXCEPT !.inputMenu = FALSE])
                                   ELSE [c EXCEPT !.input = Append(@, key)]
           IN  d \in ClientRecords /\ d.inputPass = c.inputPass
  <1> DEFINE answered == Cleared([c EXCEPT !.inputMenu = FALSE])
             typed == [c EXCEPT !.input = Append(@, key)]
  <1>1. answered \in Clients /\ answered.inputPass = c.inputPass
    BY MenuAnsweredIsClient
  <1>2. typed \in Clients /\ typed.inputPass = c.inputPass
    BY TypedIsClient
  <1> HIDE DEF answered, typed
  <1>3. LET d == IF c.inputMenu THEN answered ELSE typed
        IN  d \in ClientRecords /\ d.inputPass = c.inputPass
    BY <1>1, <1>2 DEF Clients
  <1> QED
    BY <1>3 DEF answered, typed

LEMMA ClientRoom ==
    ASSUME AgreementInv, NEW p \in Peers, ClientStep(p), UNCHANGED serverVars
    PROVE  \A q \in Peers : Room(q)'
  <1> DEFINE c == client[p]
             g == GameLoop(c)
  <1>1. c \in Clients /\ g \in Clients /\ KeepsRoom(c, g)
    BY SystemTypes, GameLoopIsClient, GameLoopRoom DEF AgreementInv
  <1>2. CASE LinkLost(p) \/ Overrun(p) \/ EnterFault(p)
    <2>1. UNCHANGED conn /\ UNCHANGED toClient
      BY <1>2 DEF LinkLost, Overrun, EnterFault, enetVars
    <2>2. PICK d : Becomes(p, Ended(d, "crashed")) /\ KeepsRoom(c, d)
      <3>1. KeepsRoom(c, c) /\ KeepsRoom(c, TakenAsUser(g))
        BY <1>1, LineRoom, KeepsRoomTwice DEF KeepsRoom
      <3> QED
        BY <1>1, <1>2, <3>1 DEF LinkLost, Overrun, EnterFault
    <2>3. KeepsRoom(c, Ended(d, "crashed"))
      BY <2>2, EndedRoom, KeepsRoomTwice
    <2> QED
      BY <2>1, <2>2, <2>3, EditRooms
  <1>3. CASE Tab(p) \/ Delete(p) \/ NoKey(p)
    <2>1. UNCHANGED conn /\ UNCHANGED toClient
      BY <1>3 DEF Tab, Delete, NoKey, enetVars
    <2>2. KeepsRoom(c, Completed(g)) /\ KeepsRoom(c, Shortened(g))
      BY <1>1, LineRoom, KeepsRoomTwice
    <2>3. Becomes(p, g) \/ Becomes(p, Completed(g)) \/ Becomes(p, Shortened(g))
      BY <1>3 DEF Tab, Delete, NoKey
    <2> HIDE DEF g
    <2> QED
      BY <1>1, <2>1, <2>2, <2>3, EditRooms
  <1>4. ASSUME NEW key \in Keys, TypeKey(p, key) PROVE \A q \in Peers : Room(q)'
    <2> DEFINE d == IF g.inputMenu THEN Cleared([g EXCEPT !.inputMenu = FALSE])
                                   ELSE [g EXCEPT !.input = Append(@, key)]
    <2>1. (\E packets : Sends(p, packets, d)) /\ Len(g.input) < InputSize
      BY <1>4 DEF TypeKey
    <2>2. KeepsRoom(g, d)
      BY <1>1, LineRoom
    <2>3. d \in ClientRecords
      BY <1>1, <2>1, GameLoopIsClient, KeyTaken
    <2> HIDE DEF d, g
    <2>4. KeepsRoom(c, d)
      BY <1>1, <2>2, KeepsRoomTwice
    <2> QED
      BY <2>1, <2>3, <2>4, SendsRoom
  <1>5. CASE Enter(p)
    <2>1. PICK read \in DigestRead : \E packets : Sends(p, packets, EnteredAs(g, read))
      BY <1>5 DEF Enter, EnteredAs
    <2> HIDE DEF g
    <2>2. KeepsRoom(c, EnteredAs(g, read)) /\ EnteredAs(g, read) \in ClientRecords
      BY <1>1, EnteredRoom, EnteredIsClient, KeepsRoomTwice DEF Clients
    <2> QED
      BY <2>1, <2>2, SendsRoom
  <1> QED
    BY <1>2, <1>3, <1>4, <1>5, LaunchRoom, ReadRoom DEF ClientStep, ProcessInput

-----------------------------------------------------------------------------
LEMMA AgreementInvInit == SystemInit => AgreementInv
  <1> SUFFICES ASSUME SystemInit PROVE AgreementInv
    OBVIOUS
  <1>1. ASSUME NEW p \in Peers PROVE Room(p)
    <2>1. client[p] = NoClient /\ toClient[p] = <<>>
      BY DEF SystemInit, ClientInit, ENetInit
    <2>2. NoClient.state # "NORMAL" /\ NoClient.shown = NULL
      BY DEF NoClient
    <2> QED
      BY <2>1, <2>2 DEF Room, RoomOK
  <1> QED
    BY <1>1, SystemInvInit DEF AgreementInv

LEMMA AgreementInvStep ==
    ASSUME Assumed, AgreementInv, [SystemNext]_systemVars
    PROVE  AgreementInv'
  <1>1. SystemInv'
    BY SystemInvStep DEF AgreementInv
  <1>2. CASE UNCHANGED systemVars
    <2>1. RoomOf("test1")' = RoomOf("test1")
      BY <1>2, SameRooms DEF systemVars, serverVars, Screens
    <2>2. \A q \in Peers : Room(q)
      BY DEF AgreementInv
    <2>3. \A q \in Peers : Room(q)'
      BY <1>2, <2>1, <2>2 DEF Room, Playing, systemVars, enetVars
    <2> QED
      BY <1>1, <2>3 DEF AgreementInv
  <1>3. CASE SystemNext
    <2>1. PICK p \in Peers : ServerMoves(p) \/ ClientMoves(p) \/ LinkMoves(p)
      BY <1>3 DEF SystemNext
    <2>2. \A q \in Peers : Room(q)'
      <3>1. CASE ServerMoves(p) \/ LinkMoves(p)
        BY <1>1, <3>1, ServerRoom
      <3>2. CASE ClientMoves(p)
        BY <3>2, ClientRoom DEF ClientMoves
      <3> QED
        BY <2>1, <3>1, <3>2
    <2> QED
      BY <1>1, <2>2 DEF AgreementInv
  <1> QED
    BY <1>2, <1>3

(***************************************************************************)
(* A client that takes commands is where it was last told to be, whoever   *)
(* else connects, types or fails; only the main menu's room may be shown   *)
(* to one that is not there, through the unset User::mypeer of a CONNECT.  *)
(***************************************************************************)
THEOREM AgreementCorrect ==
    ASSUME Assumed
    PROVE  SystemSpec => []Agreement
  <1>1. AgreementInv => Agreement
    <2> SUFFICES ASSUME AgreementInv, NEW p \in Peers, client[p].state = "NORMAL", conn[p] = "up"
                 PROVE  \/ client[p].shown = "test1" /\ OnScreen(p, "test1")
                        \/ client[p].shown = "mainmenu" /\ "stale" \in UninitPeer
      BY DEF Agreement
    <2>1. Agreed(client[p], client[p].shown, conn[p], Playing(p))
      BY DEF AgreementInv, Room, RoomOK
    <2> QED
      BY <2>1, PlayingIsOnScreen DEF Agreed, AgreementInv, SystemInv
  <1>2. AgreementInv /\ [SystemNext]_systemVars => AgreementInv'
    BY AgreementInvStep
  <1> QED
    BY <1>1, <1>2, AgreementInvInit, PTL DEF SystemSpec

-----------------------------------------------------------------------------
(***************************************************************************)
(* What a step puts into the queue of a client that is plain afterwards is *)
(* what it meant to send.                                                  *)
(***************************************************************************)
LEMMA SentAsMeant ==
    ASSUME SystemInv, NEW p \in Peers, NEW packets \in Seq(Sendable), NEW d \in Clients,
           Sends(p, packets, d), client'[p].plain
    PROVE  NewPackets(p) \subseteq ToSet(packets)
  <1>1. CASE Breaks(p, packets)
    <2>1. NewPackets(p) = {}
      BY <1>1, NothingNew DEF Breaks, enetVars, SystemInv, ClientInv
    <2> QED
      BY <2>1
  <1>2. CASE Queues(p, packets, d)
    <2> DEFINE asMeant == \A i \in DOMAIN packets : ~Quoted(packets[i])
               r == [d EXCEPT !.plain = d.plain /\ asMeant]
    <2>1. PICK read \in [DOMAIN packets -> ReadAs \cup ToSet(packets)] :
            /\ \A i \in DOMAIN packets : read[i] \in Readings(packets[i])
            /\ toServer' = Carried(p, read)
      BY <1>2 DEF Queues
    <2>2. Becomes(p, r) /\ UNCHANGED toClient
      BY <1>2 DEF Queues
    <2>3. r.plain => asMeant
      BY DEF Clients, ClientRecords
    <2> HIDE DEF r, asMeant
    <2>4. client'[p] = r
      BY <2>2, SystemTypes DEF Becomes
    <2>5. read \in Seq(Sendable) /\ read = packets
      BY <2>1, <2>3, <2>4, ReadPackets DEF asMeant
    <2> QED
      BY <2>1, <2>2, <2>5, CarriedIsNew DEF SystemInv, ClientInv
  <1> QED
    BY <1>1, <1>2 DEF Sends

LEMMA PasswordEntered ==
    ASSUME Assumed, AgreementInv, NEW p \in Peers, Enter(p), client[p].inputPass,
           client[p].plain, client'[p].plain, client[p].shown # "mainmenu"
    PROVE  \A packet \in NewPackets(p) : packet.type = "LOGIN_REQ"
  <1> DEFINE c == client[p]
             g == GameLoop(c)
             u == TakenAsUser(g)
  <1>1. c \in Clients /\ g \in Clients /\ g.state = c.state
    BY SystemTypes, GameLoopIsClient DEF AgreementInv
  <1>2. c.state # "NORMAL"
    <2>1. c.pass = <<>>
      BY <1>1 DEF Clients, PromptOrder
    <2>2. RoomOK(c, toClient[p], conn[p], Playing(p))
      BY DEF AgreementInv, Room
    <2> QED
      BY <2>1, <2>2 DEF RoomOK, Agreed
  <1>3. g.inputPass
    BY <1>1 DEF GameLoop, PromptPass, PromptUser, Clients, ClientRecords
  <1>4. PICK read \in DigestRead :
          Sends(p, LoginSent(u, read) \o CommandSent(u), EnteredAs(g, read))
    BY DEF Enter, EnteredAs
  <1> HIDE DEF g
  <1>5. u \in ClientRecords /\ u.inputPass /\ u.state # "NORMAL" /\ u.user \in Texts
        /\ u.input \in Texts
    BY <1>1, <1>2, <1>3, TakenAsUserIsClient DEF ClientRecords
  <1>6. EnteredAs(g, read) \in Clients
    BY <1>1, EnteredIsClient
  <1> HIDE DEF u, c
  <1> DEFINE m == LoginReq(u.user, Digest(read, u.input))
             d == EnteredAs(g, read)
  <1>7. LoginSent(u, read) = <<m>> /\ CommandSent(u) = <<>>
    BY <1>5, LoginSentType, CommandSentType
  <1>8. m \in Sendable /\ m.type = "LOGIN_REQ"
    BY <1>5 DEF Sendable, LoginReq
  <1> HIDE DEF m, d
  <1> DEFINE packets == <<m>>
  <1>9. <<m>> \o <<>> = packets /\ packets \in Seq(Sendable) /\ ToSet(packets) = {m}
    BY <1>8 DEF ToSet
  <1>10. Sends(p, packets, d)
    BY <1>4, <1>7, <1>9 DEF d
  <1> HIDE DEF packets
  <1>11. NewPackets(p) \subseteq {m}
    BY <1>6, <1>9, <1>10, SentAsMeant DEF d, AgreementInv
  <1> QED
    BY <1>8, <1>11

(***************************************************************************)
(* A password leaves a plain client as a login request and as nothing      *)
(* else, whenever it was not shown the main menu's room: of the start      *)
(* screen it is told only after it has given one.                          *)
(***************************************************************************)
THEOREM PasswordStaysCorrect ==
    ASSUME Assumed
    PROVE  SystemSpec => PasswordStaysInLogin
  <1> DEFINE Stays ==
          \A p \in Peers :
              /\ client[p].inputPass /\ ~client'[p].inputPass
              /\ client'[p].plain
              /\ client[p].shown # "mainmenu"
              => \A packet \in NewPackets(p) : packet.type = "LOGIN_REQ"
  <1>1. AgreementInv /\ [SystemNext]_systemVars => [Stays]_systemVars
    <2> SUFFICES ASSUME AgreementInv, SystemNext, NEW p \in Peers,
                        client[p].inputPass, ~client'[p].inputPass,
                        client'[p].plain, client[p].shown # "mainmenu"
                 PROVE  \A packet \in NewPackets(p) : packet.type = "LOGIN_REQ"
      OBVIOUS
    <2>1. PICK q \in Peers : ClientStep(q) /\ UNCHANGED serverVars
      BY DEF SystemNext, ServerMoves, ClientMoves, LinkMoves
    <2>2. q = p
      <3>1. client' = [client EXCEPT ![q] = client'[q]]
        BY <2>1, ClientStepGood DEF GoodStep, AgreementInv, SystemInv
      <3> QED
        BY <3>1, SystemTypes DEF AgreementInv
    <2> DEFINE c == client[p]
               g == GameLoop(c)
    <2>3. c \in Clients /\ g \in Clients /\ g.inputPass /\ g.plain = c.plain
      <3>1. c \in Clients /\ g \in Clients /\ g.plain = c.plain
        BY SystemTypes, GameLoopIsClient, GameLoopKeeps DEF AgreementInv
      <3>2. g.inputPass
        BY <3>1 DEF GameLoop, PromptPass, PromptUser, Clients, ClientRecords
      <3> QED
        BY <3>1, <3>2
    <2>4. CASE Enter(p)
      <3>1. PICK read \in DigestRead : \E packets : Sends(p, packets, EnteredAs(g, read))
        BY <2>4 DEF Enter, EnteredAs
      <3> DEFINE d == EnteredAs(g, read)
      <3>2. d \in Clients /\ (d.plain => c.plain)
        BY <2>3, EnteredFields, EnteredIsClient
      <3> HIDE DEF d, g
      <3>3. client'[p].plain => d.plain \/ c.plain
        <4>1. PICK packets : Sends(p, packets, d)
          BY <3>1 DEF d
        <4>2. CASE Breaks(p, packets)
          <5>1. client'[p] = Ended(c, "exited")
            BY <4>2, SystemTypes DEF Breaks, Becomes, AgreementInv
          <5> QED
            BY <5>1, EndedKeeps DEF KeepsLogin
        <4>3. CASE Queues(p, packets, d)
          <5> DEFINE asMeant == \A i \in DOMAIN packets : ~Quoted(packets[i])
          <5>1. client'[p] = [d EXCEPT !.plain = d.plain /\ asMeant]
            BY <4>3, SystemTypes DEF Queues, Becomes, AgreementInv
          <5> QED
            BY <3>2, <5>1 DEF Clients, ClientRecords
        <4> QED
          BY <4>1, <4>2, <4>3 DEF Sends
      <3> QED
        BY <2>4, <3>2, <3>3, PasswordEntered
    <2>5. CASE toServer'[p] = toServer[p]
      <3>1. toServer[p] \in Seq(ClientPackets)
        BY SystemTypes DEF AgreementInv
      <3> QED
        BY <2>5, <3>1 DEF NewPackets
    <2>6. ASSUME NEW key \in Keys, TypeKey(p, key) PROVE toServer'[p] = toServer[p]
      <3> DEFINE d == IF g.inputMenu THEN Cleared([g EXCEPT !.inputMenu = FALSE])
                                     ELSE [g EXCEPT !.input = Append(@, key)]
      <3>1. d.inputPass /\ d \in ClientRecords
        <4>1. Len(g.input) < InputSize
          BY <2>6 DEF TypeKey
        <4> QED
          BY <2>3, <4>1, GameLoopIsClient, KeyTaken, SMTT(30)
      <3>2. PICK packets : Sends(p, packets, d)
        BY <2>6 DEF TypeKey
      <3> HIDE DEF d, g
      <3>3. ~Queues(p, packets, d)
        <4> DEFINE asMeant == \A i \in DOMAIN packets : ~Quoted(packets[i])
                   r == [d EXCEPT !.plain = d.plain /\ asMeant]
        <4>1. r.inputPass
          BY <3>1 DEF ClientRecords
        <4>2. Queues(p, packets, d) => Becomes(p, r)
          BY DEF Queues
        <4> HIDE DEF r
        <4> QED
          BY <4>1, <4>2, SystemTypes DEF Becomes, AgreementInv
      <3> QED
        BY <3>2, <3>3 DEF Sends, Breaks, enetVars
    <2>7. CASE ~Enter(p) /\ ~\E key \in Keys : TypeKey(p, key)
      <3>1. UNCHANGED toServer
        BY <2>1, <2>2, <2>7
           DEF ClientStep, ProcessInput, Launch, Dial, HandlePacket, HandleJunk, LinkLost, Overrun,
               EnterFault, Tab, Delete, NoKey, enetVars
      <3> QED
        BY <2>5, <3>1
    <2> QED
      BY <2>4, <2>5, <2>6, <2>7
  <1>2. AgreementInv /\ [SystemNext]_systemVars => AgreementInv'
    BY AgreementInvStep
  <1> QED
    BY <1>1, <1>2, AgreementInvInit, PTL DEF SystemSpec, PasswordStaysInLogin

-----------------------------------------------------------------------------
(***************************************************************************)
(* To the server, its clients are clients as it expects them: each of      *)
(* their steps puts at most two packets into a queue, takes one out, or is *)
(* none of the server's business.                                          *)
(***************************************************************************)
LEMMA OneOrTwo ==
    ASSUME NEW S, NEW s \in Seq(S), s # <<>>, Len(s) <= 2
    PROVE  \E m \in S, rest \in {<<>>} \cup {<<n>> : n \in S} : s = <<m>> \o rest
  <1>1. Len(s) \in Nat /\ Len(s) # 0
    OBVIOUS
  <1>2. CASE Len(s) = 1
    <2>1. s[1] \in S /\ s = <<s[1]>> \o <<>>
      BY <1>2
    <2> QED
      BY <2>1
  <1>3. CASE Len(s) = 2
    <2> DEFINE rest == <<s[2]>>
    <2>1. s[1] \in S /\ s[2] \in S /\ s = <<s[1]>> \o rest
      BY <1>3
    <2>2. rest \in {<<>>} \cup {<<n>> : n \in S}
      BY <2>1
    <2> HIDE DEF rest
    <2> QED
      BY <2>1, <2>2
  <1> DEFINE n == Len(s)
  <1>4. n \in Nat /\ n # 0 /\ n <= 2
    BY <1>1
  <1> HIDE DEF n
  <1>5. n = 1 \/ n = 2
    BY <1>4
  <1> QED
    BY <1>2, <1>3, <1>5 DEF n

LEMMA AtMostOne ==
    ASSUME NEW S, NEW m \in S, NEW s, s \in {<<>>, <<m>>}
    PROVE  s \in Seq(S) /\ Len(s) <= 1
  <1>1. CASE s = <<>>
    BY <1>1
  <1>2. CASE s = <<m>>
    BY <1>2
  <1> QED
    BY <1>1, <1>2

LEMMA SendsAny ==
    ASSUME Assumed, SystemInv, NEW p \in Peers, NEW packets \in Seq(Sendable),
           Len(packets) <= 2, NEW d, Sends(p, packets, d), UNCHANGED serverVars
    PROVE  AnyClient(p) \/ UNCHANGED openServerVars
  <1>1. CASE Breaks(p, packets)
    BY <1>1 DEF Breaks, openServerVars
  <1>2. CASE Queues(p, packets, d)
    <2>1. PICK read \in [DOMAIN packets -> ReadAs \cup ToSet(packets)] :
            /\ \A i \in DOMAIN packets : read[i] \in Readings(packets[i])
            /\ toServer' = Carried(p, read)
      BY <1>2 DEF Queues
    <2>2. UNCHANGED conn /\ UNCHANGED toClient /\ RoomToSend(p, packets)
      BY <1>2 DEF Queues
    <2>3. read \in Seq(Sendable) /\ Len(read) = Len(packets)
      BY <2>1, ReadPackets
    <2>4. read \in Seq(ClientPackets) /\ Len(read) <= 2
      BY <2>3 DEF Assumed
    <2>5. RoomToSend(p, read)
      BY <2>2, <2>3 DEF RoomToSend
    <2>6. CASE conn[p] \notin {"pending", "up"} \/ read = <<>>
      <3>1. toServer[p] \o <<>> = toServer[p] /\ toServer = [toServer EXCEPT ![p] = toServer[p]]
        BY SystemTypes
      <3>2. toServer' = toServer
        BY <2>1, <2>6, <3>1 DEF Carried
      <3> QED
        BY <2>2, <3>2 DEF openServerVars, enetVars
    <2>7. CASE conn[p] \in {"pending", "up"} /\ read # <<>>
      <3>1. PICK m \in ClientPackets, rest \in {<<>>} \cup {<<n>> : n \in ClientPackets} :
              read = <<m>> \o rest
        BY <2>4, <2>7, OneOrTwo
      <3>2. RoomToSend(p, <<m>> \o rest) /\ toServer' = Carried(p, <<m>> \o rest)
        BY <2>1, <2>5, <3>1
      <3>3. ClientSends(p)
        BY <2>2, <2>7, <3>1, <3>2, Zenon DEF ClientSends
      <3> QED
        BY <3>3 DEF AnyClient
    <2> QED
      BY <2>6, <2>7
  <1> QED
    BY <1>1, <1>2 DEF Sends

LEMMA EnterSendsAny ==
    ASSUME Assumed, SystemInv, NEW p \in Peers, Enter(p), UNCHANGED serverVars
    PROVE  AnyClient(p) \/ UNCHANGED openServerVars
  <1> DEFINE g == GameLoop(client[p])
             u == TakenAsUser(g)
  <1>1. g \in Clients
    BY SystemTypes, GameLoopIsClient
  <1>2. PICK read \in DigestRead : \E d : Sends(p, LoginSent(u, read) \o CommandSent(u), d)
    BY DEF Enter
  <1>3. PICK d : Sends(p, LoginSent(u, read) \o CommandSent(u), d)
    BY <1>2
  <1> HIDE DEF g
  <1>4. u \in ClientRecords
    BY <1>1, TakenAsUserIsClient
  <1> HIDE DEF u
  <1> DEFINE login == LoginSent(u, read)
             cs == CommandSent(u)
  <1>5. login \in Seq(Sendable) /\ Len(login) <= 1
    <2> DEFINE m == LoginReq(u.user, Digest(read, u.input))
    <2>1. login \in {<<>>, <<m>>}
      BY <1>4, LoginSentType DEF ClientRecords
    <2>2. m \in Sendable
      BY <1>4 DEF Sendable, ClientRecords
    <2> HIDE DEF m, login
    <2> QED
      BY <2>1, <2>2, AtMostOne
  <1>6. cs \in Seq(Sendable) /\ Len(cs) <= 1
    BY <1>4, CommandSentType
  <1> DEFINE packets == login \o cs
  <1>7. Sends(p, packets, d)
    BY <1>3
  <1> HIDE DEF login, cs
  <1>8. packets \in Seq(Sendable) /\ Len(packets) <= 2
    BY <1>5, <1>6, Concatenated
  <1> HIDE DEF packets
  <1> QED
    BY <1>7, <1>8, SendsAny

LEMMA ClientIsAny ==
    ASSUME Assumed, SystemInv, NEW p \in Peers, ClientStep(p), UNCHANGED serverVars
    PROVE  AnyClient(p) \/ UNCHANGED openServerVars
  <1>1. CASE Launch(p)
    BY <1>1 DEF Launch, AnyClient
  <1>2. CASE HandlePacket(p) \/ HandleJunk(p)
    BY <1>2 DEF HandlePacket, HandleJunk, AnyClient, ClientReads
  <1>3. ASSUME NEW key \in Keys, TypeKey(p, key)
        PROVE  AnyClient(p) \/ UNCHANGED openServerVars
    <2> DEFINE one == <<MenuSel(key)>>
               none == <<>>
    <2>1. \E d : Sends(p, one, d) \/ Sends(p, none, d)
      BY <1>3 DEF TypeKey
    <2>2. MenuSel(key) \in Sendable
      BY DEF Sendable
    <2>3. /\ one \in Seq(Sendable) /\ Len(one) <= 2
          /\ none \in Seq(Sendable) /\ Len(none) <= 2
      <3> DEFINE m == MenuSel(key)
      <3>1. m \in Sendable
        BY <2>2
      <3> HIDE DEF m
      <3>2. <<m>> \in Seq(Sendable) /\ Len(<<m>>) = 1
        BY <3>1
      <3>3. <<>> \in Seq(Sendable) /\ Len(<<>>) = 0
        OBVIOUS
      <3> QED
        BY <3>2, <3>3 DEF m
    <2> HIDE DEF one, none
    <2> QED
      BY <2>1, <2>3, SendsAny
  <1>4. CASE LinkLost(p) \/ Overrun(p) \/ EnterFault(p) \/ Tab(p) \/ Delete(p) \/ NoKey(p)
    <2>1. UNCHANGED enetVars
      BY <1>4 DEF LinkLost, Overrun, EnterFault, Tab, Delete, NoKey
    <2> QED
      BY <2>1 DEF openServerVars
  <1> QED
    BY <1>1, <1>2, <1>3, <1>4, EnterSendsAny DEF ClientStep, ProcessInput

(***************************************************************************)
(* The server among its own clients behaves as the server among any        *)
(* clients, so what is proved of OpenServerSpec holds in the system: the   *)
(* properties of src/cppserver do not depend on what src/cppclient does,   *)
(* on what its user types, or on what the server's unset mypeer holds.     *)
(***************************************************************************)
THEOREM ServerInSystem ==
    ASSUME Assumed
    PROVE  SystemSpec => OpenServerSpec
  <1>1. SystemInit => OpenServerInit
    BY DEF SystemInit, OpenServerInit
  <1>2. SystemInv /\ [SystemNext]_systemVars => [OpenServerNext]_openServerVars
    <2> SUFFICES ASSUME SystemInv, [SystemNext]_systemVars
                 PROVE  [OpenServerNext]_openServerVars
      OBVIOUS
    <2>1. CASE UNCHANGED systemVars
      BY <2>1 DEF systemVars, openServerVars
    <2>2. CASE SystemNext
      <3>1. PICK p \in Peers : ServerMoves(p) \/ ClientMoves(p) \/ LinkMoves(p)
        BY <2>2 DEF SystemNext
      <3>2. CASE ServerMoves(p) \/ LinkMoves(p)
        BY <3>2 DEF ServerMoves, LinkMoves, OpenServerNext, AnyClient
      <3>3. CASE ClientMoves(p)
        BY <3>3, ClientIsAny DEF ClientMoves, OpenServerNext
      <3> QED
        BY <3>1, <3>2, <3>3
    <2> QED
      BY <2>1, <2>2
  <1>3. SystemInv /\ [SystemNext]_systemVars => SystemInv'
    BY SystemInvStep
  <1> QED
    BY <1>1, <1>2, <1>3, SystemInvInit, PTL DEF SystemSpec, OpenServerSpec

(***************************************************************************)
(* The system as a whole implements Lobby: rooms of clients that arrive in *)
(* the menu, play once and leave.                                          *)
(***************************************************************************)
THEOREM SystemImplementsLobby ==
    ASSUME Assumed
    PROVE  SystemSpec => PresenceSpec
  <1>1. SystemSpec => OpenServerSpec
    BY ServerInSystem
  <1>2. OpenServerSpec => PresenceSpec
    BY LobbyImplemented DEF Assumed
  <1> QED
    BY <1>1, <1>2
=============================================================================
