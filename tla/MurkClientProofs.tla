-------------------------- MODULE MurkClientProofs --------------------------
(***************************************************************************)
(* Proofs about MurkClient for every set of clients, keys and verbs, and   *)
(* for every size of the input and of the queues.                          *)
(***************************************************************************)
EXTENDS MurkClient, TLAPS

-----------------------------------------------------------------------------
(***************************************************************************)
(* The least element of a set of numbers, which SelectInSeq chooses, is an *)
(* element.                                                                *)
(***************************************************************************)
WF == INSTANCE WellFoundedInduction

LEMMA LeastIsElement ==
    ASSUME NEW I \in SUBSET Nat, I # {}
    PROVE  Min(I) \in I
  <1>1. WF!IsWellFoundedOn(WF!OpToRel(<, Nat), Nat)
    BY WF!NatLessThanWellFounded
  <1>2. PICK x \in I : \A y \in I : ~(<<y, x>> \in WF!OpToRel(<, Nat))
    BY <1>1, WF!WFMin
  <1>3. ASSUME NEW y \in I PROVE x =< y
    <2>1. y < x => <<y, x>> \in WF!OpToRel(<, Nat)
      BY DEF WF!OpToRel
    <2>2. ~(y < x)
      BY <1>2, <2>1
    <2> QED
      BY <2>2
  <1> QED
    BY <1>3 DEF Min

(* A completion is a verb of the table, or nothing.                        *)
LEMMA CompletionIsVerb ==
    ASSUME NEW line
    PROVE  Completion(line) \in {<<>>} \cup ToSet(default_context)
  <1> DEFINE I == {i \in 1 .. Len(default_context) : IsPrefix(Upper(line), default_context[i])}
  <1>1. Completion(line) = IF (IF I # {} THEN Min(I) ELSE 0) = 0 THEN <<>>
                           ELSE default_context[IF I # {} THEN Min(I) ELSE 0]
    BY DEF Completion, SelectInSeq
  <1>2. CASE I = {}
    BY <1>1, <1>2
  <1>3. CASE I # {}
    <2>1. I \in SUBSET Nat
      OBVIOUS
    <2>2. Min(I) \in I
      BY <1>3, <2>1, LeastIsElement
    <2>3. Min(I) \in DOMAIN default_context
      BY <2>2, VerbAssumption
    <2> QED
      BY <1>1, <1>3, <2>2, <2>3 DEF ToSet
  <1> QED
    BY <1>2, <1>3

-----------------------------------------------------------------------------
(***************************************************************************)
(* The records a client can be.  Beyond the types: the prompts come in     *)
(* order, each for an answer that is still missing, and when GameLoop is   *)
(* about to ask, the line is empty.                                        *)
(***************************************************************************)
PromptOrder(c) ==
    /\ c.inputUser => c.user = <<>> /\ c.pass = <<>> /\ ~c.inputPass
    /\ c.inputPass => c.user # <<>> /\ c.pass = <<>>
    /\ c.pass # <<>> => c.user # <<>>

PromptDue(c) ==
    /\ c.state = "LOGGING_IN"
    /\ \/ ~c.inputUser /\ c.user = <<>>
       \/ ~c.inputPass /\ c.user # <<>> /\ c.pass = <<>>

Clients ==
    {c \in ClientRecords :
        /\ Len(c.input) <= InputSize
        /\ PromptOrder(c)
        /\ PromptDue(c) => c.input = <<>>}

LEMMA EmptyText == <<>> \in Texts
  BY DEF Texts

LEMMA NoClientFields ==
    /\ NoClient \in ClientRecords
    /\ NoClient.state = "LOGGING_IN" /\ NoClient.user = <<>> /\ NoClient.pass = <<>>
    /\ ~NoClient.inputUser /\ ~NoClient.inputPass /\ ~NoClient.inputMenu
    /\ NoClient.input = <<>> /\ NoClient.verb = <<>> /\ Len(NoClient.input) <= InputSize
    /\ NoClient.plain = TRUE
  <1>1. NoClient \in ClientRecords
    BY EmptyText DEF NoClient, ClientRecords
  <1>2. Len(<<>>) <= InputSize
    BY ClientAssumption
  <1> QED
    BY <1>1, <1>2 DEF NoClient

LEMMA LaunchedIsClient ==
    /\ NoClient \in Clients
    /\ \A menu \in FlagInit :
          [NoClient EXCEPT !.proc = "running", !.inputMenu = menu, !.plain = ~menu] \in Clients
  <1>1. NoClient \in Clients
    BY NoClientFields DEF Clients, PromptOrder, PromptDue
  <1>2. ASSUME NEW menu \in BOOLEAN
        PROVE  [NoClient EXCEPT !.proc = "running", !.inputMenu = menu, !.plain = ~menu]
                   \in Clients
    BY <1>1, ZenonT(60) DEF Clients, ClientRecords, PromptOrder, PromptDue
  <1> QED
    BY <1>1, <1>2, ClientAssumption

LEMMA EndedIsClient ==
    ASSUME NEW c \in Clients, NEW how \in {"exited", "crashed"}
    PROVE  /\ Ended(c, how) \in Clients
           /\ Ended(c, how).proc = how
           /\ Ended(c, how).pass = c.pass
           /\ Ended(c, how).plain = c.plain
           /\ Ended(c, how).verb = <<>>
           /\ ~Ended(c, how).inputPass
           /\ ~Ended(c, how).inputMenu
  BY NoClientFields DEF Ended, Clients, ClientRecords, PromptOrder, PromptDue

LEMMA ShownIsClient ==
    ASSUME NEW c \in Clients, NEW packet \in FromServer
    PROVE  /\ Shown(c, packet) \in Clients
           /\ Shown(c, packet).input = c.input
           /\ Shown(c, packet).pass = c.pass
           /\ Shown(c, packet).inputPass = c.inputPass
           /\ Shown(c, packet).verb = c.verb
           /\ Shown(c, packet).plain = c.plain
  BY DEF Shown, Clients, ClientRecords, PromptOrder, PromptDue

LEMMA PromptUserIsClient ==
    ASSUME NEW c \in Clients
    PROVE  LET u == PromptUser(c)
           IN  /\ u \in Clients
               /\ u.proc = c.proc /\ u.state = c.state /\ u.user = c.user /\ u.pass = c.pass
               /\ u.inputPass = c.inputPass /\ u.inputMenu = c.inputMenu
               /\ u.input = c.input /\ u.verb = c.verb /\ u.plain = c.plain
               /\ ~PromptDue(c) => u = c
               /\ u.state = "LOGGING_IN" /\ u.user = <<>> => u.inputUser
  BY ZenonT(60) DEF PromptUser, Clients, ClientRecords, PromptOrder, PromptDue

LEMMA PromptPassIsClient ==
    ASSUME NEW c \in Clients,
           c.state = "LOGGING_IN" /\ c.user = <<>> => c.inputUser
    PROVE  LET g == PromptPass(c)
           IN  /\ g \in Clients
               /\ g.proc = c.proc /\ g.state = c.state /\ g.user = c.user /\ g.pass = c.pass
               /\ g.inputMenu = c.inputMenu /\ g.input = c.input /\ g.verb = c.verb
               /\ g.plain = c.plain
               /\ ~PromptDue(c) => g = c
               /\ ~PromptDue(g)
  <1>1. CASE c.state = "LOGGING_IN" /\ ~c.inputPass /\ c.user # <<>> /\ c.pass = <<>>
    <2>1. PromptPass(c) = [c EXCEPT !.inputPass = TRUE, !.ctrSet = TRUE]
      BY <1>1 DEF PromptPass
    <2> QED
      BY <1>1, <2>1 DEF Clients, ClientRecords, PromptOrder, PromptDue
  <1>2. CASE ~(c.state = "LOGGING_IN" /\ ~c.inputPass /\ c.user # <<>> /\ c.pass = <<>>)
    <2>1. PromptPass(c) = c
      BY <1>2 DEF PromptPass
    <2> QED
      BY <1>2, <2>1 DEF PromptDue
  <1> QED
    BY <1>1, <1>2

(* GameLoop prompts only when a prompt is due, and then none is any more.  *)
LEMMA GameLoopIsClient ==
    ASSUME NEW c \in Clients
    PROVE  /\ GameLoop(c) \in Clients
           /\ ~PromptDue(GameLoop(c))
           /\ ~PromptDue(c) => GameLoop(c) = c
           /\ GameLoop(c).proc = c.proc
           /\ GameLoop(c).state = c.state
           /\ GameLoop(c).user = c.user
           /\ GameLoop(c).pass = c.pass
           /\ GameLoop(c).inputMenu = c.inputMenu
           /\ GameLoop(c).input = c.input
           /\ GameLoop(c).verb = c.verb
           /\ GameLoop(c).plain = c.plain
  BY PromptUserIsClient, PromptPassIsClient DEF GameLoop, PromptDue

(* Keys, where GameLoop has nothing left to ask.                           *)
LEMMA TypedIsClient ==
    ASSUME NEW c \in Clients, NEW key \in Keys,
           ~PromptDue(c), Len(c.input) < InputSize
    PROVE  LET typed == [c EXCEPT !.input = Append(@, key)]
           IN  /\ typed \in Clients
               /\ typed.input # <<>>
               /\ typed.pass = c.pass /\ typed.inputPass = c.inputPass
  <1>1. /\ Append(c.input, key) \in Texts
        /\ Len(Append(c.input, key)) <= InputSize
        /\ Append(c.input, key) # <<>>
    BY ClientAssumption DEF Clients, ClientRecords, Texts
  <1> QED
    BY <1>1 DEF Clients, ClientRecords, PromptOrder, PromptDue

LEMMA ClearedIsClient ==
    ASSUME NEW c \in ClientRecords, PromptOrder(c)
    PROVE  /\ Cleared(c) \in Clients
           /\ Cleared(c).input = <<>> /\ Cleared(c).verb = c.verb
           /\ Cleared(c).pass = c.pass /\ Cleared(c).inputPass = c.inputPass
  <1>1. <<>> \in Texts /\ Len(<<>>) <= InputSize
    BY EmptyText, ClientAssumption
  <1> QED
    BY <1>1 DEF Cleared, Clients, ClientRecords, PromptOrder, PromptDue

LEMMA MenuAnsweredIsClient ==
    ASSUME NEW c \in Clients
    PROVE  LET answered == Cleared([c EXCEPT !.inputMenu = FALSE])
           IN  /\ answered \in Clients
               /\ answered.pass = c.pass /\ answered.inputPass = c.inputPass
  <1>1. [c EXCEPT !.inputMenu = FALSE] \in ClientRecords
    BY DEF Clients, ClientRecords
  <1>2. PromptOrder([c EXCEPT !.inputMenu = FALSE])
    BY DEF Clients, ClientRecords, PromptOrder
  <1> QED
    BY <1>1, <1>2, ClearedIsClient DEF Clients, ClientRecords

(* A digest is never the empty text, so the password counts as given.      *)
LEMMA DigestType ==
    ASSUME NEW read \in DigestRead, NEW pass \in Texts
    PROVE  /\ Digest(read, pass) # <<>>
           /\ Digest(read, pass) \in {<<"sha3">>, <<"overwritten">>} \X Texts
  <1>1. <<read>> \in {<<"sha3">>, <<"overwritten">>}
    BY ClientAssumption
  <1> QED
    BY <1>1 DEF Digest

LEMMA TakenAsUserIsClient ==
    ASSUME NEW c \in Clients
    PROVE  LET t == TakenAsUser(c)
           IN  /\ t \in ClientRecords /\ PromptOrder(t) /\ ~t.inputUser
               /\ t.proc = c.proc /\ t.state = c.state /\ t.pass = c.pass
               /\ t.inputPass = c.inputPass /\ t.inputMenu = c.inputMenu
               /\ t.input = c.input /\ t.verb = c.verb /\ t.plain = c.plain
  BY ZenonT(60) DEF TakenAsUser, Clients, ClientRecords, PromptOrder

LEMMA TakenAsPassIsClient ==
    ASSUME NEW c \in ClientRecords, PromptOrder(c), NEW read \in DigestRead
    PROVE  LET t == TakenAsPass(c, read)
           IN  /\ t \in ClientRecords /\ PromptOrder(t) /\ ~t.inputPass
               /\ t.state = c.state /\ t.verb = c.verb
               /\ ~c.inputPass => t.pass = c.pass
  <1>1. CASE c.inputPass
    <2>1. TakenAsPass(c, read) = [c EXCEPT !.pass = Digest(read, c.input), !.inputPass = FALSE]
      BY <1>1 DEF TakenAsPass
    <2>2. c.input \in Texts
      BY DEF ClientRecords
    <2> DEFINE d == Digest(read, c.input)
    <2>3. d # <<>> /\ d \in {<<"sha3">>, <<"overwritten">>} \X Texts
      BY <2>2, DigestType
    <2> HIDE DEF d
    <2> DEFINE t == [c EXCEPT !.pass = d, !.inputPass = FALSE]
    <2>4. /\ t \in ClientRecords /\ ~t.inputPass
          /\ t.state = c.state /\ t.verb = c.verb
          /\ t.user = c.user /\ t.inputUser = c.inputUser
      BY <2>3 DEF ClientRecords
    <2>5. PromptOrder(t)
      BY <1>1, <2>4 DEF PromptOrder
    <2>6. TakenAsPass(c, read) = t
      BY <2>1 DEF d
    <2> QED
      BY <1>1, <2>4, <2>5, <2>6
  <1>2. CASE ~c.inputPass
    BY <1>2 DEF TakenAsPass
  <1> QED
    BY <1>1, <1>2

(* Enter: the whole of what is done with a line. *)
EnteredAs(c, read) == Cleared(CommandDone(TakenAsPass(TakenAsUser(c), read)))

LEMMA EnteredIsClient ==
    ASSUME NEW c \in Clients, NEW read \in DigestRead
    PROVE  /\ EnteredAs(c, read) \in Clients
           /\ ~EnteredAs(c, read).inputPass
           /\ c.state = "NORMAL" => EnteredAs(c, read).verb = <<>>
           /\ ~c.inputPass => EnteredAs(c, read).pass = c.pass
  <1> DEFINE u == TakenAsUser(c)
             t == TakenAsPass(u, read)
             d == CommandDone(t)
  <1>1. /\ u \in ClientRecords /\ PromptOrder(u)
        /\ u.state = c.state /\ u.pass = c.pass /\ u.inputPass = c.inputPass
    BY TakenAsUserIsClient
  <1> HIDE DEF u
  <1>2. /\ t \in ClientRecords /\ PromptOrder(t) /\ ~t.inputPass
        /\ t.state = u.state
        /\ ~u.inputPass => t.pass = u.pass
    BY <1>1, TakenAsPassIsClient
  <1> HIDE DEF t
  <1>3. /\ d \in ClientRecords /\ PromptOrder(d) /\ ~d.inputPass
        /\ d.pass = t.pass
        /\ t.state = "NORMAL" => d.verb = <<>>
    BY <1>2 DEF CommandDone, ClientRecords, PromptOrder
  <1> HIDE DEF d
  <1>4. EnteredAs(c, read) = Cleared(d)
    BY DEF EnteredAs, u, t, d
  <1> QED
    BY <1>1, <1>2, <1>3, <1>4, ClearedIsClient

(* TAB and DELETE. *)
LEMMA UpperIsText ==
    ASSUME NEW text \in Texts
    PROVE  Upper(text) \in Texts /\ Len(Upper(text)) = Len(text)
  BY DEF Upper, Texts, Range

LEMMA VerbIsText ==
    ASSUME NEW verb \in ToSet(default_context)
    PROVE  verb \in Texts /\ verb # <<>> /\ Len(verb) <= InputSize
  <1>1. PICK i \in DOMAIN default_context : verb = default_context[i]
    BY DEF ToSet
  <1>2. default_context[i] \in Seq(VerbCharacters)
    BY VerbAssumption
  <1> QED
    BY <1>1, <1>2, VerbAssumption, ClientAssumption DEF Texts

LEMMA CompletedIsClient ==
    ASSUME NEW c \in Clients, ~PromptDue(c)
    PROVE  /\ Completed(c) \in Clients
           /\ Completed(c).pass = c.pass /\ Completed(c).inputPass = c.inputPass
           /\ c.input # <<>> => Completed(c).input # <<>>
  <1> DEFINE verb == Completion(c.input)
  <1>1. verb \in {<<>>} \cup ToSet(default_context)
    BY CompletionIsVerb
  <1> HIDE DEF verb
  <1>2. CASE verb # <<>>
    <2>1. Completed(c) = [c EXCEPT !.verb = verb, !.input = verb, !.ctrSet = TRUE]
      BY <1>2 DEF Completed, verb
    <2>2. verb \in Texts /\ Len(verb) <= InputSize
      BY <1>1, <1>2, VerbIsText
    <2>3. /\ Completed(c) \in ClientRecords
          /\ Completed(c).input = verb
          /\ Completed(c).state = c.state
          /\ Completed(c).user = c.user /\ Completed(c).inputUser = c.inputUser
          /\ Completed(c).pass = c.pass /\ Completed(c).inputPass = c.inputPass
      BY <1>1, <2>1, <2>2, ZenonT(60) DEF Clients, ClientRecords
    <2> QED
      BY <1>2, <2>2, <2>3 DEF Clients, PromptOrder, PromptDue
  <1>3. CASE verb = <<>>
    <2>1. Completed(c) = [c EXCEPT !.input = Upper(c.input)]
      BY <1>3 DEF Completed, verb
    <2>2. c.input \in Texts
      BY DEF Clients, ClientRecords
    <2> DEFINE upper == Upper(c.input)
    <2>3. upper \in Texts /\ Len(upper) = Len(c.input) /\ (c.input # <<>> => upper # <<>>)
      BY <2>2, UpperIsText DEF Texts
    <2>4. Completed(c) = [c EXCEPT !.input = upper]
      BY <2>1
    <2> HIDE DEF upper
    <2>5. /\ Completed(c) \in ClientRecords
          /\ Completed(c).input = upper
          /\ Completed(c).state = c.state
          /\ Completed(c).user = c.user /\ Completed(c).inputUser = c.inputUser
          /\ Completed(c).pass = c.pass /\ Completed(c).inputPass = c.inputPass
      BY <2>3, <2>4 DEF Clients, ClientRecords
    <2> QED
      BY <2>3, <2>5 DEF Clients, PromptOrder, PromptDue
  <1> QED
    BY <1>2, <1>3

LEMMA ShortenedIsClient ==
    ASSUME NEW c \in Clients, ~PromptDue(c), c.input # <<>>
    PROVE  /\ Shortened(c) \in Clients
           /\ Shortened(c).pass = c.pass /\ Shortened(c).inputPass = c.inputPass
           /\ Shortened(c).input = <<>> => Shortened(c).verb = <<>>
  <1> DEFINE rest == Front(c.input)
             verb == IF rest = <<>> THEN <<>> ELSE c.verb
  <1>1. rest \in Texts /\ Len(rest) <= InputSize
    BY ClientAssumption DEF Front, Clients, ClientRecords, Texts
  <1>2. Shortened(c) = [c EXCEPT !.input = rest, !.verb = verb]
    BY DEF Shortened
  <1>3. verb \in {<<>>} \cup ToSet(default_context) /\ (rest = <<>> => verb = <<>>)
    BY DEF Clients, ClientRecords
  <1> HIDE DEF rest, verb
  <1> QED
    BY <1>1, <1>2, <1>3, ZenonT(30) DEF Clients, ClientRecords, PromptOrder, PromptDue

-----------------------------------------------------------------------------
(***************************************************************************)
(* The invariant: every client is such a record, and the queues hold what  *)
(* the two ends can send.  (What is said in a SAY is not looked into.)     *)
(***************************************************************************)
Sendable ==
    {LoginReq(user, Digest(read, pass)) :
        user \in Texts, read \in DigestRead, pass \in Texts}
    \cup {MenuSel(key) : key \in Keys}
    \cup ReadAs
    \cup UNION {ToSet(CommandSent(c)) : c \in ClientRecords}

QueuesOK ==
    /\ toServer \in [Peers -> Seq(Sendable)]
    /\ toClient \in [Peers -> Seq(FromServer)]

ClientInv == client \in [Peers -> Clients] /\ QueuesOK

LEMMA ClientInvInit == OpenClientInit => ClientInv
  <1> SUFFICES ASSUME OpenClientInit PROVE ClientInv
    OBVIOUS
  <1>1. client \in [Peers -> Clients]
    BY LaunchedIsClient DEF OpenClientInit, ClientInit
  <1>2. QueuesOK
    BY DEF OpenClientInit, ENetInit, QueuesOK
  <1> QED
    BY <1>1, <1>2 DEF ClientInv

(* The packets of one Enter.                                               *)
LEMMA CommandSentType ==
    ASSUME NEW c \in ClientRecords
    PROVE  /\ CommandSent(c) \in Seq(Sendable)
           /\ \A i \in DOMAIN CommandSent(c) : CommandSent(c)[i].type = "PCOMMAND"
           /\ c.state # "NORMAL" => CommandSent(c) = <<>>
           /\ Len(CommandSent(c)) <= 1
  <1>1. CASE c.state # "NORMAL" \/ CommandVerb(c) = <<>>
    BY <1>1 DEF CommandSent
  <1>2. CASE ~(c.state # "NORMAL" \/ CommandVerb(c) = <<>>)
    <2> DEFINE text == IF CommandVerb(c) = MURK_VERB_SAY THEN SayWords(CommandRest(c)) ELSE <<>>
               m == PCommand(CommandVerb(c), text)
    <2>1. CommandSent(c) = <<m>>
      BY <1>2 DEF CommandSent
    <2>2. m \in ToSet(CommandSent(c))
      BY <2>1 DEF ToSet
    <2>3. m \in Sendable
      BY <2>2 DEF Sendable
    <2>4. m.type = "PCOMMAND"
      BY DEF PCommand
    <2> HIDE DEF m
    <2> QED
      BY <1>2, <2>1, <2>3, <2>4
  <1> QED
    BY <1>1, <1>2

LEMMA LoginSentType ==
    ASSUME NEW c \in ClientRecords, NEW read \in DigestRead
    PROVE  /\ LoginSent(c, read) \in Seq(Sendable)
           /\ ~c.inputPass => LoginSent(c, read) = <<>>
           /\ c.inputPass => LoginSent(c, read) = <<LoginReq(c.user, Digest(read, c.input))>>
  <1>1. CASE c.inputPass
    <2> DEFINE m == LoginReq(c.user, Digest(read, c.input))
    <2>1. c.user \in Texts /\ c.input \in Texts
      BY DEF ClientRecords
    <2>2. m \in Sendable
      BY <2>1 DEF Sendable
    <2>3. LoginSent(c, read) = <<m>>
      BY <1>1 DEF LoginSent
    <2> HIDE DEF m
    <2>4. <<m>> \in Seq(Sendable)
      BY <2>2
    <2> QED
      BY <1>1, <2>3, <2>4 DEF m
  <1>2. CASE ~c.inputPass
    BY <1>2 DEF LoginSent
  <1> QED
    BY <1>1, <1>2

-----------------------------------------------------------------------------
(***************************************************************************)
(* What one step of the client in p does: it stays such a record, nobody   *)
(* else changes or sends, and the two action properties hold of it.        *)
(***************************************************************************)
StaysLoggedIn(p, c, packets) ==
    Running(p) /\ client[p].pass # <<>> =>
        /\ c.pass = client[p].pass
        /\ ~c.inputPass
        /\ c.plain => \A packet \in packets : packet.type # "LOGIN_REQ"

ForgetsVerb(p, c) ==
    InGame(p) /\ client[p].input # <<>> /\ c.input = <<>> => c.verb = <<>>

GoodStep(p) ==
    /\ client'[p] \in Clients
    /\ client' = [client EXCEPT ![p] = client'[p]]
    /\ QueuesOK'
    /\ \A q \in Peers : q # p => NewPackets(q) = {}
    /\ StaysLoggedIn(p, client'[p], NewPackets(p))
    /\ ForgetsVerb(p, client'[p])

LEMMA GoodStepSuffices ==
    ASSUME ClientInv, NEW p \in Peers, GoodStep(p)
    PROVE  ClientInv' /\ LoggedInOnce /\ VerbEndsWithLine
  <1>1. /\ client'[p] \in Clients
        /\ client' = [client EXCEPT ![p] = client'[p]]
        /\ QueuesOK'
    BY DEF GoodStep
  <1>2. ClientInv'
    BY <1>1 DEF ClientInv
  <1>3. \A q \in Peers : q # p => client'[q] = client[q] /\ NewPackets(q) = {}
    BY <1>1 DEF GoodStep, ClientInv
  <1>4. \A q \in Peers : client[q].pass # <<>> => ~client[q].inputPass
    BY DEF ClientInv, Clients, PromptOrder
  <1>5. LoggedInOnce
    BY <1>3, <1>4 DEF GoodStep, StaysLoggedIn, LoggedInOnce
  <1>6. VerbEndsWithLine
    BY <1>3 DEF GoodStep, ForgetsVerb, VerbEndsWithLine
  <1> QED
    BY <1>2, <1>5, <1>6

LEMMA BecomesGood ==
    ASSUME ClientInv, NEW p \in Peers, NEW c \in Clients, Becomes(p, c),
           QueuesOK', \A q \in Peers : NewPackets(q) = {},
           StaysLoggedIn(p, c, {}), ForgetsVerb(p, c)
    PROVE  GoodStep(p)
  <1>1. client' = [client EXCEPT ![p] = c] /\ client'[p] = c
    BY DEF Becomes, ClientInv
  <1> QED
    BY <1>1 DEF GoodStep

LEMMA NothingNew ==
    ASSUME QueuesOK, UNCHANGED toServer
    PROVE  \A q \in Peers : NewPackets(q) = {}
  BY DEF QueuesOK, NewPackets

LEMMA EndsGood ==
    ASSUME ClientInv, NEW p \in Peers, NEW c \in Clients, c.pass = client[p].pass,
           NEW how \in {"exited", "crashed"},
           Becomes(p, Ended(c, how)), UNCHANGED enetVars
    PROVE  GoodStep(p)
  <1>1. QueuesOK' /\ \A q \in Peers : NewPackets(q) = {}
    BY NothingNew DEF ClientInv, QueuesOK, enetVars
  <1>2. StaysLoggedIn(p, Ended(c, how), {}) /\ ForgetsVerb(p, Ended(c, how))
    BY EndedIsClient DEF StaysLoggedIn, ForgetsVerb
  <1> QED
    BY <1>1, <1>2, EndedIsClient, BecomesGood

(* Whether a process is plain decides nothing else about it.                *)
LEMMA RemarkedIsClient ==
    ASSUME NEW c \in Clients, NEW plain \in BOOLEAN
    PROVE  LET r == [c EXCEPT !.plain = plain]
           IN  /\ r \in Clients /\ r.plain = plain
               /\ r.pass = c.pass /\ r.inputPass = c.inputPass
               /\ r.input = c.input /\ r.verb = c.verb
  BY DEF Clients, ClientRecords, PromptOrder, PromptDue

(* What the server reads are packets again, as many as were sent, and the   *)
(* same ones where none of them is quoted.                                  *)
LEMMA ReadPackets ==
    ASSUME NEW packets \in Seq(Sendable),
           NEW read \in [DOMAIN packets -> ReadAs \cup ToSet(packets)],
           \A i \in DOMAIN packets : read[i] \in Readings(packets[i])
    PROVE  /\ read \in Seq(Sendable) /\ Len(read) = Len(packets)
           /\ (\A i \in DOMAIN packets : ~Quoted(packets[i])) => read = packets
  <1>1. /\ Len(packets) \in Nat /\ DOMAIN packets = 1 .. Len(packets)
        /\ packets \in [1 .. Len(packets) -> Sendable]
    OBVIOUS
  <1>2. ReadAs \cup ToSet(packets) \subseteq Sendable
    BY DEF ToSet, Sendable
  <1>3. read \in [1 .. Len(packets) -> Sendable]
    BY <1>1, <1>2, Zenon
  <1>4. read \in Seq(Sendable) /\ Len(read) = Len(packets)
    BY <1>1, <1>3
  <1>5. ASSUME \A i \in DOMAIN packets : ~Quoted(packets[i])
        PROVE  read = packets
    <2>1. \A i \in DOMAIN packets : read[i] = packets[i]
      BY <1>5, Zenon DEF Readings
    <2> QED
      BY <1>1, <1>3, <2>1
  <1> QED
    BY <1>4, <1>5

(* What was carried is what is new.                                         *)
LEMMA CarriedIsNew ==
    ASSUME QueuesOK, NEW p \in Peers, NEW packets \in Seq(Sendable),
           toServer' = Carried(p, packets), UNCHANGED toClient
    PROVE  /\ QueuesOK'
           /\ \A q \in Peers : q # p => NewPackets(q) = {}
           /\ NewPackets(p) \subseteq ToSet(packets)
  <1>1. toServer' = IF conn[p] \in {"pending", "up"}
                    THEN [toServer EXCEPT ![p] = @ \o packets]
                    ELSE toServer
    BY DEF Carried
  <1>2. toServer[p] \in Seq(Sendable) /\ toServer \in [Peers -> Seq(Sendable)]
    BY DEF QueuesOK
  <1>3. /\ toServer[p] \o packets \in Seq(Sendable)
        /\ \A i \in (Len(toServer[p]) + 1) .. Len(toServer[p] \o packets) :
              (toServer[p] \o packets)[i] \in ToSet(packets)
    <2>1. \A i \in (Len(toServer[p]) + 1) .. Len(toServer[p] \o packets) :
              /\ (toServer[p] \o packets)[i] = packets[i - Len(toServer[p])]
              /\ i - Len(toServer[p]) \in DOMAIN packets
      BY <1>2
    <2> QED
      BY <1>2, <2>1 DEF ToSet
  <1>4. QueuesOK'
    BY <1>1, <1>2, <1>3 DEF QueuesOK
  <1>5. \A q \in Peers : q # p => NewPackets(q) = {}
    BY <1>1, <1>2 DEF NewPackets
  <1>6. NewPackets(p) \subseteq ToSet(packets)
    BY <1>1, <1>2, <1>3 DEF NewPackets
  <1> QED
    BY <1>4, <1>5, <1>6

LEMMA SendsGood ==
    ASSUME ClientInv, NEW p \in Peers, NEW packets \in Seq(Sendable), NEW c \in Clients,
           Sends(p, packets, c),
           StaysLoggedIn(p, c, ToSet(packets)), ForgetsVerb(p, c)
    PROVE  GoodStep(p)
  <1>1. CASE Breaks(p, packets)
    BY <1>1, EndsGood DEF Breaks, ClientInv
  <1>2. CASE Queues(p, packets, c)
    <2> DEFINE asMeant == \A i \in DOMAIN packets : ~Quoted(packets[i])
               plain == c.plain /\ asMeant
               r == [c EXCEPT !.plain = plain]
    <2>1. PICK read \in [DOMAIN packets -> ReadAs \cup ToSet(packets)] :
            /\ \A i \in DOMAIN packets : read[i] \in Readings(packets[i])
            /\ toServer' = Carried(p, read)
      BY <1>2 DEF Queues
    <2>2. /\ read \in Seq(Sendable)
          /\ asMeant => read = packets
      BY <2>1, ReadPackets
    <2>3. Becomes(p, r) /\ UNCHANGED toClient
      BY <1>2 DEF Queues
    <2>4. plain \in BOOLEAN /\ (plain => c.plain /\ asMeant)
      BY DEF Clients, ClientRecords
    <2> HIDE DEF plain, asMeant
    <2>5. /\ r \in Clients /\ r.plain = plain
          /\ r.pass = c.pass /\ r.inputPass = c.inputPass
          /\ r.input = c.input /\ r.verb = c.verb
      BY <2>4, RemarkedIsClient
    <2> HIDE DEF r
    <2>6. /\ QueuesOK'
          /\ \A q \in Peers : q # p => NewPackets(q) = {}
          /\ NewPackets(p) \subseteq ToSet(read)
      BY <2>1, <2>2, <2>3, CarriedIsNew DEF ClientInv
    <2>7. client' = [client EXCEPT ![p] = r] /\ client'[p] = r
      BY <2>3 DEF Becomes, ClientInv
    <2>8. StaysLoggedIn(p, r, NewPackets(p)) /\ ForgetsVerb(p, r)
      BY <2>2, <2>4, <2>5, <2>6 DEF StaysLoggedIn, ForgetsVerb
    <2> QED
      BY <2>5, <2>6, <2>7, <2>8 DEF GoodStep
  <1> QED
    BY <1>1, <1>2 DEF Sends

-----------------------------------------------------------------------------
(* The actions, one by one.  GameLoop comes first in those of a key, and   *)
(* changes nothing where the game is being played.                         *)
LEMMA AfterGameLoop ==
    ASSUME ClientInv, NEW p \in Peers
    PROVE  LET g == GameLoop(client[p])
           IN  /\ g \in Clients /\ ~PromptDue(g) /\ g.pass = client[p].pass
               /\ g.pass # <<>> => ~g.inputPass
               /\ g.input = client[p].input /\ g.state = client[p].state
               /\ g.inputMenu = client[p].inputMenu /\ g.verb = client[p].verb
  <1>1. client[p] \in Clients
    BY DEF ClientInv
  <1> QED
    BY <1>1, GameLoopIsClient DEF Clients, PromptOrder

LEMMA LaunchGood ==
    ASSUME ClientInv, NEW p \in Peers, Launch(p)
    PROVE  GoodStep(p)
  <1>1. PICK menu \in FlagInit :
          Becomes(p, [NoClient EXCEPT !.proc = "running", !.inputMenu = menu,
                                      !.plain = ~menu])
    BY DEF Launch
  <1>2. QueuesOK' /\ \A q \in Peers : NewPackets(q) = {}
    BY NothingNew DEF Launch, Dial, ClientInv, QueuesOK
  <1> DEFINE c == [NoClient EXCEPT !.proc = "running", !.inputMenu = menu, !.plain = ~menu]
  <1>3. c \in Clients
    BY LaunchedIsClient
  <1>4. StaysLoggedIn(p, c, {}) /\ ForgetsVerb(p, c)
    BY DEF Launch, StaysLoggedIn, ForgetsVerb, InGame
  <1> HIDE DEF c
  <1>5. Becomes(p, c)
    BY <1>1 DEF c
  <1> QED
    BY <1>2, <1>3, <1>4, <1>5, BecomesGood

LEMMA HandlePacketGood ==
    ASSUME ClientInv, NEW p \in Peers, HandlePacket(p) \/ HandleJunk(p)
    PROVE  GoodStep(p)
  <1>1. toClient[p] \in Seq(FromServer) /\ toClient[p] # <<>> /\ toClient' = Read(p)
    BY DEF HandlePacket, HandleJunk, ClientInv, QueuesOK
  <1>2. QueuesOK' /\ \A q \in Peers : NewPackets(q) = {}
    BY <1>1, NothingNew DEF HandlePacket, HandleJunk, Read, ClientInv, QueuesOK
  <1>3. client[p] \in Clients
    BY DEF ClientInv
  <1>4. client[p].pass # <<>> => ~client[p].inputPass
    BY <1>3 DEF Clients, PromptOrder
  <1>5. CASE HandlePacket(p)
    <2> DEFINE c == Shown(client[p], Head(toClient[p]))
    <2>1. Head(toClient[p]) \in FromServer
      BY <1>1
    <2>2. /\ c \in Clients /\ c.input = client[p].input /\ c.pass = client[p].pass
          /\ c.inputPass = client[p].inputPass
      BY <1>3, <2>1, ShownIsClient
    <2>3. Becomes(p, c)
      BY <1>5 DEF HandlePacket
    <2> HIDE DEF c
    <2>4. StaysLoggedIn(p, c, {}) /\ ForgetsVerb(p, c)
      BY <1>4, <2>2 DEF StaysLoggedIn, ForgetsVerb
    <2> QED
      BY <1>2, <2>2, <2>3, <2>4, BecomesGood
  <1>6. CASE HandleJunk(p)
    <2>1. Becomes(p, client[p])
      BY <1>6 DEF HandleJunk, Becomes, ClientInv
    <2>2. StaysLoggedIn(p, client[p], {}) /\ ForgetsVerb(p, client[p])
      BY <1>4 DEF StaysLoggedIn, ForgetsVerb
    <2> QED
      BY <1>2, <1>3, <2>1, <2>2, BecomesGood
  <1> QED
    BY <1>5, <1>6

LEMMA CrashGood ==
    ASSUME ClientInv, NEW p \in Peers, LinkLost(p) \/ Overrun(p) \/ EnterFault(p)
    PROVE  GoodStep(p)
  <1> DEFINE g == GameLoop(client[p])
             u == TakenAsUser(g)
  <1>1. client[p] \in Clients
    BY DEF ClientInv
  <1>2. g \in Clients /\ g.pass = client[p].pass
    BY AfterGameLoop
  <1>3. CASE LinkLost(p)
    BY <1>1, <1>3, EndsGood DEF LinkLost
  <1>4. CASE Overrun(p)
    BY <1>2, <1>4, EndsGood DEF Overrun
  <1>5. CASE EnterFault(p)
    <2>1. Ended(u, "crashed") \in Clients
      <3>1. u \in ClientRecords /\ PromptOrder(u)
        BY <1>2, TakenAsUserIsClient
      <3> HIDE DEF u
      <3> QED
        BY <3>1, NoClientFields DEF Ended, Clients, ClientRecords, PromptOrder, PromptDue
    <2>2. /\ Ended(u, "crashed").pass = client[p].pass
          /\ ~Ended(u, "crashed").inputPass
          /\ Ended(u, "crashed").verb = <<>>
      <3>1. u.pass = client[p].pass
        BY <1>2, TakenAsUserIsClient
      <3> HIDE DEF u
      <3> QED
        BY <3>1, NoClientFields DEF Ended, ClientRecords
    <2>3. StaysLoggedIn(p, Ended(u, "crashed"), {}) /\ ForgetsVerb(p, Ended(u, "crashed"))
      BY <2>2 DEF StaysLoggedIn, ForgetsVerb
    <2>4. Becomes(p, Ended(u, "crashed")) /\ UNCHANGED enetVars
      BY <1>5 DEF EnterFault
    <2>5. QueuesOK' /\ \A q \in Peers : NewPackets(q) = {}
      BY <2>4, NothingNew DEF ClientInv, QueuesOK, enetVars
    <2> QED
      BY <2>1, <2>3, <2>4, <2>5, BecomesGood
  <1> QED
    BY <1>3, <1>4, <1>5

LEMMA TypeKeyGood ==
    ASSUME ClientInv, NEW p \in Peers, NEW key \in Keys, TypeKey(p, key)
    PROVE  GoodStep(p)
  <1> DEFINE g == GameLoop(client[p])
  <1>1. /\ g \in Clients /\ ~PromptDue(g) /\ g.pass = client[p].pass
        /\ g.pass # <<>> => ~g.inputPass
        /\ g.inputMenu = client[p].inputMenu
        /\ Len(g.input) < InputSize
    BY AfterGameLoop DEF TypeKey
  <1>2. CASE g.inputMenu
    <2> DEFINE c == Cleared([g EXCEPT !.inputMenu = FALSE])
    <2>1. c \in Clients /\ c.pass = g.pass /\ c.inputPass = g.inputPass
      BY <1>1, MenuAnsweredIsClient
    <2>2. Sends(p, <<MenuSel(key)>>, c)
      BY <1>2 DEF TypeKey
    <2> HIDE DEF c, g
    <2>3. MenuSel(key) \in Sendable /\ MenuSel(key).type = "MENUSEL"
      BY DEF Sendable, MenuSel
    <2>4. <<MenuSel(key)>> \in Seq(Sendable) /\ ToSet(<<MenuSel(key)>>) = {MenuSel(key)}
      BY <2>3 DEF ToSet
    <2>5. StaysLoggedIn(p, c, ToSet(<<MenuSel(key)>>))
      BY <1>1, <2>1, <2>3, <2>4 DEF StaysLoggedIn
    <2>6. ForgetsVerb(p, c)
      BY <1>1, <1>2 DEF ForgetsVerb, InGame
    <2> QED
      BY <2>1, <2>2, <2>4, <2>5, <2>6, SendsGood
  <1>3. CASE ~g.inputMenu
    <2> DEFINE c == [g EXCEPT !.input = Append(@, key)]
    <2>1. c \in Clients /\ c.input # <<>> /\ c.pass = g.pass /\ c.inputPass = g.inputPass
      BY <1>1, TypedIsClient
    <2>2. Sends(p, <<>>, c)
      BY <1>3 DEF TypeKey
    <2> HIDE DEF c, g
    <2>3. <<>> \in Seq(Sendable) /\ ToSet(<<>>) = {}
      BY DEF ToSet
    <2>4. StaysLoggedIn(p, c, ToSet(<<>>)) /\ ForgetsVerb(p, c)
      BY <1>1, <2>1, <2>3 DEF StaysLoggedIn, ForgetsVerb
    <2> QED
      BY <2>1, <2>2, <2>3, <2>4, SendsGood
  <1> QED
    BY <1>2, <1>3

LEMMA EnterGood ==
    ASSUME ClientInv, NEW p \in Peers, Enter(p)
    PROVE  GoodStep(p)
  <1> DEFINE g == GameLoop(client[p])
             u == TakenAsUser(g)
  <1>1. /\ g \in Clients /\ g.pass = client[p].pass /\ g.state = client[p].state
        /\ g.pass # <<>> => ~g.inputPass
    BY AfterGameLoop
  <1>2. u \in ClientRecords /\ u.inputPass = g.inputPass
    BY <1>1, TakenAsUserIsClient
  <1>3. PICK read \in DigestRead :
          Sends(p, LoginSent(u, read) \o CommandSent(u), Cleared(CommandDone(TakenAsPass(u, read))))
    BY DEF Enter
  <1> DEFINE c == EnteredAs(g, read)
             packets == LoginSent(u, read) \o CommandSent(u)
  <1>4. Sends(p, packets, c)
    BY <1>3 DEF EnteredAs
  <1> HIDE DEF g, u, c
  <1>5. /\ c \in Clients /\ ~c.inputPass
        /\ g.state = "NORMAL" => c.verb = <<>>
        /\ ~g.inputPass => c.pass = g.pass
    BY <1>1, EnteredIsClient DEF c
  <1>6. /\ LoginSent(u, read) \in Seq(Sendable)
        /\ CommandSent(u) \in Seq(Sendable)
        /\ ~u.inputPass => LoginSent(u, read) = <<>>
        /\ \A i \in DOMAIN CommandSent(u) : CommandSent(u)[i].type = "PCOMMAND"
    BY <1>2, LoginSentType, CommandSentType
  <1>7. packets \in Seq(Sendable)
    BY <1>6
  <1>8. ASSUME ~u.inputPass
        PROVE  \A m \in ToSet(packets) : m.type # "LOGIN_REQ"
    <2>1. packets = CommandSent(u)
      BY <1>6, <1>8
    <2> QED
      BY <1>6, <2>1 DEF ToSet
  <1> HIDE DEF packets
  <1>9. StaysLoggedIn(p, c, ToSet(packets))
    BY <1>1, <1>2, <1>5, <1>8 DEF StaysLoggedIn
  <1>10. ForgetsVerb(p, c)
    BY <1>1, <1>5 DEF ForgetsVerb, InGame
  <1> QED
    BY <1>4, <1>5, <1>7, <1>9, <1>10, SendsGood

(* TAB, DELETE and no key at all leave the queues alone.                   *)
LEMMA EditGood ==
    ASSUME ClientInv, NEW p \in Peers, Tab(p) \/ Delete(p) \/ NoKey(p)
    PROVE  GoodStep(p)
  <1> DEFINE g == GameLoop(client[p])
  <1>1. /\ g \in Clients /\ ~PromptDue(g) /\ g.pass = client[p].pass
        /\ g.pass # <<>> => ~g.inputPass
        /\ g.input = client[p].input
    BY AfterGameLoop
  <1>2. QueuesOK' /\ \A q \in Peers : NewPackets(q) = {}
    BY NothingNew DEF Tab, Delete, NoKey, ClientInv, QueuesOK, enetVars
  <1>3. ASSUME NEW c \in Clients, c.pass = g.pass, c.inputPass = g.inputPass, Becomes(p, c),
               g.input # <<>> /\ c.input = <<>> => c.verb = <<>>
        PROVE  GoodStep(p)
    <2>1. StaysLoggedIn(p, c, {}) /\ ForgetsVerb(p, c)
      BY <1>1, <1>3 DEF StaysLoggedIn, ForgetsVerb
    <2> QED
      BY <1>2, <1>3, <2>1, BecomesGood
  <1>4. CASE Becomes(p, g)
    BY <1>1, <1>3, <1>4
  <1>5. CASE Tab(p) /\ Becomes(p, Completed(g))
    <2> HIDE DEF g
    <2> QED
      BY <1>1, <1>3, <1>5, CompletedIsClient
  <1>6. CASE g.input # <<>> /\ Becomes(p, Shortened(g))
    <2> HIDE DEF g
    <2> QED
      BY <1>1, <1>3, <1>6, ShortenedIsClient
  <1> QED
    BY <1>4, <1>5, <1>6 DEF Tab, Delete, NoKey

(* The server's end takes packets out of one queue and puts what it sends  *)
(* into the other.                                                         *)
LEMMA AnyServerInv ==
    ASSUME ClientInv, NEW p \in Peers, AnyServer(p)
    PROVE  ClientInv' /\ LoggedInOnce /\ VerbEndsWithLine
  <1> USE DEF ClientInv, QueuesOK
  <1>1. UNCHANGED client
    BY DEF AnyServer
  <1>2. toClient' \in [Peers -> Seq(FromServer)]
    <2>1. CASE Drop(p)
      <3>1. PICK n \in 0 .. Len(toClient[p]) :
              toClient' = [toClient EXCEPT ![p] = SubSeq(@, 1, n)]
        BY <2>1 DEF Drop
      <3>2. SubSeq(toClient[p], 1, n) \in Seq(FromServer)
        BY <3>1
      <3> QED
        BY <3>1, <3>2
    <2>2. CASE \E packet \in FromServer : Sent(p, packet)
      BY <2>2 DEF Sent, enet_peer_send
    <2>3. CASE UNCHANGED toClient
      BY <2>3
    <2> QED
      BY <2>1, <2>2, <2>3 DEF AnyServer
  <1>3. /\ toServer' \in [Peers -> Seq(Sendable)]
        /\ \A q \in Peers : Len(toServer'[q]) <= Len(toServer[q])
    <2>1. CASE Drop(p)
      BY <2>1 DEF Drop
    <2>2. CASE toServer[p] # <<>> /\ toServer' = Dispatched(p)
      BY <2>2 DEF Dispatched
    <2>3. CASE UNCHANGED toServer
      BY <2>3
    <2> QED
      BY <2>1, <2>2, <2>3 DEF AnyServer, Sent
  <1>4. \A q \in Peers : NewPackets(q) = {}
    BY <1>3 DEF NewPackets
  <1>5. \A q \in Peers : client[q].pass # <<>> => ~client[q].inputPass
    BY DEF Clients, PromptOrder
  <1> QED
    BY <1>1, <1>2, <1>3, <1>4, <1>5 DEF LoggedInOnce, VerbEndsWithLine

LEMMA ClientStepGood ==
    ASSUME ClientInv, NEW p \in Peers, ClientStep(p)
    PROVE  GoodStep(p)
  BY LaunchGood, HandlePacketGood, CrashGood, TypeKeyGood, EnterGood, EditGood
     DEF ClientStep, ProcessInput

LEMMA ClientInvStep ==
    ClientInv /\ [OpenClientNext]_openClientVars
        => ClientInv' /\ [LoggedInOnce /\ VerbEndsWithLine]_openClientVars
  <1> SUFFICES ASSUME ClientInv, [OpenClientNext]_openClientVars
               PROVE  ClientInv' /\ [LoggedInOnce /\ VerbEndsWithLine]_openClientVars
    OBVIOUS
  <1>1. CASE UNCHANGED openClientVars
    BY <1>1 DEF openClientVars, enetVars, ClientInv, QueuesOK
  <1>2. CASE OpenClientNext
    <2>1. PICK p \in Peers : ClientStep(p) \/ AnyServer(p)
      BY <1>2 DEF OpenClientNext
    <2> QED
      BY <2>1, ClientStepGood, GoodStepSuffices, AnyServerInv
  <1> QED
    BY <1>1, <1>2

-----------------------------------------------------------------------------
LEMMA ClientInvSays == ClientInv => ClientTypeOK /\ PromptClean
  <1>1. ClientInv => ClientTypeOK
    BY DEF ClientInv, Clients, ClientTypeOK
  <1>2. ClientInv => PromptClean
    <2> SUFFICES ASSUME ClientInv, NEW p \in Peers
                 PROVE  /\ ~(client[p].inputUser /\ client[p].inputPass)
                        /\ GameLoop(client[p]) # client[p] => client[p].input = <<>>
      BY DEF PromptClean
    <2>1. client[p] \in Clients
      BY DEF ClientInv
    <2>2. GameLoop(client[p]) # client[p] => PromptDue(client[p])
      BY <2>1, GameLoopIsClient
    <2> QED
      BY <2>1, <2>2 DEF Clients, PromptOrder
  <1> QED
    BY <1>1, <1>2

(***************************************************************************)
(* The state of a client has its types: the length of the input never      *)
(* passes its bound while the process runs, the context is always a verb   *)
(* of the table, and a password is kept only as a digest.                  *)
(***************************************************************************)
THEOREM ClientTypeCorrect == OpenClientSpec => []ClientTypeOK
  <1>1. ClientInv => ClientTypeOK
    BY ClientInvSays
  <1> QED
    BY ClientInvInit, ClientInvStep, <1>1, PTL DEF OpenClientSpec

(***************************************************************************)
(* The prompts never overlap and never come up over a line in progress.    *)
(***************************************************************************)
THEOREM PromptCorrect == OpenClientSpec => []PromptClean
  <1>1. ClientInv => PromptClean
    BY ClientInvSays
  <1> QED
    BY ClientInvInit, ClientInvStep, <1>1, PTL DEF OpenClientSpec

(***************************************************************************)
(* One login per process, whatever the user types and the server sends.    *)
(***************************************************************************)
THEOREM LoginOnceCorrect == OpenClientSpec => LoginOnce
  <1>1. ClientInv /\ [OpenClientNext]_openClientVars => [LoggedInOnce]_openClientVars
    BY ClientInvStep
  <1> QED
    BY ClientInvInit, ClientInvStep, <1>1, PTL DEF OpenClientSpec, LoginOnce

(***************************************************************************)
(* In the game no verb outlives the line it was found in.                  *)
(***************************************************************************)
THEOREM ContextCorrect == OpenClientSpec => ContextEnds
  <1>1. ClientInv /\ [OpenClientNext]_openClientVars => [VerbEndsWithLine]_openClientVars
    BY ClientInvStep
  <1> QED
    BY ClientInvInit, ClientInvStep, <1>1, PTL DEF OpenClientSpec, ContextEnds
=============================================================================
