-------------------------------- MODULE Logins --------------------------------
(***************************************************************************)
(* Connecting, logging in and logging out: the handlers of ClientSession.h *)
(* on the packet threads, the database queues and thread of DBManager.cpp, *)
(* and the two threads of ChatSerer.cpp that send the answers.             *)
(*                                                                         *)
(* A login goes through two queues and two threads before it is answered,  *)
(* a logout through one of each; a guest is answered by the handler.  All  *)
(* of them know a client by its slot only, and a slot may be given to a new*)
(* connection at any moment.  A client waits for an answer before it asks  *)
(* for anything else.  Every queue operation, every change of a session    *)
(* under its lock and every answer is one step.                            *)
(*                                                                         *)
(* The database refuses or accepts any login.  A refused one is answered   *)
(* so and logs the session in all the same.  Queues are not bounded: that  *)
(* of ResultQueManager is, but holds at most what the clients wait for.    *)
(***************************************************************************)
EXTENDS Naturals, Sequences, FiniteSets, SequencesExt

CONSTANTS
    Clients,         \* the slots
    Slot0,           \* the slot the accepter thread posts again
    Names,           \* the names the clients log in with
    NoName,          \* the empty name
    PacketThreads,   \* ProcessRecvPacketThreads
    MaxConns,        \* bound: how many connections Slot0 ever has
    MaxAsks          \* bound: how often the clients ask for anything

ASSUME NamesAssumption == NoName \notin Names
ASSUME Slot0Assumption == Slot0 \in Clients
ASSUME BoundsAssumption == MaxConns \in Nat \ {0} /\ MaxAsks \in Nat

Kinds == {"login", "guest", "logout"}

(* A packet of a client, and what becomes of it on its way: conn is the     *)
(* connection it came on, which the program does not record.                *)
Packet == [client : Clients, kind : Kinds \cup {"connect"},
           name : Names \cup {NoName}, conn : 1 .. MaxConns]

VARIABLES
    CState, UserName,  \* of each session; CState is "NONE" before any connection
    ring,          \* [Clients -> Seq(Packet)]: received and not popped
    thread,        \* what each packet thread handles, and where it is
    RequestQue,    \* DBManager: Seq(Packet)
    query,         \* the request the database thread works on: a sequence of one
    DBResultQue,   \* DBManager's ResultQue: Seq(Packet) ...
    QueryResults,  \* ... and the QueryResult of each of them
    login,         \* the login answered and not yet told to the session: the same
    ResultQue,     \* ResultQueManager: Seq(Packet)
    conn,          \* how many connections each slot has had
    greeted,       \* whether OnConnect was called for the last of them
    asks,          \* the packets each client waits to be answered
    asked,         \* how often they asked
    answered,      \* history: what each client was answered last ...
    success,       \* ... and the Success of that answer
    mixed,         \* history: the slots given to a new connection while
                   \* something of an older one was under way
    overtaken      \* history: the slots whose OnConnect came after the client
                   \* asked for something, or whose session was changed
                   \* between the answer to a login and its OnLoginSuccess

sessionVars == <<CState, UserName>>
dbVars   == <<RequestQue, query, DBResultQue, QueryResults, login>>
connVars == <<conn, greeted, mixed>>
askVars  == <<asks, answered, success>>
vars == <<sessionVars, ring, thread, dbVars, ResultQue, connVars, askVars, asked,
          overtaken>>

Idle == [at |-> "idle", packet |-> <<>>]

Init ==
    /\ CState = [c \in Clients |-> "NONE"]
    /\ UserName = [c \in Clients |-> NoName]
    /\ ring = [c \in Clients |-> <<>>]
    /\ thread = [t \in PacketThreads |-> Idle]
    /\ RequestQue = <<>> /\ query = <<>> /\ login = <<>>
    /\ DBResultQue = <<>> /\ QueryResults = <<>>
    /\ ResultQue = <<>>
    /\ conn = [c \in Clients |-> 0] /\ greeted = [c \in Clients |-> TRUE]
    /\ asks = [c \in Clients |-> {}] /\ asked = 0
    /\ answered = [c \in Clients |-> {}] /\ success = [c \in Clients |-> TRUE]
    /\ mixed = {} /\ overtaken = {}

-----------------------------------------------------------------------------
(* The places where something of a client may be, besides login: what waits *)
(* there is not answered yet.                                               *)
Held == UNION {ToSet(thread[t].packet) : t \in PacketThreads}
Queued == UNION {ToSet(q) : q \in {RequestQue, query, DBResultQue, ResultQue}}
Unanswered(c) == {p \in ToSet(ring[c]) \cup Held \cup Queued : p.client = c}

(* ACCEPT completed: the slot has a new client, who may send ...            *)
(* A slot other than Slot0 is posted once, when the server starts.          *)
Accepted(c) ==
    /\ conn[c] < (IF c = Slot0 THEN MaxConns ELSE 1) /\ greeted[c]
    /\ conn' = [conn EXCEPT ![c] = @ + 1]
    /\ greeted' = [greeted EXCEPT ![c] = FALSE]
    /\ asks' = [asks EXCEPT ![c] = {}] /\ answered' = [answered EXCEPT ![c] = {}]
    /\ success' = [success EXCEPT ![c] = TRUE]
    /\ mixed' = mixed \cup
           {p.client : p \in Unanswered(c) \cup {q \in ToSet(login) : q.client = c}}
    /\ UNCHANGED <<sessionVars, ring, thread, dbVars, ResultQue, asked, overtaken>>

(* ... before OnConnect pushes the packet that opens the session.           *)
ServerOnConnect(c) ==
    /\ ~greeted[c]
    /\ greeted' = [greeted EXCEPT ![c] = TRUE]
    /\ ring' = [ring EXCEPT ![c] = Append(@,
           [client |-> c, kind |-> "connect", name |-> NoName, conn |-> conn[c]])]
    /\ UNCHANGED <<sessionVars, thread, dbVars, ResultQue, conn, mixed, askVars, asked,
                   overtaken>>

(* A client that waits for nothing asks for something. *)
Ask(c) ==
    /\ conn[c] > 0 /\ asks[c] = {} /\ asked < MaxAsks
    /\ asked' = asked + 1
    /\ \E kind \in Kinds, name \in Names :
         LET p == [client |-> c, kind |-> kind, conn |-> conn[c],
                   name |-> IF kind = "logout" THEN NoName ELSE name]
         IN  /\ ring' = [ring EXCEPT ![c] = Append(@, p)]
             /\ asks' = [asks EXCEPT ![c] = {p}]
    /\ UNCHANGED <<sessionVars, thread, dbVars, ResultQue, connVars, answered, success,
                   overtaken>>

-----------------------------------------------------------------------------
(* ProcessRecvPacket takes a packet. *)
PopRecvPacket(t, c) ==
    /\ thread[t].at = "idle" /\ ring[c] # <<>>
    /\ thread' = [thread EXCEPT ![t] = [at |-> "handle", packet |-> <<Head(ring[c])>>]]
    /\ ring' = [ring EXCEPT ![c] = Tail(@)]
    /\ UNCHANGED <<sessionVars, dbVars, ResultQue, connVars, askVars, asked, overtaken>>

Handles(t, kind) == thread[t].at = "handle" /\ thread[t].packet[1].kind = kind

OnConnect(t) ==
    /\ Handles(t, "connect")
    /\ LET c == thread[t].packet[1].client IN
         /\ CState' = [CState EXCEPT ![c] = "CONNECTED"]
         /\ overtaken' = IF asks[c] \cup answered[c] = {} THEN overtaken
                         ELSE overtaken \cup {c}
    /\ thread' = [thread EXCEPT ![t] = Idle]
    /\ UNCHANGED <<UserName, ring, dbVars, ResultQue, connVars, askVars, asked>>

(* Mutant: the delegate has no function bound. *)
OnLoginUnbound(t) ==
    /\ Handles(t, "login")
    /\ thread' = [thread EXCEPT ![t] = Idle]
    /\ UNCHANGED <<sessionVars, ring, dbVars, ResultQue, connVars, askVars, asked,
                   overtaken>>

(* OnLogin: the delegate pushes the request. *)
OnLogin(t) ==
    /\ Handles(t, "login")
    /\ RequestQue' = RequestQue \o thread[t].packet
    /\ thread' = [thread EXCEPT ![t] = Idle]
    /\ UNCHANGED <<sessionVars, ring, query, DBResultQue, QueryResults, login, ResultQue,
                   connVars, askVars, asked, overtaken>>

(* ClientSession::OnLogin and OnLogout. *)
SetSession(p, state) ==
    /\ CState' = [CState EXCEPT ![p.client] = state]
    /\ UserName' = [UserName EXCEPT ![p.client] = p.name]
    /\ overtaken' = overtaken \cup {q.client : q \in {r \in ToSet(login) \ {p} :
                                                        r.client = p.client}}

(* OnGuestLogin: the session, then the answer ... *)
OnGuestLogin(t) ==
    /\ Handles(t, "guest")
    /\ SetSession(thread[t].packet[1], "LOGIN")
    /\ thread' = [thread EXCEPT ![t].at = "answer"]
    /\ UNCHANGED <<ring, dbVars, ResultQue, connVars, askVars, asked>>

(* Mutant: the result is pushed and the session stays. *)
OnLogoutUnset(t) ==
    /\ Handles(t, "logout")
    /\ thread' = [thread EXCEPT ![t].at = "answer"]
    /\ UNCHANGED <<sessionVars, overtaken, ring, dbVars, ResultQue, connVars, askVars,
                   asked>>

(* OnLogout: the session, then the result that is to be sent ... *)
OnLogout(t) ==
    /\ Handles(t, "logout")
    /\ SetSession(thread[t].packet[1], "CONNECTED")
    /\ thread' = [thread EXCEPT ![t].at = "answer"]
    /\ UNCHANGED <<ring, dbVars, ResultQue, connVars, askVars, asked>>

(* An answer reaches whoever has the slot, and says whether it went well.   *)
(* That to a logout is a LOGIN_RESPONSE too: one who waits for either takes *)
(* it for its own.                                                          *)
Answer(c, kinds, ok) ==
    /\ asks' = [asks EXCEPT ![c] = {p \in @ : p.kind \notin kinds}]
    /\ answered' = [answered EXCEPT ![c] =
           IF asks'[c] = asks[c] THEN @ ELSE asks[c]]
    /\ success' = [success EXCEPT ![c] = IF asks'[c] = asks[c] THEN @ ELSE ok]

(* ... GUEST_RESPONSE *)
AnswerGuest(t) ==
    /\ thread[t].at = "answer" /\ thread[t].packet[1].kind = "guest"
    /\ Answer(thread[t].packet[1].client, {"guest"}, TRUE)
    /\ thread' = [thread EXCEPT ![t] = Idle]
    /\ UNCHANGED <<sessionVars, ring, dbVars, ResultQue, connVars, asked, overtaken>>

(* ... PushLpacketResult(LOGIN_RESPONSE) *)
PushLogoutResult(t) ==
    /\ thread[t].at = "answer" /\ thread[t].packet[1].kind = "logout"
    /\ ResultQue' = ResultQue \o thread[t].packet
    /\ thread' = [thread EXCEPT ![t] = Idle]
    /\ UNCHANGED <<sessionVars, ring, dbVars, connVars, askVars, asked, overtaken>>

-----------------------------------------------------------------------------
(* ProcessQueryQue: the database thread takes a request ... *)
PopQuery ==
    /\ query = <<>> /\ RequestQue # <<>>
    /\ query' = <<Head(RequestQue)>>
    /\ RequestQue' = Tail(RequestQue)
    /\ UNCHANGED <<sessionVars, ring, thread, DBResultQue, QueryResults, login, ResultQue,
                   connVars, askVars, asked, overtaken>>

(* Mutant: what was in the result queue is overwritten. *)
SetDBResultOverwrites ==
    /\ query # <<>>
    /\ DBResultQue' = query
    /\ \E accepted \in BOOLEAN : QueryResults' = <<accepted>>
    /\ query' = <<>>
    /\ UNCHANGED <<sessionVars, ring, thread, RequestQue, login, ResultQue, connVars,
                   askVars, asked, overtaken>>

(* ... and SetDBResult pushes what the database said. *)
SetDBResult ==
    /\ query # <<>>
    /\ DBResultQue' = DBResultQue \o query
    /\ \E accepted \in BOOLEAN : QueryResults' = Append(QueryResults, accepted)
    /\ query' = <<>>
    /\ UNCHANGED <<sessionVars, ring, thread, RequestQue, login, ResultQue, connVars,
                   askVars, asked, overtaken>>

(* ProcessLoginResult: LOGIN_RESPONSE is sent first, with the verdict ... *)
ProcessLoginResult ==
    /\ login = <<>> /\ DBResultQue # <<>>
    /\ DBResultQue' = Tail(DBResultQue)
    /\ login' = <<Head(DBResultQue)>>
    /\ QueryResults' = Tail(QueryResults)
    /\ Answer(Head(DBResultQue).client, {"login", "logout"}, Head(QueryResults))
    /\ UNCHANGED <<sessionVars, ring, thread, RequestQue, query, ResultQue, connVars, asked,
                   overtaken>>

(* ... and then the session logs in, whatever the answer said. *)
OnLoginSuccess ==
    /\ login # <<>>
    /\ SetSession(login[1], "LOGIN")
    /\ login' = <<>>
    /\ UNCHANGED <<ring, thread, RequestQue, query, DBResultQue, QueryResults, ResultQue,
                   connVars, askVars, asked>>

(* ProcessPacketResult sends the answer to a logout. *)
SendResponsePacket ==
    /\ ResultQue # <<>>
    /\ ResultQue' = Tail(ResultQue)
    /\ Answer(Head(ResultQue).client, {"login", "logout"}, TRUE)
    /\ UNCHANGED <<sessionVars, ring, thread, dbVars, connVars, asked, overtaken>>

-----------------------------------------------------------------------------
Handler(t) == \/ OnConnect(t) \/ OnLogin(t) \/ OnGuestLogin(t) \/ OnLogout(t)
              \/ AnswerGuest(t) \/ PushLogoutResult(t)

Next == \/ \E c \in Clients : Accepted(c) \/ ServerOnConnect(c) \/ Ask(c)
        \/ \E t \in PacketThreads : Handler(t) \/ \E c \in Clients : PopRecvPacket(t, c)
        \/ PopQuery \/ SetDBResult
        \/ ProcessLoginResult \/ OnLoginSuccess
        \/ SendResponsePacket

Spec == Init /\ [][Next]_vars

(* The threads run, and a packet is popped when those queued before it are. *)
FairSpec ==
    /\ Spec
    /\ \A t \in PacketThreads : WF_vars(Handler(t))
    /\ \A c \in Clients : SF_vars(\E t \in PacketThreads : PopRecvPacket(t, c))
    /\ WF_vars(PopQuery) /\ WF_vars(SetDBResult)
    /\ WF_vars(ProcessLoginResult) /\ WF_vars(OnLoginSuccess)
    /\ WF_vars(SendResponsePacket)

-----------------------------------------------------------------------------
TypeOK ==
    /\ CState \in [Clients -> {"NONE", "CONNECTED", "LOGIN"}]
    /\ UserName \in [Clients -> Names \cup {NoName}]
    /\ ring \in [Clients -> Seq(Packet)]
    /\ \A t \in PacketThreads : /\ thread[t].at \in {"idle", "handle", "answer"}
                                /\ thread[t].packet \in Seq(Packet)
    /\ \A q \in {RequestQue, query, DBResultQue, login, ResultQue} : q \in Seq(Packet)
    /\ conn \in [Clients -> 0 .. MaxConns] /\ greeted \in [Clients -> BOOLEAN]
    /\ asks \in [Clients -> SUBSET Packet] /\ answered \in [Clients -> SUBSET Packet]
    /\ QueryResults \in Seq(BOOLEAN) /\ Len(QueryResults) = Len(DBResultQue)
    /\ success \in [Clients -> BOOLEAN] /\ asked \in 0 .. MaxAsks
    /\ mixed \subseteq Clients /\ overtaken \subseteq Clients

(* What a client waits for is under way in exactly one of the queues and    *)
(* threads, and nothing else of it is: no request is lost, answered twice or*)
(* answered with the verdict on another.  Not so on a slot that was given to*)
(* a new connection while a request of the old one was under way.           *)
PlacesIn(name, q, p) == {<<name, i>> : i \in {j \in 1 .. Len(q) : q[j] = p}}
Copies(c, p) ==
    PlacesIn("ring", ring[c], p) \cup PlacesIn("request", RequestQue, p)
    \cup PlacesIn("query", query, p) \cup PlacesIn("db", DBResultQue, p)
    \cup PlacesIn("result", ResultQue, p)
    \cup {<<"thread", t>> : t \in {u \in PacketThreads : thread[u].packet = <<p>>}}
OneRequestOneAnswer ==
    \A c \in Clients \ mixed :
        /\ {p \in Unanswered(c) : p.kind # "connect"} = asks[c]
        /\ \A p \in asks[c] : Cardinality(Copies(c, p)) = 1

(* When nothing of a client is under way its session is as the request that *)
(* was answered last asked for.  That holds where it was granted, and also  *)
(* where it was not: only a login is ever refused, and one that is refused  *)
(* leaves the session logged in under the name that was refused, although   *)
(* OnLogin is said to be for a login that succeeded.                        *)
(* Not so where a handler got between the answer to a login and its         *)
(* OnLoginSuccess: the session then stays logged in after a logout, or keeps*)
(* the older name; nor where OnConnect came late and took the login back.   *)
SessionIs(c, name, state) == UserName[c] = name /\ CState[c] = state
SessionFollows ==
    \A c \in Clients \ (mixed \cup overtaken) :
        Unanswered(c) = {} /\ (\A q \in ToSet(login) : q.client # c)
            => \A p \in answered[c] :
                   IF success[c]
                   THEN SessionIs(c, p.name,
                                  IF p.kind = "logout" THEN "CONNECTED" ELSE "LOGIN")
                   ELSE p.kind = "login" /\ SessionIs(c, p.name, "LOGIN")

(* Every request is answered, on whichever connection the slot then has. *)
EveryRequestAnswered == \A c \in Clients : asks[c] # {} ~> asks[c] = {}
=============================================================================
