---------------------------- MODULE Logins_proofs ----------------------------
(***************************************************************************)
(* Proofs about Logins, for any slots, names and number of packet threads. *)
(***************************************************************************)
EXTENDS Logins, FiniteSetTheorems, SequenceTheorems, TLAPS

(* What p asks for is c's: connections ask for nothing. *)
IsAsk(p, c) == p.client = c /\ p.kind # "connect"
Asks(q, c)  == {q[i] : i \in {j \in 1 .. Len(q) : IsAsk(q[j], c)}}
OneAsk(q, c) ==
    \A i, j \in 1 .. Len(q) : IsAsk(q[i], c) /\ IsAsk(q[j], c) => i = j

(* The places where a request is until it is answered. *)
Stations == {<<n, 0>> : n \in {"ring", "request", "query", "db", "result"}}
            \cup {<<"thread", t>> : t \in PacketThreads}
At(x, c) == CASE x[1] = "ring"    -> ring[c]
              [] x[1] = "request" -> RequestQue
              [] x[1] = "query"   -> query
              [] x[1] = "db"      -> DBResultQue
              [] x[1] = "result"  -> ResultQue
              [] OTHER            -> thread[x[2]].packet
Where(c) == [x \in Stations |-> Asks(At(x, c), c)]

(* What is waited for is in one place, and nothing else is anywhere. *)
Single(W, A) ==
    IF A = {} THEN \A x \in Stations : W[x] = {}
    ELSE \E x \in Stations : /\ W[x] = A /\ \E p : A = {p}
                             /\ \A y \in Stations : y # x => W[y] = {}

Waits(c) ==
    /\ Single(Where(c), asks[c])
    /\ OneAsk(ring[c], c) /\ OneAsk(RequestQue, c)
    /\ OneAsk(DBResultQue, c) /\ OneAsk(ResultQue, c)

(* The database is asked about logins, and answers to logouts are queued    *)
(* elsewhere.                                                               *)
Of(kind) == {p \in Packet : p.kind = kind}

ThreadShape(t) ==
    \/ thread[t] = Idle
    \/ \E p \in Packet : /\ thread[t].packet = <<p>> /\ thread[t].at \in {"handle", "answer"}
                         /\ thread[t].at = "answer" => p.kind \in {"guest", "logout"}

Types ==
    /\ CState \in [Clients -> {"NONE", "CONNECTED", "LOGIN"}]
    /\ UserName \in [Clients -> Names \cup {NoName}]
    /\ ring \in [Clients -> Seq(Packet)]
    /\ \A c \in Clients : \A i \in 1 .. Len(ring[c]) : ring[c][i].client = c
    /\ thread \in [PacketThreads -> [at : {"idle", "handle", "answer"}, packet : Seq(Packet)]]
    /\ \A t \in PacketThreads : ThreadShape(t)
    /\ RequestQue \in Seq(Of("login")) /\ DBResultQue \in Seq(Of("login"))
    /\ ResultQue \in Seq(Of("logout"))
    /\ query = <<>> \/ \E p \in Of("login") : query = <<p>>
    /\ login = <<>> \/ \E p \in Of("login") : login = <<p>>
    /\ conn \in [Clients -> 0 .. MaxConns] /\ greeted \in [Clients -> BOOLEAN]
    /\ \A c \in Clients : greeted[c] \/ conn[c] > 0
    /\ asks \in [Clients -> SUBSET Packet] /\ answered \in [Clients -> SUBSET Packet]
    /\ QueryResults \in Seq(BOOLEAN) /\ Len(QueryResults) = Len(DBResultQue)
    /\ success \in [Clients -> BOOLEAN] /\ asked \in 0 .. MaxAsks
    /\ mixed \subseteq Clients /\ overtaken \subseteq Clients

(* The session is as p left it. *)
Matches(c, p) ==
    /\ UserName[c] = p.name
    /\ CState[c] = IF p.kind = "logout" THEN "CONNECTED" ELSE "LOGIN"

(* Between the change of the session and its answer the session is the one  *)
(* that is going to be answered; after the answer to a login it is not yet  *)
(* so; else it is the one that was answered.  Only logins are refused.      *)
Changed(c) == Asks(ResultQue, c)
              \cup UNION {Asks(thread[t].packet, c) :
                              t \in {u \in PacketThreads : thread[u].at = "answer"}}

Follows(c) ==
    /\ \A p \in Changed(c) : Matches(c, p)
    /\ Changed(c) # {} => Asks(login, c) = {}
    /\ \A p \in Asks(login, c) : answered[c] = {p}
    /\ Changed(c) = {} /\ Asks(login, c) = {} => \A p \in answered[c] : Matches(c, p)
    /\ \A p \in answered[c] : success[c] \/ p.kind = "login"

Inv == /\ Types
       /\ \A c \in Clients \ mixed : Waits(c)
       /\ \A c \in Clients \ (mixed \cup overtaken) : Follows(c)
-----------------------------------------------------------------------------
(* Of the requests in a queue: none, one, one more, one less. *)
LEMMA NoAsks ==
    ASSUME NEW c
    PROVE  Asks(<<>>, c) = {} /\ OneAsk(<<>>, c)
BY DEF Asks, OneAsk

LEMMA AsksOfOne ==
    ASSUME NEW c, NEW p
    PROVE  /\ Asks(<<p>>, c) = IF IsAsk(p, c) THEN {p} ELSE {}
           /\ OneAsk(<<p>>, c)
<1>1. Len(<<p>>) = 1 /\ <<p>>[1] = p
    OBVIOUS
<1>2. \A i \in 1 .. Len(<<p>>) : i = 1
    BY <1>1
<1> QED
    BY <1>1, <1>2 DEF Asks, OneAsk

LEMMA AsksAppend ==
    ASSUME NEW S, NEW q \in Seq(S), NEW p \in S, NEW c
    PROVE  /\ q \o <<p>> \in Seq(S)
           /\ Asks(q \o <<p>>, c) = Asks(q, c) \cup (IF IsAsk(p, c) THEN {p} ELSE {})
           /\ OneAsk(q, c) /\ (IsAsk(p, c) => Asks(q, c) = {}) => OneAsk(q \o <<p>>, c)
           /\ \A i \in 1 .. Len(q \o <<p>>) :
                  (q \o <<p>>)[i] = p \/ \E j \in 1 .. Len(q) : (q \o <<p>>)[i] = q[j]
<1>1. PICK r \in Seq(S) : r = q \o <<p>>
  <2>1. <<p>> \in Seq(S)
      OBVIOUS
  <2> QED
      BY <2>1, ConcatProperties
<1>2. Len(q) \in Nat /\ Len(r) = Len(q) + 1 /\ r[Len(q) + 1] = p
      /\ \A i \in 1 .. Len(q) : r[i] = q[i]
    BY <1>1, AppendIsConcat, AppendProperties
<1>3. \A i \in 1 .. Len(r) : i \in 1 .. Len(q) \/ i = Len(q) + 1
    BY <1>2
<1>4. 1 .. Len(q) \subseteq 1 .. Len(r) /\ Len(q) + 1 \in 1 .. Len(r)
    BY <1>2
<1>5. Asks(r, c) = Asks(q, c) \cup (IF IsAsk(p, c) THEN {p} ELSE {})
    BY <1>2, <1>3, <1>4 DEF Asks
<1>6. OneAsk(q, c) /\ (IsAsk(p, c) => Asks(q, c) = {}) => OneAsk(r, c)
    BY <1>2, <1>3 DEF OneAsk, Asks
<1> QED
    BY <1>1, <1>2, <1>3, <1>5, <1>6

LEMMA AsksTail ==
    ASSUME NEW S, NEW q \in Seq(S), q # <<>>, NEW c, OneAsk(q, c)
    PROVE  /\ Head(q) \in S /\ Tail(q) \in Seq(S) /\ OneAsk(Tail(q), c)
           /\ ~IsAsk(Head(q), c) => Asks(Tail(q), c) = Asks(q, c)
           /\ IsAsk(Head(q), c) => Asks(q, c) = {Head(q)} /\ Asks(Tail(q), c) = {}
<1>1. PICK r \in Seq(S) : r = Tail(q)
    BY HeadTailProperties
<1>2. /\ Len(q) \in Nat \ {0} /\ Len(r) = Len(q) - 1 /\ Head(q) = q[1] /\ Head(q) \in S
      /\ \A i \in 1 .. Len(r) : r[i] = q[i + 1]
    BY <1>1, HeadTailProperties
<1>3. /\ \A i \in 1 .. Len(r) : i + 1 \in 1 .. Len(q) /\ i + 1 # 1
      /\ \A i \in 1 .. Len(q) : i # 1 => i - 1 \in 1 .. Len(r) /\ r[i - 1] = q[i]
      /\ 1 \in 1 .. Len(q)
    BY <1>2
<1>4. OneAsk(r, c)
    BY <1>2, <1>3 DEF OneAsk
<1>5. ~IsAsk(Head(q), c) => Asks(r, c) = Asks(q, c)
  <2>1. Asks(r, c) \subseteq Asks(q, c)
      BY <1>2, <1>3 DEF Asks
  <2>2. ~IsAsk(q[1], c) => Asks(q, c) \subseteq Asks(r, c)
      BY <1>3 DEF Asks
  <2> QED
      BY <1>2, <2>1, <2>2
<1>6. IsAsk(Head(q), c) => Asks(q, c) = {Head(q)} /\ Asks(r, c) = {}
  <2>1. IsAsk(q[1], c) => \A i \in 1 .. Len(q) : IsAsk(q[i], c) <=> i = 1
      BY <1>3 DEF OneAsk
  <2>2. IsAsk(q[1], c) => \A i \in 1 .. Len(r) : ~IsAsk(r[i], c)
      BY <1>2, <1>3, <2>1
  <2> QED
      BY <1>2, <1>3, <2>1, <2>2 DEF Asks
<1> QED
    BY <1>1, <1>2, <1>4, <1>5, <1>6

(* What a step does to the one place. *)
LEMMA Moved ==
    ASSUME NEW V, NEW W, NEW A, Single(V, A), NEW x \in Stations, NEW y \in Stations, x # y,
           NEW p, p \in V[x], W[x] = {}, W[y] = V[y] \cup {p},
           \A z \in Stations : z # x /\ z # y => W[z] = V[z]
    PROVE  Single(W, A) /\ A = {p} /\ \A z \in Stations : z # x => V[z] = {}
<1>1. A # {}
    BY DEF Single
<1>2. V[x] = A /\ A = {p} /\ \A z \in Stations : z # x => V[z] = {}
    BY <1>1 DEF Single
<1>3. W[y] = A /\ \A z \in Stations : z # y => W[z] = {}
    BY <1>2
<1> QED
    BY <1>1, <1>2, <1>3 DEF Single

LEMMA Removed ==
    ASSUME NEW V, NEW W, NEW A, Single(V, A), NEW x \in Stations, NEW p, p \in V[x], W[x] = {},
           \A z \in Stations : z # x => W[z] = V[z]
    PROVE  Single(W, {}) /\ A = {p} /\ \A z \in Stations : z # x => V[z] = {}
<1>1. A # {}
    BY DEF Single
<1>2. V[x] = A /\ A = {p} /\ \A z \in Stations : z # x => V[z] = {}
    BY <1>1 DEF Single
<1> QED
    BY <1>2 DEF Single

LEMMA Created ==
    ASSUME NEW V, NEW W, Single(V, {}), NEW x \in Stations, NEW p, W[x] = V[x] \cup {p},
           \A z \in Stations : z # x => W[z] = V[z]
    PROVE  Single(W, {p})
BY DEF Single

LEMMA Kept ==
    ASSUME NEW V, NEW W, NEW A, Single(V, A), \A z \in Stations : W[z] = V[z]
    PROVE  Single(W, A)
BY DEF Single

LEMMA WhereAt ==
    ASSUME NEW c
    PROVE  /\ Where(c)[<<"ring", 0>>] = Asks(ring[c], c)
           /\ Where(c)[<<"request", 0>>] = Asks(RequestQue, c)
           /\ Where(c)[<<"query", 0>>] = Asks(query, c)
           /\ Where(c)[<<"db", 0>>] = Asks(DBResultQue, c)
           /\ Where(c)[<<"result", 0>>] = Asks(ResultQue, c)
           /\ \A t \in PacketThreads :
                  Where(c)[<<"thread", t>>] = Asks(thread[t].packet, c)
           /\ \A x \in Stations : Where(c)[x] = Asks(At(x, c), c)
<1>1. \A x \in Stations : Where(c)[x] = Asks(At(x, c), c)
    BY DEF Where
<1>2. /\ \A n \in {"ring", "request", "query", "db", "result"} : <<n, 0>> \in Stations
      /\ \A t \in PacketThreads : <<"thread", t>> \in Stations
    BY DEF Stations
<1>3. At(<<"ring", 0>>, c) = ring[c] /\ At(<<"request", 0>>, c) = RequestQue
      /\ At(<<"query", 0>>, c) = query /\ At(<<"db", 0>>, c) = DBResultQue
      /\ At(<<"result", 0>>, c) = ResultQue
    BY DEF At
<1>4. \A t \in PacketThreads : At(<<"thread", t>>, c) = thread[t].packet
    BY DEF At
<1> QED
    BY <1>1, <1>2, <1>3, <1>4

(* The same of the next state, and what a step leaves alone. *)
LEMMA WhereNext ==
    ASSUME NEW c
    PROVE  /\ Where(c)'[<<"ring", 0>>] = Asks(ring'[c], c)
           /\ Where(c)'[<<"request", 0>>] = Asks(RequestQue', c)
           /\ Where(c)'[<<"query", 0>>] = Asks(query', c)
           /\ Where(c)'[<<"db", 0>>] = Asks(DBResultQue', c)
           /\ Where(c)'[<<"result", 0>>] = Asks(ResultQue', c)
           /\ \A t \in PacketThreads :
                  Where(c)'[<<"thread", t>>] = Asks(thread'[t].packet, c)
           /\ \A x \in Stations : At(x, c)' = At(x, c) => Where(c)'[x] = Where(c)[x]
<1>1. \A x \in Stations : Where(c)[x] = Asks(At(x, c), c)
                          /\ Where(c)'[x] = Asks(At(x, c)', c)
    BY DEF Where, Asks
<1>2. /\ \A n \in {"ring", "request", "query", "db", "result"} : <<n, 0>> \in Stations
      /\ \A t \in PacketThreads : <<"thread", t>> \in Stations
    BY DEF Stations
<1>3. At(<<"ring", 0>>, c)' = ring'[c] /\ At(<<"request", 0>>, c)' = RequestQue'
      /\ At(<<"query", 0>>, c)' = query' /\ At(<<"db", 0>>, c)' = DBResultQue'
      /\ At(<<"result", 0>>, c)' = ResultQue'
    BY DEF At
<1>4. \A t \in PacketThreads : At(<<"thread", t>>, c)' = thread'[t].packet
    BY DEF At
<1> QED
    BY <1>1, <1>2, <1>3, <1>4

LEMMA Unmoved ==
    ASSUME NEW c, NEW x \in Stations,
           x[1] = "ring" => ring'[c] = ring[c],
           x[1] = "request" => RequestQue' = RequestQue,
           x[1] = "query" => query' = query,
           x[1] = "db" => DBResultQue' = DBResultQue,
           x[1] = "result" => ResultQue' = ResultQue,
           \A t \in PacketThreads : x = <<"thread", t>> => thread'[t].packet = thread[t].packet
    PROVE  Where(c)'[x] = Where(c)[x]
<1>1. x[1] \notin {"ring", "request", "query", "db", "result"}
          => \E t \in PacketThreads : x = <<"thread", t>> /\ x[2] = t
    BY DEF Stations
<1>2. At(x, c)' = At(x, c)
    BY <1>1 DEF At
<1> QED
    BY <1>2, WhereNext

(* One who is not concerned waits as before. *)
LEMMA WaitsSame ==
    ASSUME NEW c, Waits(c), asks'[c] = asks[c],
           \A x \in Stations : Where(c)'[x] = Where(c)[x],
           OneAsk(ring'[c], c), OneAsk(RequestQue', c),
           OneAsk(DBResultQue', c), OneAsk(ResultQue', c)
    PROVE  Waits(c)'
<1>1. Single(Where(c)', asks'[c])
    BY Kept DEF Waits
<1> QED
    BY <1>1 DEF Waits, Single, OneAsk, IsAsk

LEMMA ChangedSame ==
    ASSUME NEW c, UNCHANGED ResultQue,
           \A t \in PacketThreads : \/ thread'[t] = thread[t]
                                    \/ thread[t].at # "answer" /\ thread'[t].at # "answer"
    PROVE  Changed(c)' = Changed(c)
BY DEF Changed, Asks, IsAsk

LEMMA FollowsSame ==
    ASSUME NEW c, Follows(c), Changed(c)' = Changed(c), Asks(login, c)' = Asks(login, c),
           CState'[c] = CState[c], UserName'[c] = UserName[c], answered'[c] = answered[c],
           success'[c] = success[c]
    PROVE  Follows(c)'
BY DEF Follows, Matches

LEMMA InitInv == Init => Inv
<1> SUFFICES ASSUME Init PROVE Inv
    OBVIOUS
<1>1. Types
  <2>1. \A c \in Clients : ring[c] = <<>> /\ Len(ring[c]) = 0
      BY DEF Init
  <2>2. 1 \in Nat /\ 0 \in 0 .. MaxConns /\ 0 \in 0 .. MaxAsks
      BY BoundsAssumption
  <2>3. Idle \in [at : {"idle", "handle", "answer"}, packet : Seq(Packet)]
      BY DEF Idle
  <2> QED
      BY <2>1, <2>2, <2>3 DEF Init, Types, ThreadShape
<1>2. ASSUME NEW c \in Clients PROVE Waits(c)
  <2>1. \A x \in Stations : At(x, c) = <<>>
      BY DEF Init, At, Stations, Idle
  <2>2. \A x \in Stations : Where(c)[x] = {}
      BY <2>1, NoAsks, WhereAt
  <2> QED
      BY <2>2, NoAsks DEF Init, Waits, Single
<1>3. ASSUME NEW c \in Clients PROVE Follows(c)
  <2>1. Changed(c) = {} /\ Asks(login, c) = {} /\ answered[c] = {}
      BY NoAsks DEF Init, Changed, Idle
  <2> QED
      BY <2>1 DEF Follows
<1> QED
    BY <1>1, <1>2, <1>3 DEF Inv

-----------------------------------------------------------------------------
(* What a request is, and where.                                            *)
LEMMA AskOf ==
    ASSUME Types
    PROVE  /\ \A kind : Of(kind) \subseteq Packet
           /\ \A p \in Packet : p.client \in Clients /\ p.name \in Names \cup {NoName}
           /\ \A p \in Of("login") : p.kind = "login" /\ IsAsk(p, p.client)
           /\ \A p \in Of("logout") : p.kind = "logout" /\ IsAsk(p, p.client)
BY DEF Of, Packet, IsAsk

(* A request moved from one place to another: by the time it gets there its *)
(* client's is nowhere else, and nothing is new to the others.              *)
LEMMA AskMoved ==
    ASSUME NEW c, Waits(c), NEW p, NEW x \in Stations, NEW y \in Stations, x # y,
           IsAsk(p, c) => p \in Where(c)[x] /\ Where(c)'[x] = {},
           ~IsAsk(p, c) => Where(c)'[x] = Where(c)[x],
           Where(c)'[y] = Where(c)[y] \cup (IF IsAsk(p, c) THEN {p} ELSE {}),
           \A z \in Stations : z # x /\ z # y => Where(c)'[z] = Where(c)[z],
           asks'[c] = asks[c]
    PROVE  /\ Single(Where(c)', asks'[c])
           /\ IsAsk(p, c) => Where(c)[y] = {}
<1>1. Single(Where(c), asks[c])
    BY DEF Waits
<1>2. CASE IsAsk(p, c)
  <2>1. /\ p \in Where(c)[x] /\ Where(c)'[x] = {} /\ Where(c)'[y] = Where(c)[y] \cup {p}
      BY <1>2
  <2>2. Single(Where(c)', asks[c]) /\ \A z \in Stations : z # x => Where(c)[z] = {}
      BY <1>1, <2>1, Moved
  <2> QED
      BY <2>2
<1>3. CASE ~IsAsk(p, c)
  <2>1. Where(c)'[y] = Where(c)[y] \cup {}
      BY <1>3
  <2>2. \A z \in Stations : Where(c)'[z] = Where(c)[z]
      BY <1>3, <2>1
  <2>3. Single(Where(c)', asks[c])
      BY <1>1, <2>2, Kept
  <2> QED
      BY <1>3, <2>3
<1> QED
    BY <1>2, <1>3

(* A request that is answered is the one that was waited for.               *)
LEMMA AskRemoved ==
    ASSUME NEW c, Waits(c), NEW p, IsAsk(p, c), NEW x \in Stations,
           p \in Where(c)[x], Where(c)'[x] = {},
           \A z \in Stations : z # x => Where(c)'[z] = Where(c)[z],
           asks'[c] = asks[c] \ {p}
    PROVE  /\ Single(Where(c)', asks'[c]) /\ asks[c] = {p} /\ asks'[c] = {}
           /\ \A z \in Stations : z # x => Where(c)[z] = {}
<1>1. Single(Where(c), asks[c])
    BY DEF Waits
<1>2. /\ Single(Where(c)', {}) /\ asks[c] = {p}
      /\ \A z \in Stations : z # x => Where(c)[z] = {}
    BY <1>1, Removed
<1> QED
    BY <1>2

(* What a thread is at next. *)
LEMMA ThreadNext ==
    ASSUME Types, NEW t \in PacketThreads, NEW s, thread' = [thread EXCEPT ![t] = s],
           \/ s = Idle
           \/ \E p \in Packet : \E a \in {"handle", "answer"} :
                  /\ s = [at |-> a, packet |-> <<p>>]
                  /\ a = "answer" => p.kind \in {"guest", "logout"}
    PROVE  /\ thread' \in [PacketThreads ->
                             [at : {"idle", "handle", "answer"}, packet : Seq(Packet)]]
           /\ \A u \in PacketThreads : ThreadShape(u)'
           /\ thread'[t] = s /\ \A u \in PacketThreads : u # t => thread'[u] = thread[u]
<1>1. s \in [at : {"idle", "handle", "answer"}, packet : Seq(Packet)]
  <2>1. CASE s = Idle
      BY <2>1 DEF Idle
  <2>2. ASSUME NEW p \in Packet, NEW a \in {"handle", "answer"},
               s = [at |-> a, packet |-> <<p>>]
        PROVE  s \in [at : {"idle", "handle", "answer"}, packet : Seq(Packet)]
    <3>1. <<p>> \in Seq(Packet)
        OBVIOUS
    <3> HIDE DEF Packet
    <3> QED
        BY <2>2, <3>1
  <2> QED
      BY <2>1, <2>2
<1>2. thread'[t] = s /\ \A u \in PacketThreads : u # t => thread'[u] = thread[u]
    BY DEF Types
<1>3. ThreadShape(t)'
    BY <1>2 DEF ThreadShape, Idle
<1>4. ASSUME NEW u \in PacketThreads, u # t PROVE ThreadShape(u)'
  <2>1. ThreadShape(u) /\ thread'[u] = thread[u]
      BY <1>2, <1>4 DEF Types
  <2> QED
      BY <2>1 DEF ThreadShape, Idle
<1> QED
    BY <1>1, <1>2, <1>3, <1>4 DEF Types

LEMMA OnLoginInv ==
    ASSUME Inv, NEW t \in PacketThreads, OnLogin(t)
    PROVE  Inv'
<1>1. PICK p \in Packet : thread[t].packet = <<p>> /\ p.kind = "login"
    BY DEF OnLogin, Handles, Inv, Types, ThreadShape, Idle
<1>2. p \in Of("login") /\ RequestQue \in Seq(Of("login"))
    BY <1>1 DEF Of, Inv, Types
<1>3. /\ RequestQue' = RequestQue \o <<p>> /\ thread' = [thread EXCEPT ![t] = Idle]
      /\ UNCHANGED <<sessionVars, ring, query, DBResultQue, QueryResults, login, ResultQue, connVars,
                     askVars, asked, overtaken>>
      /\ thread[t].at = "handle"
    BY <1>1 DEF OnLogin, Handles
<1>4. /\ thread' \in [PacketThreads ->
                        [at : {"idle", "handle", "answer"}, packet : Seq(Packet)]]
      /\ \A u \in PacketThreads : ThreadShape(u)'
      /\ thread'[t] = Idle /\ \A u \in PacketThreads : u # t => thread'[u] = thread[u]
  <2>1. Types
      BY DEF Inv
  <2> QED
      BY <1>3, <2>1, ThreadNext
<1>5. Types'
  <2>1. RequestQue' \in Seq(Of("login"))
      BY <1>2, <1>3, AsksAppend
  <2> QED
      BY <1>3, <1>4, <2>1 DEF Inv, Types, sessionVars, connVars, askVars
<1>6. ASSUME NEW c \in Clients \ mixed PROVE Waits(c)'
  <2>x. PICK x : x = <<"thread", t>>
      OBVIOUS
  <2>y. PICK y : y = <<"request", 0>>
      OBVIOUS
  <2>1. x \in Stations /\ y \in Stations /\ x # y
      BY <2>x, <2>y DEF Stations
  <2>2. Where(c)[x] = (IF IsAsk(p, c) THEN {p} ELSE {}) /\ Where(c)'[x] = {}
    <3>1. Where(c)[x] = Asks(thread[t].packet, c)
          /\ Where(c)'[x] = Asks(thread'[t].packet, c)
        BY <2>x, <2>y, WhereAt, WhereNext
    <3>2. thread'[t].packet = <<>>
        BY <1>4 DEF Idle
    <3> QED
        BY <1>1, <3>1, <3>2, AsksOfOne, NoAsks
  <2>3. /\ Where(c)'[y] = Where(c)[y] \cup (IF IsAsk(p, c) THEN {p} ELSE {})
        /\ Where(c)[y] = Asks(RequestQue, c)
      BY <1>2, <1>3, <2>x, <2>y, AsksAppend, WhereAt, WhereNext
  <2>4. ASSUME NEW z \in Stations, z # x, z # y PROVE Where(c)'[z] = Where(c)[z]
    <3>1. z[1] # "request"
        BY <2>x, <2>y, <2>4 DEF Stations
    <3> QED
        BY <1>3, <1>4, <2>x, <2>y, <2>4, <3>1, Unmoved
  <2>6. Waits(c) /\ asks'[c] = asks[c]
      BY <1>3 DEF Inv, askVars
  <2>7. /\ Single(Where(c)', asks'[c])
        /\ IsAsk(p, c) => Asks(RequestQue, c) = {}
    <3>1. IsAsk(p, c) => p \in Where(c)[x] /\ Where(c)'[x] = {}
        BY <2>2
    <3>2. ~IsAsk(p, c) => Where(c)'[x] = Where(c)[x]
        BY <2>2
    <3>3. Where(c)'[y] = Where(c)[y] \cup (IF IsAsk(p, c) THEN {p} ELSE {})
        BY <2>3
    <3>4. Single(Where(c)', asks'[c]) /\ (IsAsk(p, c) => Where(c)[y] = {})
        BY <2>1, <2>4, <2>6, <3>1, <3>2, <3>3, AskMoved
    <3> QED
        BY <2>3, <3>4
  <2>8. OneAsk(RequestQue', c)
      BY <1>2, <1>3, <2>6, <2>7, AsksAppend DEF Waits
  <2> QED
      BY <1>3, <2>6, <2>7, <2>8 DEF Waits, Single, OneAsk, IsAsk
<1>7. ASSUME NEW c \in Clients \ (mixed \cup overtaken) PROVE Follows(c)'
  <2>1. Changed(c)' = Changed(c)
      BY <1>3, <1>4, ChangedSame DEF Idle
  <2> QED
      BY <1>3, <2>1, FollowsSame DEF Inv, sessionVars, askVars
<1> QED
    BY <1>3, <1>5, <1>6, <1>7 DEF Inv, connVars

LEMMA PopRecvPacketInv ==
    ASSUME Inv, NEW t \in PacketThreads, NEW d \in Clients, PopRecvPacket(t, d)
    PROVE  Inv'
<1>1. /\ ring[d] \in Seq(Packet) /\ ring[d] # <<>> /\ thread[t].at = "idle"
      /\ thread' = [thread EXCEPT ![t] = [at |-> "handle", packet |-> <<Head(ring[d])>>]]
      /\ ring' = [ring EXCEPT ![d] = Tail(@)]
      /\ UNCHANGED <<sessionVars, dbVars, ResultQue, connVars, askVars, asked, overtaken>>
    BY DEF PopRecvPacket, Inv, Types
<1>2. thread[t] = Idle
    BY <1>1 DEF Inv, Types, ThreadShape, Idle
<1>3. PICK p \in Packet : p = Head(ring[d]) /\ p.client = d
  <2>1. Head(ring[d]) \in Packet /\ Head(ring[d]) = ring[d][1] /\ 1 \in 1 .. Len(ring[d])
      BY <1>1, HeadTailProperties
  <2> QED
      BY <2>1 DEF Inv, Types
<1>4. PICK s : s = [at |-> "handle", packet |-> <<p>>]
    OBVIOUS
<1>5. /\ thread' \in [PacketThreads ->
                        [at : {"idle", "handle", "answer"}, packet : Seq(Packet)]]
      /\ \A u \in PacketThreads : ThreadShape(u)'
      /\ thread'[t] = s /\ \A u \in PacketThreads : u # t => thread'[u] = thread[u]
  <2>1. Types /\ thread' = [thread EXCEPT ![t] = s]
      BY <1>1, <1>3, <1>4 DEF Inv
  <2> QED
      BY <1>4, <2>1, ThreadNext
<1>6. /\ ring'[d] = Tail(ring[d]) /\ ring'[d] \in Seq(Packet)
      /\ \A c \in Clients : c # d => ring'[c] = ring[c]
      /\ ring' \in [Clients -> Seq(Packet)]
      /\ \A i \in 1 .. Len(ring'[d]) : i + 1 \in 1 .. Len(ring[d])
                                       /\ ring'[d][i] = ring[d][i + 1]
  <2>1. PICK r \in Seq(Packet) : r = Tail(ring[d])
      BY <1>1, HeadTailProperties
  <2>2. /\ Len(ring[d]) \in Nat \ {0} /\ Len(r) = Len(ring[d]) - 1
        /\ \A i \in 1 .. Len(r) : r[i] = ring[d][i + 1]
      BY <1>1, <2>1, HeadTailProperties
  <2>3. ring'[d] = r /\ \A c \in Clients : c # d => ring'[c] = ring[c]
      BY <1>1, <2>1 DEF Inv, Types
  <2>4. \A i \in 1 .. Len(r) : i + 1 \in 1 .. Len(ring[d])
      BY <2>2
  <2>5. ring' \in [Clients -> Seq(Packet)]
      BY <1>1, <2>1 DEF Inv, Types
  <2> QED
      BY <2>1, <2>2, <2>3, <2>4, <2>5
<1>7. Types'
  <2>1. ASSUME NEW c \in Clients, NEW i \in 1 .. Len(ring'[c])
        PROVE  ring'[c][i].client = c
    <3>1. \A j \in 1 .. Len(ring[c]) : ring[c][j].client = c
        BY DEF Inv, Types
    <3>2. CASE c = d
        BY <1>6, <3>1, <3>2
    <3>3. CASE c # d
        BY <1>6, <3>1, <3>3
    <3> QED
        BY <3>2, <3>3
  <2> QED
      BY <1>1, <1>5, <1>6, <2>1 DEF Inv, Types, sessionVars, connVars, askVars, dbVars
<1>8. ASSUME NEW c \in Clients \ mixed PROVE Waits(c)'
  <2>x. PICK x : x = <<"ring", 0>>
      OBVIOUS
  <2>y. PICK y : y = <<"thread", t>>
      OBVIOUS
  <2>1. x \in Stations /\ y \in Stations /\ x # y
      BY <2>x, <2>y DEF Stations
  <2>2. Waits(c) /\ asks'[c] = asks[c]
      BY <1>1 DEF Inv, askVars
  <2>3. /\ IsAsk(p, c) => p \in Where(c)[x] /\ Where(c)'[x] = {}
        /\ ~IsAsk(p, c) => Where(c)'[x] = Where(c)[x]
        /\ OneAsk(ring'[c], c)
    <3>1. Where(c)[x] = Asks(ring[c], c) /\ Where(c)'[x] = Asks(ring'[c], c)
        BY <2>x, <2>y, WhereAt, WhereNext
    <3>2. OneAsk(ring[c], c)
        BY <2>2 DEF Waits
    <3>3. CASE c = d
        BY <1>1, <1>3, <1>6, <3>1, <3>2, <3>3, AsksTail
    <3>4. CASE c # d
      <4>1. ~IsAsk(p, c)
          BY <1>3, <3>4 DEF IsAsk
      <4> QED
          BY <1>6, <3>1, <3>2, <3>4, <4>1
    <3> QED
        BY <3>3, <3>4
  <2>4. Where(c)'[y] = Where(c)[y] \cup (IF IsAsk(p, c) THEN {p} ELSE {})
    <3>1. Where(c)[y] = Asks(thread[t].packet, c)
          /\ Where(c)'[y] = Asks(thread'[t].packet, c)
        BY <2>x, <2>y, WhereAt, WhereNext
    <3>2. thread[t].packet = <<>> /\ thread'[t].packet = <<p>>
        BY <1>2, <1>4, <1>5 DEF Idle
    <3>3. Where(c)[y] = {} /\ Where(c)'[y] = (IF IsAsk(p, c) THEN {p} ELSE {})
        BY <3>1, <3>2, AsksOfOne, NoAsks
    <3> QED
        BY <3>3
  <2>5. ASSUME NEW z \in Stations, z # x, z # y PROVE Where(c)'[z] = Where(c)[z]
    <3>1. z[1] # "ring"
        BY <2>x, <2>y, <2>5 DEF Stations
    <3> QED
        BY <1>1, <1>5, <2>x, <2>y, <2>5, <3>1, Unmoved DEF dbVars
  <2>6. Single(Where(c)', asks'[c])
      BY <2>1, <2>2, <2>3, <2>4, <2>5, AskMoved
  <2> QED
      BY <1>1, <2>2, <2>3, <2>6 DEF Waits, Single, OneAsk, IsAsk, dbVars
<1>9. ASSUME NEW c \in Clients \ (mixed \cup overtaken) PROVE Follows(c)'
  <2>1. thread[t].at # "answer" /\ thread'[t].at # "answer"
      BY <1>1, <1>4, <1>5
  <2>2. Changed(c)' = Changed(c)
      BY <1>1, <1>5, <2>1, ChangedSame
  <2> QED
      BY <1>1, <2>2, FollowsSame DEF Inv, sessionVars, askVars, dbVars
<1> QED
    BY <1>1, <1>7, <1>8, <1>9 DEF Inv, connVars

LEMMA PopQueryInv == Inv /\ PopQuery => Inv'
<1> SUFFICES ASSUME Inv, PopQuery PROVE Inv'
    OBVIOUS
<1>1. /\ RequestQue \in Seq(Of("login")) /\ RequestQue # <<>> /\ query = <<>>
      /\ query' = <<Head(RequestQue)>> /\ RequestQue' = Tail(RequestQue)
      /\ UNCHANGED <<sessionVars, ring, thread, DBResultQue, QueryResults, login, ResultQue, connVars,
                     askVars, asked, overtaken>>
    BY DEF PopQuery, Inv, Types
<1>2. PICK p \in Of("login") : p = Head(RequestQue)
    BY <1>1, HeadTailProperties
<1>3. query' = <<p>> /\ RequestQue' \in Seq(Of("login"))
    BY <1>1, <1>2, HeadTailProperties
<1>4. Types'
  <2>1. \A t \in PacketThreads : ThreadShape(t)'
      BY <1>1 DEF Inv, Types, ThreadShape
  <2> QED
      BY <1>1, <1>3, <2>1 DEF Inv, Types, sessionVars, connVars, askVars
<1>5. ASSUME NEW c \in Clients \ mixed PROVE Waits(c)'
  <2>x. PICK x : x = <<"request", 0>>
      OBVIOUS
  <2>y. PICK y : y = <<"query", 0>>
      OBVIOUS
  <2>1. x \in Stations /\ y \in Stations /\ x # y
      BY <2>x, <2>y DEF Stations
  <2>2. Waits(c) /\ asks'[c] = asks[c]
      BY <1>1 DEF Inv, askVars
  <2>3. /\ IsAsk(p, c) => p \in Where(c)[x] /\ Where(c)'[x] = {}
        /\ ~IsAsk(p, c) => Where(c)'[x] = Where(c)[x]
        /\ OneAsk(RequestQue', c)
    <3>1. Where(c)[x] = Asks(RequestQue, c) /\ Where(c)'[x] = Asks(RequestQue', c)
        BY <2>x, <2>y, WhereAt, WhereNext
    <3>2. OneAsk(RequestQue, c)
        BY <2>2 DEF Waits
    <3> QED
        BY <1>1, <1>2, <3>1, <3>2, AsksTail
  <2>4. Where(c)'[y] = Where(c)[y] \cup (IF IsAsk(p, c) THEN {p} ELSE {})
    <3>1. Where(c)[y] = Asks(query, c) /\ Where(c)'[y] = Asks(query', c)
        BY <2>x, <2>y, WhereAt, WhereNext
    <3>2. Where(c)[y] = {} /\ Where(c)'[y] = (IF IsAsk(p, c) THEN {p} ELSE {})
        BY <1>1, <1>3, <3>1, AsksOfOne, NoAsks
    <3> QED
        BY <3>2
  <2>5. ASSUME NEW z \in Stations, z # x, z # y PROVE Where(c)'[z] = Where(c)[z]
    <3>1. z[1] # "request" /\ z[1] # "query"
        BY <2>x, <2>y, <2>5 DEF Stations
    <3> QED
        BY <1>1, <2>x, <2>y, <3>1, Unmoved
  <2>6. Single(Where(c)', asks'[c])
      BY <2>1, <2>2, <2>3, <2>4, <2>5, AskMoved
  <2> QED
      BY <1>1, <2>2, <2>3, <2>6 DEF Waits, Single, OneAsk, IsAsk
<1>6. ASSUME NEW c \in Clients \ (mixed \cup overtaken) PROVE Follows(c)'
  <2>1. Changed(c)' = Changed(c)
      BY <1>1, ChangedSame
  <2> QED
      BY <1>1, <2>1, FollowsSame DEF Inv, sessionVars, askVars
<1> QED
    BY <1>1, <1>4, <1>5, <1>6 DEF Inv, connVars

LEMMA SetDBResultInv == Inv /\ SetDBResult => Inv'
<1> SUFFICES ASSUME Inv, SetDBResult PROVE Inv'
    OBVIOUS
<1>1. PICK p \in Of("login") : query = <<p>>
    BY DEF SetDBResult, Inv, Types
<1>2. /\ DBResultQue \in Seq(Of("login"))
      /\ query' = <<>> /\ DBResultQue' = DBResultQue \o <<p>>
      /\ UNCHANGED <<sessionVars, ring, thread, RequestQue, login, ResultQue, connVars,
                     askVars, asked, overtaken>>
    BY <1>1 DEF SetDBResult, Inv, Types
<1>3. DBResultQue' \in Seq(Of("login"))
    BY <1>2, AsksAppend
<1>4. Types'
  <2>1. \A t \in PacketThreads : ThreadShape(t)'
      BY <1>2 DEF Inv, Types, ThreadShape
  <2>2. QueryResults' \in Seq(BOOLEAN) /\ Len(QueryResults') = Len(DBResultQue')
    <3>1. PICK v \in BOOLEAN : QueryResults' = Append(QueryResults, v)
        BY DEF SetDBResult
    <3>2. QueryResults \in Seq(BOOLEAN) /\ Len(QueryResults) = Len(DBResultQue)
        BY DEF Inv, Types
    <3>3. QueryResults' \in Seq(BOOLEAN) /\ Len(QueryResults') = Len(QueryResults) + 1
        BY <3>1, <3>2, AppendProperties
    <3>4. DBResultQue' = Append(DBResultQue, p)
        BY <1>2, AppendIsConcat
    <3>5. Len(DBResultQue') = Len(DBResultQue) + 1
        BY <1>2, <3>4, AppendProperties
    <3> QED
        BY <3>2, <3>3, <3>5
  <2> QED
      BY <1>2, <1>3, <2>1, <2>2 DEF Inv, Types, sessionVars, connVars, askVars
<1>5. ASSUME NEW c \in Clients \ mixed PROVE Waits(c)'
  <2>x. PICK x : x = <<"query", 0>>
      OBVIOUS
  <2>y. PICK y : y = <<"db", 0>>
      OBVIOUS
  <2>1. x \in Stations /\ y \in Stations /\ x # y
      BY <2>x, <2>y DEF Stations
  <2>2. Waits(c) /\ asks'[c] = asks[c]
      BY <1>2 DEF Inv, askVars
  <2>3. /\ IsAsk(p, c) => p \in Where(c)[x] /\ Where(c)'[x] = {}
        /\ ~IsAsk(p, c) => Where(c)'[x] = Where(c)[x]
    <3>1. Where(c)[x] = Asks(query, c) /\ Where(c)'[x] = Asks(query', c)
        BY <2>x, <2>y, WhereAt, WhereNext
    <3> QED
        BY <1>1, <1>2, <3>1, AsksOfOne, NoAsks
  <2>4. /\ Where(c)'[y] = Where(c)[y] \cup (IF IsAsk(p, c) THEN {p} ELSE {})
        /\ Where(c)[y] = Asks(DBResultQue, c)
      BY <1>2, <2>x, <2>y, AsksAppend, WhereAt, WhereNext
  <2>5. ASSUME NEW z \in Stations, z # x, z # y PROVE Where(c)'[z] = Where(c)[z]
    <3>1. z[1] # "db" /\ z[1] # "query"
        BY <2>x, <2>y, <2>5 DEF Stations
    <3> QED
        BY <1>2, <2>x, <2>y, <3>1, Unmoved
  <2>6. /\ Single(Where(c)', asks'[c])
        /\ IsAsk(p, c) => Asks(DBResultQue, c) = {}
    <3>1. Single(Where(c)', asks'[c]) /\ (IsAsk(p, c) => Where(c)[y] = {})
        BY <2>1, <2>2, <2>3, <2>4, <2>5, AskMoved
    <3> QED
        BY <2>4, <3>1
  <2>7. OneAsk(DBResultQue', c)
      BY <1>2, <2>2, <2>6, AsksAppend DEF Waits
  <2> QED
      BY <1>2, <2>2, <2>6, <2>7 DEF Waits, Single, OneAsk, IsAsk
<1>6. ASSUME NEW c \in Clients \ (mixed \cup overtaken) PROVE Follows(c)'
  <2>1. Changed(c)' = Changed(c)
      BY <1>2, ChangedSame
  <2> QED
      BY <1>2, <2>1, FollowsSame DEF Inv, sessionVars, askVars
<1> QED
    BY <1>2, <1>4, <1>5, <1>6 DEF Inv, connVars

LEMMA PushLogoutResultInv ==
    ASSUME Inv, NEW t \in PacketThreads, PushLogoutResult(t)
    PROVE  Inv'
<1>1. PICK p \in Packet : thread[t].packet = <<p>> /\ p.kind = "logout"
    BY DEF PushLogoutResult, Inv, Types, ThreadShape, Idle
<1>2. p \in Of("logout") /\ ResultQue \in Seq(Of("logout"))
    BY <1>1 DEF Of, Inv, Types
<1>3. /\ ResultQue' = ResultQue \o <<p>> /\ thread' = [thread EXCEPT ![t] = Idle]
      /\ UNCHANGED <<sessionVars, ring, dbVars, connVars, askVars, asked, overtaken>>
      /\ thread[t].at = "answer"
    BY <1>1 DEF PushLogoutResult
<1>4. /\ thread' \in [PacketThreads ->
                        [at : {"idle", "handle", "answer"}, packet : Seq(Packet)]]
      /\ \A u \in PacketThreads : ThreadShape(u)'
      /\ thread'[t] = Idle /\ \A u \in PacketThreads : u # t => thread'[u] = thread[u]
  <2>1. Types
      BY DEF Inv
  <2> QED
      BY <1>3, <2>1, ThreadNext
<1>5. Types'
  <2>1. ResultQue' \in Seq(Of("logout"))
      BY <1>2, <1>3, AsksAppend
  <2> QED
      BY <1>3, <1>4, <2>1 DEF Inv, Types, sessionVars, connVars, askVars, dbVars
<1>6. ASSUME NEW c \in Clients
      PROVE  Asks(ResultQue', c) = Asks(ResultQue, c) \cup (IF IsAsk(p, c) THEN {p} ELSE {})
    BY <1>2, <1>3, AsksAppend
<1>7. ASSUME NEW c \in Clients \ mixed PROVE Waits(c)'
  <2>x. PICK x : x = <<"thread", t>>
      OBVIOUS
  <2>y. PICK y : y = <<"result", 0>>
      OBVIOUS
  <2>1. x \in Stations /\ y \in Stations /\ x # y
      BY <2>x, <2>y DEF Stations
  <2>2. Waits(c) /\ asks'[c] = asks[c]
      BY <1>3 DEF Inv, askVars
  <2>3. /\ IsAsk(p, c) => p \in Where(c)[x] /\ Where(c)'[x] = {}
        /\ ~IsAsk(p, c) => Where(c)'[x] = Where(c)[x]
    <3>1. Where(c)[x] = Asks(thread[t].packet, c)
          /\ Where(c)'[x] = Asks(thread'[t].packet, c)
        BY <2>x, <2>y, WhereAt, WhereNext
    <3>2. thread'[t].packet = <<>>
        BY <1>4 DEF Idle
    <3> QED
        BY <1>1, <3>1, <3>2, AsksOfOne, NoAsks
  <2>4. /\ Where(c)'[y] = Where(c)[y] \cup (IF IsAsk(p, c) THEN {p} ELSE {})
        /\ Where(c)[y] = Asks(ResultQue, c)
      BY <1>6, <2>x, <2>y, WhereAt, WhereNext
  <2>5. ASSUME NEW z \in Stations, z # x, z # y PROVE Where(c)'[z] = Where(c)[z]
    <3>1. z[1] # "result"
        BY <2>x, <2>y, <2>5 DEF Stations
    <3> QED
        BY <1>3, <1>4, <2>x, <2>y, <2>5, <3>1, Unmoved DEF dbVars
  <2>6. /\ Single(Where(c)', asks'[c])
        /\ IsAsk(p, c) => Asks(ResultQue, c) = {}
    <3>1. Single(Where(c)', asks'[c]) /\ (IsAsk(p, c) => Where(c)[y] = {})
        BY <2>1, <2>2, <2>3, <2>4, <2>5, AskMoved
    <3> QED
        BY <2>4, <3>1
  <2>7. OneAsk(ResultQue', c)
      BY <1>2, <1>3, <2>2, <2>6, AsksAppend DEF Waits
  <2> QED
      BY <1>3, <2>2, <2>6, <2>7 DEF Waits, Single, OneAsk, IsAsk, dbVars
<1>8. ASSUME NEW c \in Clients \ (mixed \cup overtaken) PROVE Follows(c)'
  <2>1. Changed(c)' = Changed(c)
    <3>1. \A u \in PacketThreads :
              Asks(thread[u].packet, c)
                  = IF u = t THEN IF IsAsk(p, c) THEN {p} ELSE {}
                             ELSE Asks(thread'[u].packet, c)
        BY <1>1, <1>4, AsksOfOne
    <3>2. /\ thread'[t].at # "answer" /\ thread[t].at = "answer"
          /\ \A u \in PacketThreads : u # t => thread'[u].at = thread[u].at
        BY <1>3, <1>4 DEF Idle
    <3>3. Changed(c)' \subseteq Changed(c)
        BY <1>6, <3>1, <3>2 DEF Changed
    <3>4. Changed(c) \subseteq Changed(c)'
        BY <1>6, <3>1, <3>2 DEF Changed
    <3> QED
        BY <3>3, <3>4
  <2> QED
      BY <1>3, <2>1, FollowsSame DEF Inv, sessionVars, askVars, dbVars
<1> QED
    BY <1>3, <1>5, <1>7, <1>8 DEF Inv, connVars

(* A packet reaches the ring of its client. *)
LEMMA RingNext ==
    ASSUME Types, NEW d \in Clients, NEW p \in Packet, p.client = d,
           ring' = [ring EXCEPT ![d] = Append(@, p)]
    PROVE  /\ ring' \in [Clients -> Seq(Packet)]
           /\ \A c \in Clients : \A i \in 1 .. Len(ring'[c]) : ring'[c][i].client = c
           /\ \A c \in Clients :
                /\ Asks(ring'[c], c)
                       = Asks(ring[c], c) \cup (IF IsAsk(p, c) THEN {p} ELSE {})
                /\ OneAsk(ring[c], c) /\ (IsAsk(p, c) => Asks(ring[c], c) = {})
                       => OneAsk(ring'[c], c)
<1>1. ring[d] \in Seq(Packet) /\ ring'[d] = Append(ring[d], p)
      /\ \A c \in Clients : c # d => ring'[c] = ring[c]
    BY DEF Types
<1>2. ring'[d] = ring[d] \o <<p>>
    BY <1>1, AppendIsConcat
<1>3. ring' \in [Clients -> Seq(Packet)]
    BY <1>1 DEF Types
<1>4. ASSUME NEW c \in Clients
      PROVE  /\ \A i \in 1 .. Len(ring'[c]) : ring'[c][i].client = c
             /\ Asks(ring'[c], c)
                    = Asks(ring[c], c) \cup (IF IsAsk(p, c) THEN {p} ELSE {})
             /\ OneAsk(ring[c], c) /\ (IsAsk(p, c) => Asks(ring[c], c) = {})
                    => OneAsk(ring'[c], c)
  <2>1. \A i \in 1 .. Len(ring[c]) : ring[c][i].client = c
      BY DEF Types
  <2>2. CASE c = d
      BY <1>1, <1>2, <2>1, <2>2, AsksAppend
  <2>3. CASE c # d
    <3>1. ring'[c] = ring[c] /\ ~IsAsk(p, c)
        BY <1>1, <2>3 DEF IsAsk
    <3> QED
        BY <2>1, <3>1
  <2> QED
      BY <2>2, <2>3
<1> QED
    BY <1>3, <1>4

LEMMA ServerOnConnectInv ==
    ASSUME Inv, NEW d \in Clients, ServerOnConnect(d)
    PROVE  Inv'
<1>1. PICK p : p = [client |-> d, kind |-> "connect", name |-> NoName, conn |-> conn[d]]
    OBVIOUS
<1>2. /\ ~greeted[d] /\ greeted' = [greeted EXCEPT ![d] = TRUE]
      /\ ring' = [ring EXCEPT ![d] = Append(@, p)]
      /\ UNCHANGED <<sessionVars, thread, dbVars, ResultQue, conn, mixed, askVars, asked,
                     overtaken>>
    BY <1>1 DEF ServerOnConnect
<1>3. p \in Packet /\ p.client = d /\ \A c : ~IsAsk(p, c)
  <2>1. conn[d] \in 1 .. MaxConns
      BY <1>2, BoundsAssumption DEF Inv, Types
  <2> QED
      BY <1>1, <2>1 DEF Packet, IsAsk
<1>4. /\ ring' \in [Clients -> Seq(Packet)]
      /\ \A c \in Clients : \A i \in 1 .. Len(ring'[c]) : ring'[c][i].client = c
      /\ \A c \in Clients : Asks(ring'[c], c) = Asks(ring[c], c)
                            /\ (OneAsk(ring[c], c) => OneAsk(ring'[c], c))
  <2>1. /\ ring' \in [Clients -> Seq(Packet)]
        /\ \A c \in Clients : \A i \in 1 .. Len(ring'[c]) : ring'[c][i].client = c
        /\ \A c \in Clients :
             /\ Asks(ring'[c], c) = Asks(ring[c], c) \cup (IF IsAsk(p, c) THEN {p} ELSE {})
             /\ OneAsk(ring[c], c) /\ (IsAsk(p, c) => Asks(ring[c], c) = {})
                    => OneAsk(ring'[c], c)
      BY <1>2, <1>3, RingNext DEF Inv
  <2>2. \A c \in Clients : Asks(ring'[c], c) = Asks(ring[c], c) \cup {}
      BY <1>3, <2>1
  <2> QED
      BY <1>3, <2>1, <2>2
<1>5. Types'
  <2>1. \A t \in PacketThreads : ThreadShape(t)'
      BY <1>2 DEF Inv, Types, ThreadShape
  <2>2. greeted' \in [Clients -> BOOLEAN]
        /\ \A c \in Clients : greeted'[c] \/ conn'[c] > 0
      BY <1>2 DEF Inv, Types
  <2> QED
      BY <1>2, <1>4, <2>1, <2>2 DEF Inv, Types, sessionVars, askVars, dbVars
<1>6. ASSUME NEW c \in Clients \ mixed PROVE Waits(c)'
  <2>1. Waits(c) /\ asks'[c] = asks[c]
      BY <1>2 DEF Inv, askVars
  <2>2. ASSUME NEW z \in Stations PROVE Where(c)'[z] = Where(c)[z]
    <3>1. CASE z[1] = "ring"
      <4>1. z = <<"ring", 0>>
          BY <3>1 DEF Stations
      <4> QED
          BY <1>4, <4>1, WhereAt, WhereNext
    <3>2. CASE z[1] # "ring"
        BY <1>2, <3>2, Unmoved DEF dbVars
    <3> QED
        BY <3>1, <3>2
  <2>3. OneAsk(ring'[c], c)
      BY <1>4, <2>1 DEF Waits
  <2>4. /\ OneAsk(RequestQue', c) /\ OneAsk(DBResultQue', c) /\ OneAsk(ResultQue', c)
      BY <1>2, <2>1 DEF Waits, dbVars
  <2> QED
      BY <2>1, <2>2, <2>3, <2>4, WaitsSame
<1>7. ASSUME NEW c \in Clients \ (mixed \cup overtaken) PROVE Follows(c)'
  <2>1. Changed(c)' = Changed(c)
      BY <1>2, ChangedSame
  <2> QED
      BY <1>2, <2>1, FollowsSame DEF Inv, sessionVars, askVars, dbVars
<1> QED
    BY <1>2, <1>5, <1>6, <1>7 DEF Inv

LEMMA AskInv ==
    ASSUME Inv, NEW d \in Clients, Ask(d)
    PROVE  Inv'
<1>1. PICK kind \in Kinds, name \in Names :
          LET p == [client |-> d, kind |-> kind, conn |-> conn[d],
                    name |-> IF kind = "logout" THEN NoName ELSE name]
          IN  /\ ring' = [ring EXCEPT ![d] = Append(@, p)]
              /\ asks' = [asks EXCEPT ![d] = {p}]
    BY DEF Ask
<1>2. PICK p : p = [client |-> d, kind |-> kind, conn |-> conn[d],
                    name |-> IF kind = "logout" THEN NoName ELSE name]
    OBVIOUS
<1>3. /\ conn[d] > 0 /\ asks[d] = {} /\ asked < MaxAsks /\ asked' = asked + 1
      /\ ring' = [ring EXCEPT ![d] = Append(@, p)] /\ asks' = [asks EXCEPT ![d] = {p}]
      /\ UNCHANGED <<sessionVars, thread, dbVars, ResultQue, connVars, answered, success,
                     overtaken>>
    BY <1>1, <1>2 DEF Ask
<1>4. p \in Packet /\ p.client = d /\ IsAsk(p, d)
  <2>1. conn[d] \in 1 .. MaxConns
      BY <1>3, BoundsAssumption DEF Inv, Types
  <2> QED
      BY <1>2, <2>1 DEF Packet, IsAsk, Kinds
<1>5. /\ ring' \in [Clients -> Seq(Packet)]
      /\ \A c \in Clients : \A i \in 1 .. Len(ring'[c]) : ring'[c][i].client = c
      /\ \A c \in Clients :
           /\ Asks(ring'[c], c) = Asks(ring[c], c) \cup (IF IsAsk(p, c) THEN {p} ELSE {})
           /\ OneAsk(ring[c], c) /\ (IsAsk(p, c) => Asks(ring[c], c) = {})
                  => OneAsk(ring'[c], c)
    BY <1>3, <1>4, RingNext DEF Inv
<1>6. asks' \in [Clients -> SUBSET Packet] /\ asks'[d] = {p}
      /\ \A c \in Clients : c # d => asks'[c] = asks[c]
    BY <1>3, <1>4 DEF Inv, Types
<1>7. Types'
  <2>1. \A t \in PacketThreads : ThreadShape(t)'
      BY <1>3 DEF Inv, Types, ThreadShape
  <2>2. asked' \in 0 .. MaxAsks
      BY <1>3, BoundsAssumption DEF Inv, Types
  <2> QED
      BY <1>3, <1>5, <1>6, <2>1, <2>2 DEF Inv, Types, sessionVars, connVars, dbVars
<1>8. ASSUME NEW c \in Clients \ mixed PROVE Waits(c)'
  <2>x. PICK x : x = <<"ring", 0>>
      OBVIOUS
  <2>1. x \in Stations
      BY <2>x DEF Stations
  <2>2. Waits(c)
      BY DEF Inv
  <2>3. Where(c)[x] = Asks(ring[c], c) /\ Where(c)'[x] = Asks(ring'[c], c)
      BY <2>x, WhereAt, WhereNext
  <2>4. ASSUME NEW z \in Stations, z # x PROVE Where(c)'[z] = Where(c)[z]
    <3>1. z[1] # "ring"
        BY <2>x, <2>4 DEF Stations
    <3> QED
        BY <1>3, <2>x, <3>1, Unmoved DEF dbVars
  <2>5. OneAsk(RequestQue', c) /\ OneAsk(DBResultQue', c) /\ OneAsk(ResultQue', c)
      BY <1>3, <2>2 DEF Waits, dbVars
  <2>6. CASE c = d
    <3>1. Single(Where(c), {})
        BY <1>3, <2>2, <2>6 DEF Waits
    <3>2. Asks(ring[c], c) = {}
        BY <2>1, <2>3, <3>1 DEF Single
    <3>3. OneAsk(ring'[c], c)
        BY <1>5, <2>2, <3>2 DEF Waits
    <3>4. Where(c)'[x] = Where(c)[x] \cup {p}
        BY <1>4, <1>5, <2>3, <2>6
    <3>5. Single(Where(c)', {p})
        BY <2>1, <2>4, <3>1, <3>4, Created
    <3> QED
        BY <1>6, <2>5, <2>6, <3>3, <3>5 DEF Waits, Single, OneAsk, IsAsk
  <2>7. CASE c # d
    <3>1. ring'[c] = ring[c] /\ asks'[c] = asks[c]
        BY <1>3, <1>6, <2>7 DEF Inv, Types
    <3>2. \A z \in Stations : Where(c)'[z] = Where(c)[z]
        BY <2>3, <2>4, <3>1
    <3> QED
        BY <2>2, <2>5, <3>1, <3>2, WaitsSame DEF Waits
  <2> QED
      BY <2>6, <2>7
<1>9. ASSUME NEW c \in Clients \ (mixed \cup overtaken) PROVE Follows(c)'
  <2>1. Changed(c)' = Changed(c)
      BY <1>3, ChangedSame
  <2> QED
      BY <1>3, <2>1, FollowsSame DEF Inv, sessionVars, dbVars
<1> QED
    BY <1>3, <1>7, <1>8, <1>9 DEF Inv, connVars

LEMMA AllPackets ==
    ASSUME Types
    PROVE  /\ RequestQue \in Seq(Packet) /\ query \in Seq(Packet) /\ login \in Seq(Packet)
           /\ DBResultQue \in Seq(Packet) /\ ResultQue \in Seq(Packet)
           /\ \A c \in Clients : ring[c] \in Seq(Packet)
           /\ \A t \in PacketThreads : thread[t].packet \in Seq(Packet)
<1>1. Of("login") \subseteq Packet /\ Of("logout") \subseteq Packet
    BY DEF Of
<1>2. \A p \in Packet : <<p>> \in Seq(Packet)
    OBVIOUS
<1>3. ASSUME NEW q, q = <<>> \/ \E p \in Of("login") : q = <<p>>
      PROVE  q \in Seq(Packet)
  <2>1. CASE q = <<>>
      BY <2>1
  <2>2. ASSUME NEW p \in Of("login"), q = <<p>> PROVE q \in Seq(Packet)
      BY <1>1, <1>2, <2>2
  <2> QED
      BY <1>3, <2>1, <2>2
<1>4. query \in Seq(Packet) /\ login \in Seq(Packet)
    BY <1>3 DEF Types
<1>5. RequestQue \in Seq(Packet) /\ DBResultQue \in Seq(Packet) /\ ResultQue \in Seq(Packet)
    BY <1>1 DEF Types
<1>6. /\ \A c \in Clients : ring[c] \in Seq(Packet)
      /\ \A t \in PacketThreads : thread[t].packet \in Seq(Packet)
    BY DEF Types
<1> QED
    BY <1>4, <1>5, <1>6

(* With nothing of its slot under way, a new connection starts from nothing.*)
LEMMA NothingUnderWay ==
    ASSUME Types, NEW c \in Clients, Unanswered(c) = {}
    PROVE  /\ \A x \in Stations : Where(c)[x] = {}
           /\ Changed(c) = {}
           /\ \A t \in PacketThreads : Asks(thread[t].packet, c) = {}
<1>1. ASSUME NEW q \in Seq(Packet), ToSet(q) \subseteq ToSet(ring[c]) \cup Held \cup Queued
      PROVE  Asks(q, c) = {}
  <2>1. \A i \in 1 .. Len(q) : q[i].client # c
      BY <1>1 DEF Unanswered, ToSet
  <2> QED
      BY <2>1 DEF Asks, IsAsk
<1>2. /\ ring[c] \in Seq(Packet) /\ RequestQue \in Seq(Packet) /\ query \in Seq(Packet)
      /\ DBResultQue \in Seq(Packet) /\ ResultQue \in Seq(Packet)
      /\ \A t \in PacketThreads : thread[t].packet \in Seq(Packet)
    BY AllPackets
<1>3. /\ ToSet(RequestQue) \subseteq Queued /\ ToSet(query) \subseteq Queued
      /\ ToSet(DBResultQue) \subseteq Queued /\ ToSet(ResultQue) \subseteq Queued
    BY DEF Queued
<1>4. \A t \in PacketThreads : ToSet(thread[t].packet) \subseteq Held
    BY DEF Held
<1>5. /\ Asks(ring[c], c) = {} /\ Asks(RequestQue, c) = {} /\ Asks(query, c) = {}
      /\ Asks(DBResultQue, c) = {} /\ Asks(ResultQue, c) = {}
  <2>1. Asks(ring[c], c) = {}
      BY <1>1, <1>2
  <2>2. Asks(RequestQue, c) = {} /\ Asks(query, c) = {}
      BY <1>1, <1>2, <1>3
  <2>3. Asks(DBResultQue, c) = {} /\ Asks(ResultQue, c) = {}
      BY <1>1, <1>2, <1>3
  <2> QED
      BY <2>1, <2>2, <2>3
<1>6. \A t \in PacketThreads : Asks(thread[t].packet, c) = {}
    BY <1>1, <1>2, <1>4
<1>7. ASSUME NEW x \in Stations PROVE Where(c)[x] = {}
  <2>1. x = <<"ring", 0>> \/ x = <<"request", 0>> \/ x = <<"query", 0>>
        \/ x = <<"db", 0>> \/ x = <<"result", 0>>
        \/ \E t \in PacketThreads : x = <<"thread", t>>
      BY DEF Stations
  <2> QED
      BY <1>5, <1>6, <2>1, WhereAt
<1>8. Changed(c) = {}
    BY <1>5, <1>6 DEF Changed
<1> QED
    BY <1>6, <1>7, <1>8

LEMMA AcceptedInv ==
    ASSUME Inv, NEW d \in Clients, Accepted(d)
    PROVE  Inv'
<1>1. /\ conn[d] < (IF d = Slot0 THEN MaxConns ELSE 1)
      /\ conn' = [conn EXCEPT ![d] = @ + 1] /\ greeted' = [greeted EXCEPT ![d] = FALSE]
      /\ asks' = [asks EXCEPT ![d] = {}] /\ answered' = [answered EXCEPT ![d] = {}]
      /\ success' = [success EXCEPT ![d] = TRUE]
      /\ UNCHANGED <<sessionVars, ring, thread, dbVars, ResultQue, asked, overtaken>>
    BY DEF Accepted
<1>2. mixed' = mixed \cup {p.client : p \in Unanswered(d)
                                            \cup {q \in ToSet(login) : q.client = d}}
    BY DEF Accepted
<1>3. mixed \subseteq mixed' /\ mixed' \subseteq mixed \cup {d}
    BY <1>2 DEF Unanswered
<1>4. d \notin mixed' => Unanswered(d) = {} /\ \A q \in ToSet(login) : q.client # d
    BY <1>2 DEF Unanswered
<1>5. /\ asks'[d] = {} /\ answered'[d] = {}
      /\ \A c \in Clients : c # d => /\ asks'[c] = asks[c] /\ answered'[c] = answered[c]
                                    /\ success'[c] = success[c]
    BY <1>1 DEF Inv, Types
<1>6. Types'
  <2>1. \A t \in PacketThreads : ThreadShape(t)'
      BY <1>1 DEF Inv, Types, ThreadShape
  <2>2. conn[d] \in 0 .. MaxConns /\ conn[d] + 1 \in 0 .. MaxConns /\ conn[d] + 1 > 0
      BY <1>1, BoundsAssumption DEF Inv, Types
  <2>3. conn' \in [Clients -> 0 .. MaxConns] /\ greeted' \in [Clients -> BOOLEAN]
        /\ \A c \in Clients : greeted'[c] \/ conn'[c] > 0
      BY <1>1, <2>2 DEF Inv, Types
  <2>4. asks' \in [Clients -> SUBSET Packet] /\ answered' \in [Clients -> SUBSET Packet]
        /\ success' \in [Clients -> BOOLEAN]
      BY <1>1 DEF Inv, Types
  <2> QED
      BY <1>1, <1>3, <2>1, <2>3, <2>4 DEF Inv, Types, sessionVars, dbVars
<1>7. ASSUME NEW c \in Clients \ mixed' PROVE Waits(c)'
  <2>1. Waits(c)
      BY <1>3 DEF Inv
  <2>2. \A z \in Stations : Where(c)'[z] = Where(c)[z]
      BY <1>1, Unmoved DEF dbVars
  <2>3. OneAsk(ring'[c], c) /\ OneAsk(RequestQue', c)
        /\ OneAsk(DBResultQue', c) /\ OneAsk(ResultQue', c)
      BY <1>1, <2>1 DEF Waits, dbVars
  <2>4. asks'[c] = asks[c]
    <3>1. CASE c = d
      <4>1. Where(c)[<<"ring", 0>>] = {} /\ \A x \in Stations : Where(c)[x] = {}
          BY <1>4, <3>1, NothingUnderWay, WhereAt DEF Inv, Stations
      <4>2. asks[c] = {}
          BY <2>1, <4>1 DEF Waits, Single
      <4> QED
          BY <1>5, <3>1, <4>2
    <3> QED
        BY <1>5, <3>1
  <2> QED
      BY <2>1, <2>2, <2>3, <2>4, WaitsSame
<1>8. ASSUME NEW c \in Clients \ (mixed' \cup overtaken') PROVE Follows(c)'
  <2>1. Changed(c)' = Changed(c) /\ Follows(c)
      BY <1>1, <1>3, ChangedSame DEF Inv
  <2>2. CASE c # d
      BY <1>1, <1>5, <2>1, <2>2, FollowsSame DEF sessionVars, dbVars
  <2>3. CASE c = d
    <3>1. Changed(c)' = {}
        BY <1>4, <2>1, <2>3, NothingUnderWay DEF Inv
    <3>2. Asks(login', c) = {}
      <4>1. \A i \in 1 .. Len(login) : login[i].client # c
          BY <1>4, <2>3 DEF ToSet
      <4> QED
          BY <1>1, <4>1 DEF Asks, IsAsk, dbVars
    <3> QED
        BY <1>5, <2>3, <3>1, <3>2 DEF Follows, Asks, IsAsk
  <2> QED
      BY <2>2, <2>3
<1> QED
    BY <1>6, <1>7, <1>8 DEF Inv

LEMMA OnConnectInv ==
    ASSUME Inv, NEW t \in PacketThreads, OnConnect(t)
    PROVE  Inv'
<1>1. PICK p \in Packet : thread[t].packet = <<p>> /\ p.kind = "connect"
    BY DEF OnConnect, Handles, Inv, Types, ThreadShape, Idle
<1>2. PICK d \in Clients : d = p.client
    BY DEF Packet
<1>3. /\ CState' = [CState EXCEPT ![d] = "CONNECTED"]
      /\ overtaken' = (IF asks[d] \cup answered[d] = {} THEN overtaken
                       ELSE overtaken \cup {d})
      /\ thread' = [thread EXCEPT ![t] = Idle]
      /\ UNCHANGED <<UserName, ring, dbVars, ResultQue, connVars, askVars, asked>>
      /\ thread[t].at = "handle"
    BY <1>1, <1>2 DEF OnConnect, Handles
<1>4. /\ thread' \in [PacketThreads ->
                        [at : {"idle", "handle", "answer"}, packet : Seq(Packet)]]
      /\ \A u \in PacketThreads : ThreadShape(u)'
      /\ thread'[t] = Idle /\ \A u \in PacketThreads : u # t => thread'[u] = thread[u]
  <2>1. Types
      BY DEF Inv
  <2> QED
      BY <1>3, <2>1, ThreadNext
<1>5. Types'
  <2>1. CState' \in [Clients -> {"NONE", "CONNECTED", "LOGIN"}]
      BY <1>3 DEF Inv, Types
  <2>2. overtaken' \subseteq Clients
      BY <1>3 DEF Inv, Types
  <2> QED
      BY <1>3, <1>4, <2>1, <2>2 DEF Inv, Types, connVars, askVars, dbVars
<1>6. ASSUME NEW c \in Clients \ mixed PROVE Waits(c)'
  <2>1. Waits(c) /\ asks'[c] = asks[c]
      BY <1>3 DEF Inv, askVars
  <2>2. ~IsAsk(p, c)
      BY <1>1 DEF IsAsk
  <2>3. ASSUME NEW z \in Stations PROVE Where(c)'[z] = Where(c)[z]
    <3>1. CASE z = <<"thread", t>>
      <4>1. Where(c)[z] = Asks(thread[t].packet, c)
            /\ Where(c)'[z] = Asks(thread'[t].packet, c)
          BY <3>1, WhereAt, WhereNext
      <4>2. thread'[t].packet = <<>>
          BY <1>4 DEF Idle
      <4> QED
          BY <1>1, <2>2, <4>1, <4>2, AsksOfOne, NoAsks
    <3>2. CASE z # <<"thread", t>>
        BY <1>3, <1>4, <3>2, Unmoved DEF dbVars
    <3> QED
        BY <3>1, <3>2
  <2>4. OneAsk(ring'[c], c) /\ OneAsk(RequestQue', c)
        /\ OneAsk(DBResultQue', c) /\ OneAsk(ResultQue', c)
      BY <1>3, <2>1 DEF Waits, dbVars
  <2> QED
      BY <2>1, <2>3, <2>4, WaitsSame
<1>7. ASSUME NEW c \in Clients \ (mixed \cup overtaken') PROVE Follows(c)'
  <2>1. Follows(c)
      BY <1>3 DEF Inv
  <2>2. thread[t].at # "answer" /\ thread'[t].at # "answer"
      BY <1>3, <1>4 DEF Idle
  <2>3. Changed(c)' = Changed(c)
      BY <1>3, <1>4, <2>2, ChangedSame
  <2>4. CASE c # d
    <3>1. CState'[c] = CState[c]
        BY <1>3, <2>4 DEF Inv, Types
    <3> QED
        BY <1>3, <2>1, <2>3, <3>1, FollowsSame DEF askVars, dbVars
  <2>5. CASE c = d
    <3>1. asks[c] = {} /\ answered[c] = {}
        BY <1>3, <2>5
    <3>2. \A z \in Stations : Where(c)[z] = {}
        BY <3>1 DEF Inv, Waits, Single
    <3>3. Asks(ResultQue, c) = {} /\ \A u \in PacketThreads : Asks(thread[u].packet, c) = {}
      <4>1. /\ <<"result", 0>> \in Stations
            /\ \A u \in PacketThreads : <<"thread", u>> \in Stations
          BY DEF Stations
      <4> QED
          BY <3>2, <4>1, WhereAt
    <3>4. Changed(c) = {}
        BY <3>3 DEF Changed
    <3>5. Asks(login, c) = {}
        BY <2>1, <3>1 DEF Follows
    <3>6. Changed(c)' = {} /\ Asks(login', c) = {} /\ answered'[c] = {}
        BY <1>3, <2>3, <3>1, <3>4, <3>5 DEF askVars, dbVars
    <3> QED
        BY <3>6 DEF Follows, Asks, IsAsk
  <2> QED
      BY <2>4, <2>5
<1> QED
    BY <1>3, <1>5, <1>6, <1>7 DEF Inv, connVars

(* A session that changes takes what p says, and it was not overtaken if    *)
(* OnLoginSuccess is still to come for another packet of the slot.          *)
LEMMA SessionNext ==
    ASSUME Types, NEW p \in Packet,
           SetSession(p, IF p.kind = "logout" THEN "CONNECTED" ELSE "LOGIN")
    PROVE  /\ CState' \in [Clients -> {"NONE", "CONNECTED", "LOGIN"}]
           /\ UserName' \in [Clients -> Names \cup {NoName}]
           /\ overtaken \subseteq overtaken' /\ overtaken' \subseteq Clients
           /\ \A c \in Clients : c # p.client =>
                  CState'[c] = CState[c] /\ UserName'[c] = UserName[c]
           /\ UserName'[p.client] = p.name
           /\ CState'[p.client] = IF p.kind = "logout" THEN "CONNECTED" ELSE "LOGIN"
           /\ p.client \notin overtaken' => Asks(login, p.client) \subseteq {p}
<1>1. p.client \in Clients /\ p.name \in Names \cup {NoName}
    BY DEF Packet
<1>2. PICK d \in Clients, s \in {"CONNECTED", "LOGIN"} :
          d = p.client /\ s = IF p.kind = "logout" THEN "CONNECTED" ELSE "LOGIN"
    BY <1>1
<1>3. /\ CState' = [CState EXCEPT ![d] = s] /\ UserName' = [UserName EXCEPT ![d] = p.name]
      /\ overtaken' = overtaken \cup {q.client : q \in {r \in ToSet(login) \ {p} :
                                                            r.client = p.client}}
    BY <1>2 DEF SetSession
<1>4. /\ CState' \in [Clients -> {"NONE", "CONNECTED", "LOGIN"}]
      /\ UserName' \in [Clients -> Names \cup {NoName}]
      /\ CState'[d] = s /\ UserName'[d] = p.name
      /\ \A c \in Clients : c # d => CState'[c] = CState[c] /\ UserName'[c] = UserName[c]
    BY <1>1, <1>3 DEF Types
<1>5. overtaken' \subseteq Clients /\ overtaken \subseteq overtaken'
    BY <1>2, <1>3 DEF Types
<1>6. ASSUME p.client \notin overtaken' PROVE Asks(login, p.client) \subseteq {p}
  <2>1. \A q \in ToSet(login) \ {p} : q.client # p.client
      BY <1>3, <1>6
  <2>2. \A i \in 1 .. Len(login) : login[i].client = p.client => login[i] = p
      BY <2>1 DEF ToSet
  <2> QED
      BY <2>2 DEF Asks, IsAsk
<1> QED
    BY <1>2, <1>4, <1>5, <1>6

(* What OnGuestLogin and OnLogout share: the session, and then the answer.  *)
LEMMA ChangeInv ==
    ASSUME Inv, NEW t \in PacketThreads, NEW p \in Packet, p.kind \in {"guest", "logout"},
           thread[t].packet = <<p>>, thread[t].at = "handle",
           SetSession(p, IF p.kind = "logout" THEN "CONNECTED" ELSE "LOGIN"),
           thread' = [thread EXCEPT ![t].at = "answer"],
           UNCHANGED <<ring, dbVars, ResultQue, connVars, askVars, asked>>
    PROVE  Inv'
<1> PICK s : s = [at |-> "answer", packet |-> <<p>>]
    OBVIOUS
<1>1. thread' = [thread EXCEPT ![t] = s]
  <2>1. thread[t] \in [at : {"idle", "handle", "answer"}, packet : Seq(Packet)]
      BY DEF Inv, Types
  <2>2. [thread[t] EXCEPT !.at = "answer"] = s
      BY <2>1
  <2> QED
      BY <2>2 DEF Inv, Types
<1>2. /\ thread' \in [PacketThreads ->
                        [at : {"idle", "handle", "answer"}, packet : Seq(Packet)]]
      /\ \A u \in PacketThreads : ThreadShape(u)'
      /\ thread'[t] = s /\ \A u \in PacketThreads : u # t => thread'[u] = thread[u]
  <2>1. Types
      BY DEF Inv
  <2> QED
      BY <1>1, <2>1, ThreadNext
<1>3. PICK d \in Clients : d = p.client /\ IsAsk(p, d)
    BY DEF Packet, IsAsk
<1>4. /\ CState' \in [Clients -> {"NONE", "CONNECTED", "LOGIN"}]
      /\ UserName' \in [Clients -> Names \cup {NoName}]
      /\ overtaken \subseteq overtaken' /\ overtaken' \subseteq Clients
      /\ \A c \in Clients : c # d => CState'[c] = CState[c] /\ UserName'[c] = UserName[c]
      /\ UserName'[d] = p.name
      /\ CState'[d] = IF p.kind = "logout" THEN "CONNECTED" ELSE "LOGIN"
      /\ d \notin overtaken' => Asks(login, d) \subseteq {p}
    BY <1>3, SessionNext DEF Inv
<1>5. \A u \in PacketThreads : thread'[u].packet = thread[u].packet
    BY <1>2
<1>6. Types'
    BY <1>2, <1>4 DEF Inv, Types, connVars, askVars, dbVars
<1>7. ASSUME NEW c \in Clients \ mixed PROVE Waits(c)'
  <2>1. Waits(c) /\ asks'[c] = asks[c]
      BY DEF Inv, askVars
  <2>2. \A z \in Stations : Where(c)'[z] = Where(c)[z]
      BY <1>5, Unmoved DEF dbVars
  <2>3. OneAsk(ring'[c], c) /\ OneAsk(RequestQue', c)
        /\ OneAsk(DBResultQue', c) /\ OneAsk(ResultQue', c)
      BY <2>1 DEF Waits, dbVars
  <2> QED
      BY <2>1, <2>2, <2>3, WaitsSame
<1>8. ASSUME NEW c \in Clients \ (mixed \cup overtaken') PROVE Follows(c)'
  <2>1. Follows(c) /\ Waits(c)
      BY <1>4 DEF Inv
  <2>2. \A u \in PacketThreads :
            u # t => (thread'[u].at = "answer" <=> thread[u].at = "answer")
      BY <1>2
  <2>3. CASE c # d
    <3>1. Asks(thread[t].packet, c) = {}
      <4>1. ~IsAsk(p, c)
          BY <1>3, <2>3 DEF IsAsk
      <4> QED
          BY <4>1, AsksOfOne
    <3>2. Changed(c)' = Asks(ResultQue, c) \cup UNION {Asks(thread[u].packet, c) :
                              u \in {v \in PacketThreads : thread'[v].at = "answer"}}
        BY <1>5 DEF Changed, Asks, IsAsk
    <3>3. Changed(c)' = Changed(c)
        BY <2>2, <3>1, <3>2 DEF Changed
    <3> QED
        BY <1>4, <2>1, <2>3, <3>3, FollowsSame DEF askVars, dbVars
  <2>4. CASE c = d
    <3>1. Asks(thread[t].packet, c) = {p}
        BY <1>3, <2>4, AsksOfOne
    <3>2. /\ <<"thread", t>> \in Stations /\ <<"result", 0>> \in Stations
          /\ <<"result", 0>> # <<"thread", t>> /\ <<"db", 0>> \in Stations
          /\ \A u \in PacketThreads : <<"thread", u>> \in Stations
          /\ \A u \in PacketThreads : u # t => <<"thread", u>> # <<"thread", t>>
        BY DEF Stations
    <3>3. \A x \in Stations : x # <<"thread", t>> => Where(c)[x] = {}
      <4>1. Single(Where(c), asks[c]) /\ Where(c)[<<"thread", t>>] # {}
          BY <2>1, <3>1, WhereAt DEF Waits
      <4> QED
          BY <3>2, <4>1 DEF Single
    <3>4. Asks(ResultQue, c) = {}
          /\ \A u \in PacketThreads : u # t => Asks(thread[u].packet, c) = {}
        BY <3>2, <3>3, WhereAt
    <3>5. Changed(c)' = {p}
      <4>1. thread'[t].at = "answer"
          BY <1>2
      <4>2. Asks(ResultQue', c) = {} /\ Asks(thread'[t].packet, c) = {p}
            /\ \A u \in PacketThreads : u # t => Asks(thread'[u].packet, c) = {}
          BY <1>5, <3>1, <3>4
      <4>3. Changed(c)' = Asks(ResultQue', c) \cup UNION {Asks(thread'[u].packet, c) :
                              u \in {v \in PacketThreads : thread'[v].at = "answer"}}
          BY DEF Changed, Asks, IsAsk
      <4>4. p \in Changed(c)'
          BY <4>1, <4>2, <4>3
      <4>5. Changed(c)' \subseteq {p}
        <5>1. \A u \in PacketThreads : Asks(thread'[u].packet, c) \subseteq {p}
            BY <4>2
        <5> QED
            BY <4>2, <4>3, <5>1
      <4> QED
          BY <4>4, <4>5
    <3>6. Asks(login, c) = {}
      <4>1. Asks(login, c) \subseteq {p}
          BY <1>4, <2>4
      <4>2. p \notin Asks(login, c)
        <5>1. \A i \in 1 .. Len(login) : login[i].kind = "login"
            BY AsksOfOne DEF Inv, Types, Of
        <5> QED
            BY <5>1 DEF Asks
      <4> QED
          BY <4>1, <4>2
    <3>7. Matches(c, p)'
        BY <1>4, <2>4 DEF Matches
    <3>8. \A q \in answered'[c] : success'[c] \/ q.kind = "login"
        BY <2>1 DEF Follows, askVars
    <3> QED
        BY <3>5, <3>6, <3>7, <3>8 DEF Follows, Asks, IsAsk, dbVars
  <2> QED
      BY <2>3, <2>4
<1> QED
    BY <1>4, <1>6, <1>7, <1>8 DEF Inv, connVars

LEMMA OnGuestLoginInv ==
    ASSUME Inv, NEW t \in PacketThreads, OnGuestLogin(t)
    PROVE  Inv'
<1>1. PICK p \in Packet : thread[t].packet = <<p>> /\ p.kind = "guest"
    BY DEF OnGuestLogin, Handles, Inv, Types, ThreadShape, Idle
<1>2. SetSession(p, "LOGIN") /\ thread[t].at = "handle"
    BY <1>1 DEF OnGuestLogin, Handles
<1> QED
    BY <1>1, <1>2, ChangeInv DEF OnGuestLogin

LEMMA OnLogoutInv ==
    ASSUME Inv, NEW t \in PacketThreads, OnLogout(t)
    PROVE  Inv'
<1>1. PICK p \in Packet : thread[t].packet = <<p>> /\ p.kind = "logout"
    BY DEF OnLogout, Handles, Inv, Types, ThreadShape, Idle
<1>2. SetSession(p, "CONNECTED") /\ thread[t].at = "handle"
    BY <1>1 DEF OnLogout, Handles
<1> QED
    BY <1>1, <1>2, ChangeInv DEF OnLogout

(* An answer that reaches who waits for it, and one that grants.            *)
LEMMA AnswerNext ==
    ASSUME Types, NEW d \in Clients, NEW kinds, NEW ok \in BOOLEAN, Answer(d, kinds, ok)
    PROVE  /\ asks' \in [Clients -> SUBSET Packet] /\ answered' \in [Clients -> SUBSET Packet]
           /\ success' \in [Clients -> BOOLEAN]
           /\ \A c \in Clients : c # d => /\ asks'[c] = asks[c] /\ answered'[c] = answered[c]
                                         /\ success'[c] = success[c]
           /\ \A p : asks[d] = {p} /\ p.kind \in kinds
                    => asks'[d] = {} /\ answered'[d] = {p} /\ success'[d] = ok
<1>1. /\ asks' = [asks EXCEPT ![d] = {p \in @ : p.kind \notin kinds}]
      /\ answered' = [answered EXCEPT ![d] = IF asks'[d] = asks[d] THEN @ ELSE asks[d]]
      /\ success' = [success EXCEPT ![d] = IF asks'[d] = asks[d] THEN @ ELSE ok]
    BY DEF Answer
<1>2. asks[d] \in SUBSET Packet /\ answered[d] \in SUBSET Packet
    BY DEF Types
<1>3. asks' \in [Clients -> SUBSET Packet] /\ asks'[d] = {p \in asks[d] : p.kind \notin kinds}
      /\ \A c \in Clients : c # d => asks'[c] = asks[c]
    BY <1>1, <1>2 DEF Types
<1>4. /\ answered' \in [Clients -> SUBSET Packet]
      /\ answered'[d] = IF asks'[d] = asks[d] THEN answered[d] ELSE asks[d]
      /\ \A c \in Clients : c # d => answered'[c] = answered[c]
    BY <1>1, <1>2 DEF Types
<1>6. /\ success' \in [Clients -> BOOLEAN]
      /\ success'[d] = IF asks'[d] = asks[d] THEN success[d] ELSE ok
      /\ \A c \in Clients : c # d => success'[c] = success[c]
  <2>1. success \in [Clients -> BOOLEAN] /\ success[d] \in BOOLEAN
      BY DEF Types
  <2>2. PICK v \in BOOLEAN : v = IF asks'[d] = asks[d] THEN success[d] ELSE ok
      BY <2>1
  <2>3. success' = [success EXCEPT ![d] = v]
      BY <1>1, <2>2
  <2> QED
      BY <2>1, <2>2, <2>3
<1>5. ASSUME NEW p, asks[d] = {p}, p.kind \in kinds
      PROVE  asks'[d] = {} /\ answered'[d] = {p} /\ success'[d] = ok
  <2>1. asks'[d] = {}
      BY <1>3, <1>5
  <2>2. asks'[d] # asks[d]
      BY <1>5, <2>1
  <2> QED
      BY <1>4, <1>5, <1>6, <2>1, <2>2
<1> QED
    BY <1>3, <1>4, <1>5, <1>6

LEMMA GrantedNext ==
    ASSUME Types, NEW d \in Clients, NEW kinds, Answer(d, kinds, TRUE)
    PROVE  /\ asks' \in [Clients -> SUBSET Packet] /\ answered' \in [Clients -> SUBSET Packet]
           /\ success' \in [Clients -> BOOLEAN]
           /\ \A c \in Clients : c # d => /\ asks'[c] = asks[c] /\ answered'[c] = answered[c]
                                         /\ success'[c] = success[c]
           /\ \A p : asks[d] = {p} /\ p.kind \in kinds
                    => asks'[d] = {} /\ answered'[d] = {p} /\ success'[d]
<1>1. PICK ok \in BOOLEAN : ok = TRUE
    OBVIOUS
<1>2. Answer(d, kinds, ok)
    BY <1>1 DEF Answer
<1>3. \A p : asks[d] = {p} /\ p.kind \in kinds
           => asks'[d] = {} /\ answered'[d] = {p} /\ success'[d] = ok
    BY <1>2, AnswerNext
<1>4. \A p : asks[d] = {p} /\ p.kind \in kinds
           => asks'[d] = {} /\ answered'[d] = {p} /\ success'[d]
    BY <1>1, <1>3
<1> QED
    BY <1>2, <1>4, AnswerNext

LEMMA AnswerGuestInv ==
    ASSUME Inv, NEW t \in PacketThreads, AnswerGuest(t)
    PROVE  Inv'
<1>1. PICK p \in Packet : thread[t].packet = <<p>> /\ p.kind = "guest"
    BY DEF AnswerGuest, Inv, Types, ThreadShape, Idle
<1>2. PICK d \in Clients : d = p.client /\ IsAsk(p, d)
    BY <1>1 DEF Packet, IsAsk
<1>3. /\ thread[t].at = "answer" /\ Answer(d, {"guest"}, TRUE)
      /\ thread' = [thread EXCEPT ![t] = Idle]
      /\ UNCHANGED <<sessionVars, ring, dbVars, ResultQue, connVars, asked, overtaken>>
  <2>1. thread[t].packet[1].client = d
      BY <1>1, <1>2
  <2> QED
      BY <2>1 DEF AnswerGuest
<1>4. /\ thread' \in [PacketThreads ->
                        [at : {"idle", "handle", "answer"}, packet : Seq(Packet)]]
      /\ \A u \in PacketThreads : ThreadShape(u)'
      /\ thread'[t] = Idle /\ \A u \in PacketThreads : u # t => thread'[u] = thread[u]
  <2>1. Types
      BY DEF Inv
  <2> QED
      BY <1>3, <2>1, ThreadNext
<1>5. /\ asks' \in [Clients -> SUBSET Packet] /\ answered' \in [Clients -> SUBSET Packet]
      /\ success' \in [Clients -> BOOLEAN]
      /\ \A c \in Clients : c # d => /\ asks'[c] = asks[c] /\ answered'[c] = answered[c]
                                    /\ success'[c] = success[c]
      /\ asks[d] = {p} => asks'[d] = {} /\ answered'[d] = {p} /\ success'[d]
  <2>1. Types /\ p.kind \in {"guest"} /\ Answer(d, {"guest"}, TRUE)
      BY <1>1, <1>3 DEF Inv
  <2> QED
      BY <2>1, GrantedNext, Zenon
<1>6. Types'
    BY <1>3, <1>4, <1>5 DEF Inv, Types, sessionVars, connVars, dbVars
<1>7. ASSUME NEW c \in Clients \ mixed
      PROVE  /\ Waits(c)' /\ thread'[t].packet = <<>>
             /\ c = d => /\ asks[c] = {p} /\ Asks(ResultQue, c) = {}
                         /\ \A u \in PacketThreads : u # t => Asks(thread[u].packet, c) = {}
  <2>x. PICK x : x = <<"thread", t>>
      OBVIOUS
  <2>1. x \in Stations
      BY <2>x DEF Stations
  <2>2. Waits(c)
      BY DEF Inv
  <2>3. Where(c)[x] = Asks(thread[t].packet, c) /\ Where(c)'[x] = Asks(thread'[t].packet, c)
      BY <2>x, WhereAt, WhereNext
  <2>4. thread'[t].packet = <<>>
      BY <1>4 DEF Idle
  <2>5. ASSUME NEW z \in Stations, z # x PROVE Where(c)'[z] = Where(c)[z]
      BY <1>3, <1>4, <2>x, <2>5, Unmoved DEF dbVars
  <2>6. OneAsk(ring'[c], c) /\ OneAsk(RequestQue', c)
        /\ OneAsk(DBResultQue', c) /\ OneAsk(ResultQue', c)
      BY <1>3, <2>2 DEF Waits, dbVars
  <2>7. CASE c = d
    <3>1. p \in Where(c)[x] /\ Where(c)'[x] = {} /\ IsAsk(p, c)
      <4>1. IsAsk(p, c)
          BY <1>2, <2>7
      <4>2. Asks(thread[t].packet, c) = {p}
          BY <1>1, <4>1, AsksOfOne
      <4>3. Asks(thread'[t].packet, c) = {}
          BY <2>4, NoAsks
      <4> QED
          BY <2>3, <4>1, <4>2, <4>3
    <3>2. /\ Single(Where(c)', {}) /\ asks[c] = {p}
          /\ \A z \in Stations : z # x => Where(c)[z] = {}
      <4>1. Single(Where(c), asks[c])
          BY <2>2 DEF Waits
      <4> QED
          BY <2>1, <2>5, <3>1, <4>1, Removed
    <3>3. Waits(c)'
        BY <1>5, <2>6, <2>7, <3>2 DEF Waits, Single, OneAsk, IsAsk
    <3>4. Asks(ResultQue, c) = {}
      <4>1. <<"result", 0>> \in Stations /\ <<"result", 0>> # x
          BY <2>x DEF Stations
      <4> QED
          BY <2>x, <3>2, <4>1, WhereAt
    <3>5. \A u \in PacketThreads : u # t => Asks(thread[u].packet, c) = {}
      <4>1. \A u \in PacketThreads :
                u # t => <<"thread", u>> \in Stations /\ <<"thread", u>> # x
          BY <2>x DEF Stations
      <4> QED
          BY <2>x, <3>2, <4>1, WhereAt
    <3> QED
        BY <2>4, <3>2, <3>3, <3>4, <3>5
  <2>8. CASE c # d
    <3>1. ~IsAsk(p, c) /\ asks'[c] = asks[c]
        BY <1>2, <1>5, <2>8 DEF IsAsk
    <3>2. Where(c)[x] = {} /\ Where(c)'[x] = {}
        BY <1>1, <2>3, <2>4, <3>1, AsksOfOne, NoAsks
    <3>3. \A z \in Stations : Where(c)'[z] = Where(c)[z]
        BY <2>5, <3>2
    <3> QED
        BY <2>2, <2>4, <2>6, <2>8, <3>1, <3>3, WaitsSame
  <2> QED
      BY <2>7, <2>8
<1>8. ASSUME NEW c \in Clients \ (mixed \cup overtaken) PROVE Follows(c)'
  <2>1. Follows(c)
      BY DEF Inv
  <2>2. Changed(c)' = Asks(ResultQue, c) \cup UNION {Asks(thread'[u].packet, c) :
                            u \in {v \in PacketThreads : thread'[v].at = "answer"}}
      BY <1>3 DEF Changed, Asks, IsAsk
  <2>3. thread'[t].at # "answer"
      BY <1>4 DEF Idle
  <2>4. CASE c = d
    <3>1. Asks(thread[t].packet, c) = {p}
        BY <1>1, <1>2, <2>4, AsksOfOne
    <3>2. p \in Changed(c)
        BY <1>3, <3>1 DEF Changed
    <3>3. Changed(c)' = {}
      <4>1. \A u \in PacketThreads :
                thread'[u].at = "answer" => Asks(thread'[u].packet, c) = {}
          BY <1>4, <1>7, <2>3, <2>4
      <4> QED
          BY <1>7, <2>2, <2>4, <4>1
    <3>4. Matches(c, p) /\ Asks(login, c) = {}
        BY <2>1, <3>2 DEF Follows
    <3>5. answered'[c] = {p} /\ success'[c]
        BY <1>5, <1>7, <2>4
    <3>6. Matches(c, p)' /\ Asks(login', c) = {}
        BY <1>3, <3>4 DEF Matches, sessionVars, dbVars
    <3> QED
        BY <3>3, <3>5, <3>6 DEF Follows, Asks, IsAsk
  <2>5. CASE c # d
    <3>1. Asks(thread[t].packet, c) = {}
      <4>1. ~IsAsk(p, c)
          BY <1>2, <2>5 DEF IsAsk
      <4> QED
          BY <1>1, <4>1, AsksOfOne
    <3>2. Changed(c)' = Changed(c)
        BY <1>4, <2>2, <2>3, <3>1 DEF Changed
    <3> QED
        BY <1>3, <1>5, <2>1, <2>5, <3>2, FollowsSame DEF sessionVars, dbVars
  <2> QED
      BY <2>4, <2>5
<1> QED
    BY <1>3, <1>6, <1>7, <1>8 DEF Inv, connVars

(* The login that is answered is the one that was waited for; its session   *)
(* follows.                                                                 *)
LEMMA ProcessLoginResultInv == Inv /\ ProcessLoginResult => Inv'
<1> SUFFICES ASSUME Inv, ProcessLoginResult PROVE Inv'
    OBVIOUS
<1>1. /\ DBResultQue \in Seq(Of("login")) /\ DBResultQue # <<>> /\ login = <<>>
      /\ login' = <<Head(DBResultQue)>> /\ DBResultQue' = Tail(DBResultQue)
      /\ QueryResults' = Tail(QueryResults)
      /\ Answer(Head(DBResultQue).client, {"login", "logout"}, Head(QueryResults))
      /\ UNCHANGED <<sessionVars, ring, thread, RequestQue, query, ResultQue, connVars,
                     asked, overtaken>>
    BY DEF ProcessLoginResult, Inv, Types
<1>2. PICK p \in Of("login") : p = Head(DBResultQue)
    BY <1>1, HeadTailProperties
<1>3. /\ login' = <<p>> /\ DBResultQue' \in Seq(Of("login"))
      /\ Len(DBResultQue) \in Nat \ {0} /\ Len(DBResultQue') = Len(DBResultQue) - 1
    BY <1>1, <1>2, HeadTailProperties
<1>v. /\ Head(QueryResults) \in BOOLEAN /\ QueryResults' \in Seq(BOOLEAN)
      /\ Len(QueryResults') = Len(DBResultQue')
  <2>1. QueryResults \in Seq(BOOLEAN) /\ Len(QueryResults) = Len(DBResultQue)
      BY DEF Inv, Types
  <2>2. QueryResults # <<>>
      BY <1>3, <2>1
  <2>3. Head(QueryResults) \in BOOLEAN /\ QueryResults' \in Seq(BOOLEAN)
        /\ Len(QueryResults') = Len(QueryResults) - 1
      BY <1>1, <2>1, <2>2, HeadTailProperties
  <2> QED
      BY <1>3, <2>1, <2>3
<1>4. PICK d \in Clients : d = p.client /\ IsAsk(p, d) /\ p.kind = "login"
    BY DEF Of, Packet, IsAsk
<1>5. /\ asks' \in [Clients -> SUBSET Packet] /\ answered' \in [Clients -> SUBSET Packet]
      /\ success' \in [Clients -> BOOLEAN]
      /\ \A c \in Clients : c # d => /\ asks'[c] = asks[c] /\ answered'[c] = answered[c]
                                    /\ success'[c] = success[c]
      /\ asks[d] = {p} => asks'[d] = {} /\ answered'[d] = {p}
    BY <1>1, <1>v, <1>2, <1>4, AnswerNext DEF Inv
<1>6. Types'
  <2>1. \A t \in PacketThreads : ThreadShape(t)'
      BY <1>1 DEF Inv, Types, ThreadShape
  <2> QED
      BY <1>1, <1>3, <1>v, <1>5, <2>1 DEF Inv, Types, sessionVars, connVars
<1>7. ASSUME NEW c \in Clients \ mixed
      PROVE  /\ Waits(c)'
             /\ c = d => /\ asks[c] = {p} /\ Asks(ResultQue, c) = {}
                         /\ \A u \in PacketThreads : Asks(thread[u].packet, c) = {}
  <2>x. PICK x : x = <<"db", 0>>
      OBVIOUS
  <2>1. x \in Stations
      BY <2>x DEF Stations
  <2>2. Waits(c)
      BY DEF Inv
  <2>3. Where(c)[x] = Asks(DBResultQue, c) /\ Where(c)'[x] = Asks(DBResultQue', c)
      BY <2>x, WhereAt, WhereNext
  <2>4. /\ OneAsk(DBResultQue', c)
        /\ ~IsAsk(p, c) => Where(c)'[x] = Where(c)[x]
        /\ IsAsk(p, c) => p \in Where(c)[x] /\ Where(c)'[x] = {}
    <3>1. OneAsk(DBResultQue, c)
        BY <2>2 DEF Waits
    <3> QED
        BY <1>1, <1>2, <2>3, <3>1, AsksTail
  <2>5. ASSUME NEW z \in Stations, z # x PROVE Where(c)'[z] = Where(c)[z]
    <3>1. z[1] # "db"
        BY <2>x, <2>5 DEF Stations
    <3> QED
        BY <1>1, <2>x, <3>1, Unmoved
  <2>6. OneAsk(ring'[c], c) /\ OneAsk(RequestQue', c) /\ OneAsk(ResultQue', c)
      BY <1>1, <2>2 DEF Waits
  <2>7. CASE c = d
    <3>1. p \in Where(c)[x] /\ Where(c)'[x] = {}
        BY <1>4, <2>4, <2>7
    <3>2. /\ Single(Where(c)', {}) /\ asks[c] = {p}
          /\ \A z \in Stations : z # x => Where(c)[z] = {}
      <4>1. Single(Where(c), asks[c])
          BY <2>2 DEF Waits
      <4> QED
          BY <2>1, <2>5, <3>1, <4>1, Removed
    <3>3. Waits(c)'
        BY <1>5, <2>4, <2>6, <2>7, <3>2 DEF Waits, Single, OneAsk, IsAsk
    <3>4. Asks(ResultQue, c) = {}
      <4>1. <<"result", 0>> \in Stations /\ <<"result", 0>> # x
          BY <2>x DEF Stations
      <4> QED
          BY <2>x, <3>2, <4>1, WhereAt
    <3>5. \A u \in PacketThreads : Asks(thread[u].packet, c) = {}
      <4>1. \A u \in PacketThreads : <<"thread", u>> \in Stations /\ <<"thread", u>> # x
          BY <2>x DEF Stations
      <4> QED
          BY <2>x, <3>2, <4>1, WhereAt
    <3> QED
        BY <3>2, <3>3, <3>4, <3>5
  <2>8. CASE c # d
    <3>1. ~IsAsk(p, c) /\ asks'[c] = asks[c]
        BY <1>4, <1>5, <2>8 DEF IsAsk
    <3>2. \A z \in Stations : Where(c)'[z] = Where(c)[z]
        BY <2>4, <2>5, <3>1
    <3> QED
        BY <2>2, <2>4, <2>6, <2>8, <3>1, <3>2, WaitsSame
  <2> QED
      BY <2>7, <2>8
<1>8. ASSUME NEW c \in Clients \ (mixed \cup overtaken) PROVE Follows(c)'
  <2>1. Follows(c) /\ Changed(c)' = Changed(c)
      BY <1>1, ChangedSame DEF Inv
  <2>2. Asks(login, c) = {}
      BY <1>1, NoAsks
  <2>3. CASE c = d
    <3>1. Asks(login', c) = {p}
        BY <1>3, <1>4, <2>3, AsksOfOne
    <3>2. Changed(c)' = {}
        BY <1>7, <2>1, <2>3 DEF Changed
    <3>3. answered'[c] = {p}
        BY <1>5, <1>7, <2>3
    <3> QED
        BY <1>4, <3>1, <3>2, <3>3 DEF Follows, Asks, IsAsk
  <2>4. CASE c # d
    <3>1. Asks(login', c) = {}
      <4>1. ~IsAsk(p, c)
          BY <1>4, <2>4 DEF IsAsk
      <4> QED
          BY <1>3, <4>1, AsksOfOne
    <3>2. Asks(login, c)' = Asks(login, c)
        BY <2>2, <3>1 DEF Asks, IsAsk
    <3> QED
        BY <1>1, <1>5, <2>1, <2>4, <3>2, FollowsSame DEF sessionVars
  <2> QED
      BY <2>3, <2>4
<1> QED
    BY <1>1, <1>6, <1>7, <1>8 DEF Inv, connVars

LEMMA SendResponsePacketInv == Inv /\ SendResponsePacket => Inv'
<1> SUFFICES ASSUME Inv, SendResponsePacket PROVE Inv'
    OBVIOUS
<1>1. /\ ResultQue \in Seq(Of("logout")) /\ ResultQue # <<>>
      /\ ResultQue' = Tail(ResultQue)
      /\ Answer(Head(ResultQue).client, {"login", "logout"}, TRUE)
      /\ UNCHANGED <<sessionVars, ring, thread, dbVars, connVars, asked, overtaken>>
    BY DEF SendResponsePacket, Inv, Types
<1>2. PICK p \in Of("logout") : p = Head(ResultQue)
    BY <1>1, HeadTailProperties
<1>3. ResultQue' \in Seq(Of("logout"))
    BY <1>1, HeadTailProperties
<1>4. PICK d \in Clients : d = p.client /\ IsAsk(p, d) /\ p.kind = "logout"
    BY DEF Of, Packet, IsAsk
<1>5. /\ asks' \in [Clients -> SUBSET Packet] /\ answered' \in [Clients -> SUBSET Packet]
      /\ success' \in [Clients -> BOOLEAN]
      /\ \A c \in Clients : c # d => /\ asks'[c] = asks[c] /\ answered'[c] = answered[c]
                                    /\ success'[c] = success[c]
      /\ asks[d] = {p} => asks'[d] = {} /\ answered'[d] = {p} /\ success'[d]
  <2>1. Types /\ p.kind \in {"login", "logout"} /\ Answer(d, {"login", "logout"}, TRUE)
      BY <1>1, <1>2, <1>4 DEF Inv
  <2> QED
      BY <2>1, GrantedNext, Zenon
<1>6. Types'
  <2>1. \A t \in PacketThreads : ThreadShape(t)'
      BY <1>1 DEF Inv, Types, ThreadShape
  <2> QED
      BY <1>1, <1>3, <1>5, <2>1 DEF Inv, Types, sessionVars, connVars, dbVars
<1>7. ASSUME NEW c \in Clients \ mixed
      PROVE  /\ Waits(c)'
             /\ c = d => /\ asks[c] = {p}
                         /\ p \in Asks(ResultQue, c) /\ Asks(ResultQue', c) = {}
                         /\ \A u \in PacketThreads : Asks(thread[u].packet, c) = {}
             /\ c # d => Asks(ResultQue', c) = Asks(ResultQue, c)
  <2>x. PICK x : x = <<"result", 0>>
      OBVIOUS
  <2>1. x \in Stations
      BY <2>x DEF Stations
  <2>2. Waits(c)
      BY DEF Inv
  <2>3. Where(c)[x] = Asks(ResultQue, c) /\ Where(c)'[x] = Asks(ResultQue', c)
      BY <2>x, WhereAt, WhereNext
  <2>4. /\ OneAsk(ResultQue', c)
        /\ ~IsAsk(p, c) => Where(c)'[x] = Where(c)[x]
        /\ IsAsk(p, c) => p \in Where(c)[x] /\ Where(c)'[x] = {}
    <3>1. OneAsk(ResultQue, c)
        BY <2>2 DEF Waits
    <3> QED
        BY <1>1, <1>2, <2>3, <3>1, AsksTail
  <2>5. ASSUME NEW z \in Stations, z # x PROVE Where(c)'[z] = Where(c)[z]
    <3>1. z[1] # "result"
        BY <2>x, <2>5 DEF Stations
    <3> QED
        BY <1>1, <2>x, <3>1, Unmoved DEF dbVars
  <2>6. OneAsk(ring'[c], c) /\ OneAsk(RequestQue', c) /\ OneAsk(DBResultQue', c)
      BY <1>1, <2>2 DEF Waits, dbVars
  <2>7. CASE c = d
    <3>1. p \in Where(c)[x] /\ Where(c)'[x] = {}
        BY <1>4, <2>4, <2>7
    <3>2. /\ Single(Where(c)', {}) /\ asks[c] = {p}
          /\ \A z \in Stations : z # x => Where(c)[z] = {}
      <4>1. Single(Where(c), asks[c])
          BY <2>2 DEF Waits
      <4> QED
          BY <2>1, <2>5, <3>1, <4>1, Removed
    <3>3. Waits(c)'
        BY <1>5, <2>4, <2>6, <2>7, <3>2 DEF Waits, Single, OneAsk, IsAsk
    <3>4. \A u \in PacketThreads : Asks(thread[u].packet, c) = {}
      <4>1. \A u \in PacketThreads : <<"thread", u>> \in Stations /\ <<"thread", u>> # x
          BY <2>x DEF Stations
      <4> QED
          BY <2>x, <3>2, <4>1, WhereAt
    <3> QED
        BY <2>3, <2>7, <3>1, <3>2, <3>3, <3>4
  <2>8. CASE c # d
    <3>1. ~IsAsk(p, c) /\ asks'[c] = asks[c]
        BY <1>4, <1>5, <2>8 DEF IsAsk
    <3>2. \A z \in Stations : Where(c)'[z] = Where(c)[z]
        BY <2>4, <2>5, <3>1
    <3>3. Waits(c)'
        BY <2>2, <2>4, <2>6, <3>1, <3>2, WaitsSame
    <3> QED
        BY <2>3, <2>4, <2>8, <3>1, <3>3
  <2> QED
      BY <2>7, <2>8
<1>8. ASSUME NEW c \in Clients \ (mixed \cup overtaken) PROVE Follows(c)'
  <2>1. Follows(c)
      BY DEF Inv
  <2>2. Changed(c)' = Asks(ResultQue', c) \cup UNION {Asks(thread[u].packet, c) :
                            u \in {v \in PacketThreads : thread[v].at = "answer"}}
      BY <1>1 DEF Changed, Asks, IsAsk
  <2>3. CASE c = d
    <3>1. p \in Changed(c) /\ Changed(c)' = {}
        BY <1>7, <2>2, <2>3 DEF Changed
    <3>2. Matches(c, p) /\ Asks(login, c) = {}
        BY <2>1, <3>1 DEF Follows
    <3>3. answered'[c] = {p} /\ success'[c]
        BY <1>5, <1>7, <2>3
    <3>4. Matches(c, p)' /\ Asks(login', c) = {}
        BY <1>1, <3>2 DEF Matches, sessionVars, dbVars
    <3> QED
        BY <3>1, <3>3, <3>4 DEF Follows, Asks, IsAsk
  <2>4. CASE c # d
    <3>1. Changed(c)' = Changed(c)
        BY <1>7, <2>2, <2>4 DEF Changed
    <3> QED
        BY <1>1, <1>5, <2>1, <2>4, <3>1, FollowsSame DEF sessionVars, dbVars
  <2> QED
      BY <2>3, <2>4
<1> QED
    BY <1>1, <1>6, <1>7, <1>8 DEF Inv, connVars

LEMMA OnLoginSuccessInv == Inv /\ OnLoginSuccess => Inv'
<1> SUFFICES ASSUME Inv, OnLoginSuccess PROVE Inv'
    OBVIOUS
<1>1. PICK p \in Of("login") : login = <<p>>
    BY DEF OnLoginSuccess, Inv, Types
<1>2. PICK d \in Clients : d = p.client /\ IsAsk(p, d) /\ p.kind = "login" /\ p \in Packet
    BY DEF Of, Packet, IsAsk
<1>3. /\ SetSession(p, "LOGIN") /\ login' = <<>>
      /\ UNCHANGED <<ring, thread, RequestQue, query, DBResultQue, QueryResults, ResultQue,
                     connVars, askVars, asked>>
    BY <1>1 DEF OnLoginSuccess
<1>4. /\ CState' \in [Clients -> {"NONE", "CONNECTED", "LOGIN"}]
      /\ UserName' \in [Clients -> Names \cup {NoName}]
      /\ overtaken \subseteq overtaken' /\ overtaken' \subseteq Clients
      /\ \A c \in Clients : c # d => CState'[c] = CState[c] /\ UserName'[c] = UserName[c]
      /\ UserName'[d] = p.name
      /\ CState'[d] = "LOGIN"
    BY <1>2, <1>3, SessionNext DEF Inv
<1>5. Types'
  <2>1. \A t \in PacketThreads : ThreadShape(t)'
      BY <1>3 DEF Inv, Types, ThreadShape
  <2> QED
      BY <1>3, <1>4, <2>1 DEF Inv, Types, connVars, askVars
<1>6. ASSUME NEW c \in Clients \ mixed PROVE Waits(c)'
  <2>1. Waits(c) /\ asks'[c] = asks[c]
      BY <1>3 DEF Inv, askVars
  <2>2. \A z \in Stations : Where(c)'[z] = Where(c)[z]
      BY <1>3, Unmoved
  <2>3. OneAsk(ring'[c], c) /\ OneAsk(RequestQue', c)
        /\ OneAsk(DBResultQue', c) /\ OneAsk(ResultQue', c)
      BY <1>3, <2>1 DEF Waits
  <2> QED
      BY <2>1, <2>2, <2>3, WaitsSame
<1>7. ASSUME NEW c \in Clients \ (mixed \cup overtaken') PROVE Follows(c)'
  <2>1. Follows(c) /\ Changed(c)' = Changed(c)
      BY <1>3, <1>4, ChangedSame DEF Inv
  <2>2. Asks(login', c) = {}
      BY <1>3, NoAsks
  <2>3. CASE c = d
    <3>1. Asks(login, c) = {p}
        BY <1>1, <1>2, <2>3, AsksOfOne
    <3>2. Changed(c) = {} /\ answered[c] = {p}
        BY <2>1, <3>1 DEF Follows
    <3>3. Changed(c)' = {} /\ answered'[c] = {p}
        BY <1>3, <2>1, <3>2 DEF askVars
    <3>4. Matches(c, p)'
        BY <1>2, <1>4, <2>3 DEF Matches
    <3>5. \A q \in answered'[c] : success'[c] \/ q.kind = "login"
        BY <1>2, <3>3
    <3> QED
        BY <2>2, <3>3, <3>4, <3>5 DEF Follows, Asks, IsAsk
  <2>4. CASE c # d
    <3>1. Asks(login, c) = {}
      <4>1. ~IsAsk(p, c)
          BY <1>2, <2>4 DEF IsAsk
      <4> QED
          BY <1>1, <4>1, AsksOfOne
    <3>2. Asks(login, c)' = Asks(login, c)
        BY <2>2, <3>1 DEF Asks, IsAsk
    <3> QED
        BY <1>3, <1>4, <2>1, <2>4, <3>2, FollowsSame DEF askVars
  <2> QED
      BY <2>3, <2>4
<1> QED
    BY <1>3, <1>4, <1>5, <1>6, <1>7 DEF Inv, connVars

LEMMA NextInv == Inv /\ [Next]_vars => Inv'
<1> SUFFICES ASSUME Inv, [Next]_vars PROVE Inv'
    OBVIOUS
<1>1. CASE UNCHANGED vars
  <2>1. UNCHANGED <<CState, UserName, ring, thread, RequestQue, query, DBResultQue, QueryResults,
                    login, ResultQue, conn, greeted, mixed, asks, answered, success, asked,
                    overtaken>>
      BY <1>1 DEF vars, sessionVars, dbVars, connVars, askVars
  <2>2. Types'
    <3>1. \A t \in PacketThreads : ThreadShape(t)'
        BY <2>1 DEF Inv, Types, ThreadShape
    <3> QED
        BY <2>1, <3>1 DEF Inv, Types
  <2>3. ASSUME NEW c \in Clients \ mixed PROVE Waits(c)'
    <3>1. \A z \in Stations : Where(c)'[z] = Where(c)[z]
        BY <2>1, Unmoved
    <3> QED
        BY <2>1, <3>1, WaitsSame DEF Inv, Waits
  <2>4. ASSUME NEW c \in Clients \ (mixed \cup overtaken) PROVE Follows(c)'
    <3>1. Changed(c)' = Changed(c)
        BY <2>1, ChangedSame
    <3> QED
        BY <2>1, <3>1, FollowsSame DEF Inv
  <2> QED
      BY <2>1, <2>2, <2>3, <2>4 DEF Inv
<1>2. ASSUME NEW c \in Clients, Accepted(c) \/ ServerOnConnect(c) \/ Ask(c)
      PROVE  Inv'
    BY <1>2, AcceptedInv, ServerOnConnectInv, AskInv
<1>3. ASSUME NEW t \in PacketThreads, Handler(t)
      PROVE  Inv'
    BY <1>3, OnConnectInv, OnLoginInv, OnGuestLoginInv, OnLogoutInv, AnswerGuestInv,
       PushLogoutResultInv DEF Handler
<1>4. ASSUME NEW t \in PacketThreads, NEW c \in Clients, PopRecvPacket(t, c)
      PROVE  Inv'
    BY <1>4, PopRecvPacketInv
<1>5. CASE PopQuery \/ SetDBResult \/ ProcessLoginResult \/ OnLoginSuccess \/ SendResponsePacket
    BY <1>5, PopQueryInv, SetDBResultInv, ProcessLoginResultInv, OnLoginSuccessInv,
       SendResponsePacketInv
<1> QED
    BY <1>1, <1>2, <1>3, <1>4, <1>5 DEF Next

(* The invariant of the requests under way and of what sessions follow.     *)
THEOREM Invariance == Spec => []Inv
<1> QED
    BY InitInv, NextInv, PTL DEF Spec

(* Sessions, queues and what is under way in them stay what they should be: *)
(* only logins reach the database, only logouts the queue of results.       *)
THEOREM TypeCorrect == Spec => []TypeOK
<1>1. ASSUME Types PROVE TypeOK
  <2>1. \A t \in PacketThreads : thread[t].at \in {"idle", "handle", "answer"}
      BY <1>1 DEF Types
  <2> QED
      BY <1>1, <2>1, AllPackets DEF Types, TypeOK
<1>2. Inv => TypeOK
    BY <1>1 DEF Inv
<1> QED
    BY <1>2, Invariance, PTL

(* Where a request is in a queue. *)
Found(q, p) == {i \in 1 .. Len(q) : q[i] = p}

LEMMA OnePlace ==
    ASSUME NEW q, NEW c, NEW p, p \in Asks(q, c), OneAsk(q, c)
    PROVE  \E i : Found(q, p) = {i}
<1>1. PICK i \in 1 .. Len(q) : q[i] = p /\ IsAsk(p, c)
    BY DEF Asks
<1>2. \A j \in 1 .. Len(q) : q[j] = p => j = i
    BY <1>1 DEF OneAsk
<1>3. Found(q, p) = {i}
    BY <1>1, <1>2 DEF Found
<1> QED
    BY <1>3

LEMMA NoPlace ==
    ASSUME NEW q, NEW n, NEW c, NEW p, IsAsk(p, c), Asks(q, c) = {}
    PROVE  PlacesIn(n, q, p) = {}
BY DEF Asks, PlacesIn

(* Every request of a client is in exactly one place on its way through the *)
(* packet threads, the database and the queues of answers until it is       *)
(* answered, and is what the client waits for.                              *)
THEOREM AnsweredOnce == Spec => []OneRequestOneAnswer
<1> SUFFICES ASSUME Inv PROVE OneRequestOneAnswer
    BY Invariance, PTL
<1> SUFFICES ASSUME NEW c \in Clients \ mixed
             PROVE  /\ {p \in Unanswered(c) : p.kind # "connect"} = asks[c]
                    /\ \A p \in asks[c] : Cardinality(Copies(c, p)) = 1
    BY DEF OneRequestOneAnswer
<1>1. Types /\ Waits(c) /\ Single(Where(c), asks[c])
    BY DEF Inv, Waits
<1>2. /\ \A n \in {"ring", "request", "query", "db", "result"} : <<n, 0>> \in Stations
      /\ \A t \in PacketThreads : <<"thread", t>> \in Stations
      /\ \A x \in Stations : \/ x \in {<<"ring", 0>>, <<"request", 0>>, <<"query", 0>>,
                                       <<"db", 0>>, <<"result", 0>>}
                             \/ \E t \in PacketThreads : x = <<"thread", t>>
    BY DEF Stations
<1>3. /\ OneAsk(query, c) /\ \A t \in PacketThreads : OneAsk(thread[t].packet, c)
      /\ \A t \in PacketThreads : thread[t].packet = <<>> \/ \E p : thread[t].packet = <<p>>
  <2>1. query = <<>> \/ \E p : query = <<p>>
      BY <1>1 DEF Types
  <2>2. ASSUME NEW t \in PacketThreads
        PROVE  thread[t].packet = <<>> \/ \E p : thread[t].packet = <<p>>
    <3>1. ThreadShape(t)
        BY <1>1 DEF Types
    <3> QED
        BY <3>1 DEF ThreadShape, Idle
  <2>3. OneAsk(query, c)
    <3>1. CASE query = <<>>
        BY <3>1, NoAsks
    <3>2. ASSUME NEW p, query = <<p>> PROVE OneAsk(query, c)
        BY <3>2, AsksOfOne
    <3> QED
        BY <2>1, <3>1, <3>2
  <2>4. ASSUME NEW t \in PacketThreads PROVE OneAsk(thread[t].packet, c)
    <3>1. CASE thread[t].packet = <<>>
        BY <3>1, NoAsks
    <3>2. ASSUME NEW p, thread[t].packet = <<p>> PROVE OneAsk(thread[t].packet, c)
        BY <3>2, AsksOfOne
    <3> QED
        BY <2>2, <3>1, <3>2
  <2> QED
      BY <2>2, <2>3, <2>4
<1>4. ASSUME NEW p PROVE p \in asks[c] <=> \E x \in Stations : p \in Where(c)[x]
    BY <1>1 DEF Single
<1>5. /\ ring[c] \in Seq(Packet) /\ RequestQue \in Seq(Packet) /\ query \in Seq(Packet)
      /\ DBResultQue \in Seq(Packet) /\ ResultQue \in Seq(Packet)
      /\ \A t \in PacketThreads : thread[t].packet \in Seq(Packet)
    BY <1>1, AllPackets
<1>6. {p \in Unanswered(c) : p.kind # "connect"} = asks[c]
  <2>1. ASSUME NEW q \in Seq(Packet), NEW p
        PROVE  p \in Asks(q, c) <=> p \in ToSet(q) /\ IsAsk(p, c)
      BY DEF Asks, ToSet
  <2>2. ASSUME NEW p
        PROVE  p \in Unanswered(c) /\ p.kind # "connect"
                   <=> \/ p \in Asks(ring[c], c) \/ p \in Asks(RequestQue, c)
                       \/ p \in Asks(query, c) \/ p \in Asks(DBResultQue, c)
                       \/ p \in Asks(ResultQue, c)
                       \/ \E t \in PacketThreads : p \in Asks(thread[t].packet, c)
    <3>1. p \in Queued <=> \/ p \in ToSet(RequestQue) \/ p \in ToSet(query)
                           \/ p \in ToSet(DBResultQue) \/ p \in ToSet(ResultQue)
        BY DEF Queued
    <3>2. p \in Held <=> \E t \in PacketThreads : p \in ToSet(thread[t].packet)
        BY DEF Held
    <3> QED
        BY <1>5, <2>1, <3>1, <3>2 DEF Unanswered, IsAsk
  <2>3. ASSUME NEW p
        PROVE  p \in asks[c]
                   <=> \/ p \in Asks(ring[c], c) \/ p \in Asks(RequestQue, c)
                       \/ p \in Asks(query, c) \/ p \in Asks(DBResultQue, c)
                       \/ p \in Asks(ResultQue, c)
                       \/ \E t \in PacketThreads : p \in Asks(thread[t].packet, c)
    <3>1. ASSUME NEW x \in Stations, p \in Where(c)[x]
          PROVE  \/ p \in Asks(ring[c], c) \/ p \in Asks(RequestQue, c)
                 \/ p \in Asks(query, c) \/ p \in Asks(DBResultQue, c)
                 \/ p \in Asks(ResultQue, c)
                 \/ \E t \in PacketThreads : p \in Asks(thread[t].packet, c)
      <4>1. \/ x \in {<<"ring", 0>>, <<"request", 0>>, <<"query", 0>>,
                    <<"db", 0>>, <<"result", 0>>}
            \/ \E t \in PacketThreads : x = <<"thread", t>>
          BY <1>2
      <4> QED
          BY <3>1, <4>1, WhereAt
    <3>2. ASSUME \/ p \in Asks(ring[c], c) \/ p \in Asks(RequestQue, c)
                 \/ p \in Asks(query, c) \/ p \in Asks(DBResultQue, c)
                 \/ p \in Asks(ResultQue, c)
                 \/ \E t \in PacketThreads : p \in Asks(thread[t].packet, c)
          PROVE  \E x \in Stations : p \in Where(c)[x]
      <4>1. /\ <<"ring", 0>> \in Stations /\ <<"request", 0>> \in Stations
            /\ <<"query", 0>> \in Stations /\ <<"db", 0>> \in Stations
            /\ <<"result", 0>> \in Stations
            /\ \A t \in PacketThreads : <<"thread", t>> \in Stations
          BY <1>2
      <4>2. CASE \E t \in PacketThreads : p \in Asks(thread[t].packet, c)
          BY <4>1, <4>2, WhereAt
      <4>3. CASE p \in Asks(ring[c], c) \/ p \in Asks(RequestQue, c)
                 \/ p \in Asks(query, c) \/ p \in Asks(DBResultQue, c)
                 \/ p \in Asks(ResultQue, c)
          BY <4>1, <4>3, WhereAt
      <4> QED
          BY <3>2, <4>2, <4>3
    <3> QED
        BY <1>4, <3>1, <3>2
  <2> QED
      BY <2>2, <2>3
<1>7. ASSUME NEW p \in asks[c] PROVE Cardinality(Copies(c, p)) = 1
  <2>1. PICK x \in Stations : p \in Where(c)[x] /\ \A y \in Stations : y # x => Where(c)[y] = {}
      BY <1>1 DEF Single
  <2>2. IsAsk(p, c)
      BY <2>1, WhereAt DEF Asks
  <2> DEFINE T == {<<"thread", t>> : t \in {u \in PacketThreads : thread[u].packet = <<p>>}}
  <2>3. \A t \in PacketThreads : thread[t].packet = <<p>> <=> p \in Asks(thread[t].packet, c)
    <3>1. ASSUME NEW t \in PacketThreads, thread[t].packet = <<p>>
          PROVE  p \in Asks(thread[t].packet, c)
        BY <2>2, <3>1, AsksOfOne
    <3>2. ASSUME NEW t \in PacketThreads, p \in Asks(thread[t].packet, c)
          PROVE  thread[t].packet = <<p>>
      <4>1. PICK q : thread[t].packet = <<q>>
          BY <1>3, <3>2, NoAsks
      <4>2. q = p
          BY <3>2, <4>1, AsksOfOne
      <4> QED
          BY <4>1, <4>2
    <3> QED
        BY <3>1, <3>2
  <2>4. /\ x # <<"ring", 0>> => PlacesIn("ring", ring[c], p) = {}
        /\ x # <<"request", 0>> => PlacesIn("request", RequestQue, p) = {}
        /\ x # <<"query", 0>> => PlacesIn("query", query, p) = {}
        /\ x # <<"db", 0>> => PlacesIn("db", DBResultQue, p) = {}
        /\ x # <<"result", 0>> => PlacesIn("result", ResultQue, p) = {}
      BY <1>2, <2>1, <2>2, NoPlace, WhereAt
  <2>5. (\A t \in PacketThreads : x # <<"thread", t>>) => T = {}
    <3>1. ASSUME NEW t \in PacketThreads, x # <<"thread", t>> PROVE thread[t].packet # <<p>>
      <4>1. Where(c)[<<"thread", t>>] = {}
          BY <1>2, <2>1, <3>1
      <4> QED
          BY <2>3, <4>1, WhereAt
    <3> QED
        BY <3>1
  <2>6. \E e : Copies(c, p) = {e}
    <3>1. CASE x = <<"ring", 0>>
      <4>1. PICK i : Found(ring[c], p) = {i}
        <5>1. p \in Asks(ring[c], c) /\ OneAsk(ring[c], c)
            BY <1>1, <2>1, <3>1, WhereAt DEF Waits
        <5> QED
            BY <5>1, OnePlace
      <4>2. PlacesIn("ring", ring[c], p) = {<<"ring", i>>}
          BY <4>1 DEF Found, PlacesIn
      <4> QED
          BY <2>4, <2>5, <3>1, <4>2 DEF Copies
    <3>2. CASE x = <<"request", 0>>
      <4>1. PICK i : Found(RequestQue, p) = {i}
        <5>1. p \in Asks(RequestQue, c) /\ OneAsk(RequestQue, c)
            BY <1>1, <2>1, <3>2, WhereAt DEF Waits
        <5> QED
            BY <5>1, OnePlace
      <4>2. PlacesIn("request", RequestQue, p) = {<<"request", i>>}
          BY <4>1 DEF Found, PlacesIn
      <4> QED
          BY <2>4, <2>5, <3>2, <4>2 DEF Copies
    <3>3. CASE x = <<"query", 0>>
      <4>1. PICK i : Found(query, p) = {i}
        <5>1. p \in Asks(query, c) /\ OneAsk(query, c)
            BY <1>3, <2>1, <3>3, WhereAt
        <5> QED
            BY <5>1, OnePlace
      <4>2. PlacesIn("query", query, p) = {<<"query", i>>}
          BY <4>1 DEF Found, PlacesIn
      <4> QED
          BY <2>4, <2>5, <3>3, <4>2 DEF Copies
    <3>4. CASE x = <<"db", 0>>
      <4>1. PICK i : Found(DBResultQue, p) = {i}
        <5>1. p \in Asks(DBResultQue, c) /\ OneAsk(DBResultQue, c)
            BY <1>1, <2>1, <3>4, WhereAt DEF Waits
        <5> QED
            BY <5>1, OnePlace
      <4>2. PlacesIn("db", DBResultQue, p) = {<<"db", i>>}
          BY <4>1 DEF Found, PlacesIn
      <4> QED
          BY <2>4, <2>5, <3>4, <4>2 DEF Copies
    <3>5. CASE x = <<"result", 0>>
      <4>1. PICK i : Found(ResultQue, p) = {i}
        <5>1. p \in Asks(ResultQue, c) /\ OneAsk(ResultQue, c)
            BY <1>1, <2>1, <3>5, WhereAt DEF Waits
        <5> QED
            BY <5>1, OnePlace
      <4>2. PlacesIn("result", ResultQue, p) = {<<"result", i>>}
          BY <4>1 DEF Found, PlacesIn
      <4> QED
          BY <2>4, <2>5, <3>5, <4>2 DEF Copies
    <3>6. ASSUME NEW t \in PacketThreads, x = <<"thread", t>> PROVE \E e : Copies(c, p) = {e}
      <4>1. thread[t].packet = <<p>>
          BY <2>1, <2>3, <3>6, WhereAt
      <4>2. ASSUME NEW u \in PacketThreads, thread[u].packet = <<p>> PROVE u = t
        <5>1. Where(c)[<<"thread", u>>] # {}
            BY <2>3, <4>2, WhereAt
        <5>2. <<"thread", u>> = x
            BY <1>2, <2>1, <5>1
        <5> QED
            BY <3>6, <5>2
      <4>3. T = {<<"thread", t>>}
          BY <4>1, <4>2
      <4> QED
          BY <2>4, <3>6, <4>3 DEF Copies
    <3> QED
        BY <1>2, <3>1, <3>2, <3>3, <3>4, <3>5, <3>6
  <2> QED
      BY <2>6, FS_Singleton
<1> QED
    BY <1>6, <1>7

(* A session at rest is as the request answered last asked for, granted or  *)
(* not; only logins are ever refused.                                       *)
THEOREM SessionAsAnswered == Spec => []SessionFollows
<1> SUFFICES ASSUME Inv PROVE SessionFollows
    BY Invariance, PTL
<1> SUFFICES ASSUME NEW c \in Clients \ (mixed \cup overtaken), Unanswered(c) = {},
                    \A q \in ToSet(login) : q.client # c
             PROVE  \A p \in answered[c] : Matches(c, p) /\ (success[c] \/ p.kind = "login")
    BY DEF SessionFollows, SessionIs, Matches
<1>1. Changed(c) = {}
    BY NothingUnderWay DEF Inv
<1>2. Asks(login, c) = {}
    BY DEF Asks, IsAsk, ToSet
<1> QED
    BY <1>1, <1>2 DEF Inv, Follows
=============================================================================
