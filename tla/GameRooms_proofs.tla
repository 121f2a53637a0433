-------------------------- MODULE GameRooms_proofs --------------------------
(***************************************************************************)
(* Proofs about GameRooms, for any clients, rooms, sizes and number of     *)
(* packet threads, in three layers, each of which uses the ones before:    *)
(*                                                                         *)
(*  - Inv: what is under way for a client agrees with what it asked for    *)
(*    and with the rooms it is a user of.  From it follow TypeOK,          *)
(*    RoomHolds, AnswersHold, OneAnswerComing and, at the end, that        *)
(*    GameRooms implements RoomService;                                    *)
(*  - InvKnown: of two users of a room each has heard of the other, or a   *)
(*    list or a notice that says so is under way.  NewcomersKnown follows; *)
(*  - InvSettle: as long as no exit crossed an entry, whom a client was    *)
(*    told of is in its room, or the notice that it left is under way.     *)
(*    ViewsSettle follows from this and the one before.                    *)
(*                                                                         *)
(* Each layer has a lemma per action, and lemmas for what actions share.   *)
(***************************************************************************)
EXTENDS GameRooms, FiniteSetTheorems, SequenceTheorems, TLAPS

(* Where an answer to a client comes from: a job, the worker, a packet      *)
(* thread or a result.                                                      *)
WorkerAnswers  == {"tested", "entered", "answer"}
ThreadAnswers  == {"turned", "entered", "deny", "answer", "left"}
HasJob(c)      == \E r \in Rooms : \E i \in 1 .. Len(jobs[r]) : jobs[r][i] = c
AtWork(c)      == worker.client = c /\ worker.at \in WorkerAnswers
AtThread(t, c) == thread[t].client = c /\ thread[t].at \in ThreadAnswers
HasResult(c, x) == \E i \in 1 .. Len(ResultQue) : ResultQue[i] = <<c, x>>

(* Not two of a kind. *)
JobOne(c) ==
    \A q, r \in Rooms : \A i \in 1 .. Len(jobs[q]) : \A j \in 1 .. Len(jobs[r]) :
        jobs[q][i] = c /\ jobs[r][j] = c => q = r /\ i = j
ResultOne(c) ==
    \A i, j \in 1 .. Len(ResultQue) : ResultQue[i][1] = c /\ ResultQue[j][1] = c => i = j

(* The client is a user of room x and of no other, or of none. *)
OnlyIn(c, x) == \A r \in Rooms : c \in EnterUsers[r] <=> x = r

(* What is under way for a client agrees with what it asked for and with    *)
(* where it is.                                                             *)
WaitsJob(c) ==
    /\ HasJob(c) => asks[c] = "enter" /\ OnlyIn(c, None) /\ ~AtWork(c)
    /\ JobOne(c)

WaitsWorker(c) ==
    AtWork(c) => /\ asks[c] = "enter"
                 /\ OnlyIn(c, IF worker.at = "tested" THEN None ELSE worker.room)
                 /\ worker.at = "answer" => RoomId[c] = worker.room

WaitsThread(c) ==
    \A t \in PacketThreads : AtThread(t, c) =>
        /\ asks[c] = IF thread[t].at = "left" THEN "exiting" ELSE "chat"
        /\ OnlyIn(c, IF thread[t].at \in {"entered", "answer"} THEN thread[t].room ELSE None)
        /\ thread[t].at = "answer" => RoomId[c] = thread[t].room
        /\ \A u \in PacketThreads : AtThread(u, c) => u = t

WaitsResult(c) ==
    /\ \A x \in Rooms \cup {None} : HasResult(c, x) =>
          /\ asks[c] \in {"chat", "exiting"} /\ OnlyIn(c, x)
          /\ x # None => RoomId[c] = x /\ asks[c] = "chat"
          /\ \A t \in PacketThreads : ~AtThread(t, c)
    /\ ResultOne(c)

(* Who waits for an answer will get it. *)
SomeAnswer(c) ==
    /\ asks[c] = "enter" => HasJob(c) \/ AtWork(c)
    /\ asks[c] \in {"chat", "exiting"} =>
          \/ \E t \in PacketThreads : AtThread(t, c)
          \/ \E x \in Rooms \cup {None} : HasResult(c, x)

(* Who waits for none is where it was told. *)
Whereabouts(c) ==
    /\ asks[c] \in {"enter", "chat", "refused"} => inRoom[c] = None
    /\ asks[c] = "refused" => OnlyIn(c, None)
    /\ asks[c] = "chat" => c \in Chatters
    /\ asks[c] \in {"none", "exit"} =>
          OnlyIn(c, inRoom[c]) /\ (inRoom[c] # None => RoomId[c] = inRoom[c])

Waits(c) == /\ WaitsJob(c) /\ WaitsWorker(c) /\ WaitsThread(c) /\ WaitsResult(c)
            /\ SomeAnswer(c) /\ Whereabouts(c)

(* Whoever is at work is at work for somebody, and its broadcast has a room.*)
WorkerShape ==
    /\ IF worker.at = "idle" THEN worker.client = None
                             ELSE worker.client \in Clients /\ worker.room \in Rooms
    /\ worker.at \notin {"idle", "tested", "entered"} => RoomId[worker.client] \in Rooms

ThreadShape(t) ==
    /\ IF thread[t].at = "idle" THEN thread[t].client = None /\ thread[t].room = None
                                ELSE thread[t].client \in Clients
    /\ thread[t].at \in {"turned", "entered", "deny", "answer"} => thread[t].room \in Rooms
    /\ thread[t].at = "left" => thread[t].room = None
    /\ thread[t].at \in {"deny", "answer", "left", "copy", "send"}
          => RoomId[thread[t].client] \in Rooms

Shapes == WorkerShape /\ \A t \in PacketThreads : ThreadShape(t)

(* A room that was not raced is not over its size, and the worker that      *)
(* tested it still finds a place.                                           *)
Sizes ==
    \A r \in Rooms :
        /\ IsFiniteSet(EnterUsers[r])
        /\ r \notin raced => Cardinality(EnterUsers[r]) <= MaxEnterSize[r]
        /\ r \notin raced /\ worker.at = "tested" /\ worker.room = r
              => Cardinality(EnterUsers[r]) < MaxEnterSize[r]

Inv == TypeOK /\ Shapes /\ (\A c \in Clients : Waits(c)) /\ Sizes

(* c will hear of d: from its list, or from d's notice. *)
ToList(c)    == worker.client = c /\ worker.at \in {"entered", "answer", "list"}
ToTell(c, d) == worker.client = c /\ worker.at = "tell" /\ d \in worker.to
WorkerNotes(c, d) ==
    worker.client = d /\ \/ worker.at \in {"entered", "answer", "list", "tell", "copy"}
                         \/ worker.at = "send" /\ c \in worker.to
ThreadNotes(t, c, d) ==
    thread[t].client = d /\ thread[t].room # None /\
        \/ thread[t].at \in {"entered", "answer", "copy"}
        \/ thread[t].at = "send" /\ c \in thread[t].to
Hearing(c, d) == \/ d \in view[c] \/ ToList(c) \/ ToTell(c, d) \/ WorkerNotes(c, d)
                 \/ \E t \in PacketThreads : ThreadNotes(t, c, d)

Informed ==
    \A r \in Rooms : \A c, d \in EnterUsers[r] \ hasty : c \notin Chatters => Hearing(c, d)

(* A user whose exit is still handled is one that came back. *)
LeavingIsHasty == \A r \in Rooms : \A d \in EnterUsers[r] : LeavingOne(d) => d \in hasty

(* The worker enters its client into one room. *)
WorkerRoom ==
    worker.at \notin {"idle", "tested"} /\ worker.client \notin Chatters =>
        \A r \in Rooms : worker.client \in EnterUsers[r] => r = worker.room

InvKnown == Informed /\ LeavingIsHasty /\ WorkerRoom

(* d's exit will reach c. *)
ThreadForgets(t, r, c, d) ==
    thread[t].client = d /\ thread[t].room = None /\
        \/ thread[t].at \in {"left", "copy"} /\ RoomId[d] = r
        \/ thread[t].at = "send" /\ c \in thread[t].to

NoneStale ==
    \A r \in Rooms : \A c \in EnterUsers[r] \ Chatters : \A d \in view[c] :
        d \in EnterUsers[r] \/ \E t \in PacketThreads : ThreadForgets(t, r, c, d)

OutHearsNothing == \A c \in Clients : inRoom[c] = None => view[c] = {}

(* What holds of handlers as long as no exit crossed an entry.              *)
LeavingApart ==
    \A c \in Clients : LeavingOne(c) =>
          /\ worker.at \in {"idle", "tested"}
          /\ \A t \in PacketThreads : thread[t].room = None \/ thread[t].at \in {"turned", "deny"}
          /\ \A t \in PacketThreads : thread[t].client = c => thread[t].room = None

WorkerApart ==
    worker.at \notin {"idle", "tested"} =>
          /\ worker.client \in EnterUsers[worker.room]
          /\ worker.at # "entered" => RoomId[worker.client] = worker.room
          /\ worker.at \in {"tell", "send"} => worker.to \subseteq EnterUsers[worker.room]
          /\ \A t \in PacketThreads : thread[t].client # worker.client

ThreadsApart ==
    \A t \in PacketThreads :
        thread[t].room # None /\ thread[t].at \in {"entered", "answer", "copy", "send"} =>
          /\ thread[t].client \in EnterUsers[thread[t].room]
          /\ thread[t].at # "entered" => RoomId[thread[t].client] = thread[t].room
          /\ thread[t].at = "send" => thread[t].to \subseteq EnterUsers[thread[t].room]
          /\ \A u \in PacketThreads : thread[u].client = thread[t].client => u = t

Apart == hasty = {} /\ LeavingApart /\ WorkerApart /\ ThreadsApart /\ NoneStale

InvSettle == OutHearsNothing /\ (~crossed => Apart)
-----------------------------------------------------------------------------
LEMMA Appended ==
    ASSUME NEW S, NEW s \in Seq(S), NEW e \in S
    PROVE  /\ Len(s) \in Nat /\ Len(Append(s, e)) = Len(s) + 1
           /\ Append(s, e)[Len(s) + 1] = e
           /\ \A i \in 1 .. Len(s) : Append(s, e)[i] = s[i]
OBVIOUS

(* A job that is queued is one of its client, and the others keep theirs.   *)
LEMMA JobQueued ==
    ASSUME NEW r \in Rooms, NEW d \in Clients, jobs \in [Rooms -> Seq(Clients)],
           jobs' = [jobs EXCEPT ![r] = Append(@, d)], NEW c \in Clients, JobOne(c)
    PROVE  /\ c # d => (HasJob(c)' <=> HasJob(c))
           /\ c = d => HasJob(c)'
           /\ (c # d \/ ~HasJob(c)) => JobOne(c)'
<1>1. /\ jobs[r] \in Seq(Clients) /\ Len(jobs[r]) \in Nat
      /\ jobs'[r] = Append(jobs[r], d)
      /\ \A q \in Rooms : q # r => jobs'[q] = jobs[q]
    OBVIOUS
<1>2. /\ Len(jobs'[r]) = Len(jobs[r]) + 1 /\ jobs'[r][Len(jobs[r]) + 1] = d
      /\ \A i \in 1 .. Len(jobs[r]) : jobs'[r][i] = jobs[r][i]
    BY <1>1
<1>3. c # d => \A q \in Rooms : \A i \in 1 .. Len(jobs'[q]) :
                   jobs'[q][i] = c => i \in 1 .. Len(jobs[q]) /\ jobs[q][i] = c
    BY <1>1, <1>2
<1>4. \A q \in Rooms : \A i \in 1 .. Len(jobs[q]) :
          i \in 1 .. Len(jobs'[q]) /\ jobs'[q][i] = jobs[q][i]
    BY <1>1, <1>2
<1>5. c # d => (HasJob(c)' <=> HasJob(c))
    BY <1>3, <1>4 DEF HasJob
<1>6. c = d => HasJob(c)'
    BY <1>1, <1>2 DEF HasJob
<1>7. c # d => JobOne(c)'
    BY <1>3 DEF JobOne
<1>8. c = d /\ ~HasJob(c) => JobOne(c)'
  <2> SUFFICES ASSUME c = d, ~HasJob(c), NEW p \in Rooms, NEW q \in Rooms,
                      NEW i \in 1 .. Len(jobs'[p]), NEW j \in 1 .. Len(jobs'[q]),
                      jobs'[p][i] = c, jobs'[q][j] = c
               PROVE  p = q /\ i = j
      BY DEF JobOne
  <2>1. p = r /\ i = Len(jobs[r]) + 1
      BY <1>1, <1>2 DEF HasJob
  <2>2. q = r /\ j = Len(jobs[r]) + 1
      BY <1>1, <1>2 DEF HasJob
  <2> QED
      BY <2>1, <2>2
<1> QED
    BY <1>5, <1>6, <1>7, <1>8

(* The first job of a room is taken. *)
LEMMA JobTaken ==
    ASSUME NEW r \in Rooms, jobs \in [Rooms -> Seq(Clients)], jobs[r] # <<>>,
           jobs' = [jobs EXCEPT ![r] = Tail(@)], NEW c \in Clients, JobOne(c)
    PROVE  /\ Head(jobs[r]) \in Clients /\ HasJob(Head(jobs[r]))
           /\ c # Head(jobs[r]) => (HasJob(c)' <=> HasJob(c))
           /\ c = Head(jobs[r]) => ~HasJob(c)'
           /\ JobOne(c)'
<1>1. /\ jobs[r] \in Seq(Clients) /\ Len(jobs[r]) \in Nat \ {0}
      /\ jobs'[r] = Tail(jobs[r]) /\ Head(jobs[r]) = jobs[r][1]
      /\ \A q \in Rooms : q # r => jobs'[q] = jobs[q]
    OBVIOUS
<1>2. /\ Len(jobs'[r]) = Len(jobs[r]) - 1
      /\ \A i \in 1 .. Len(jobs'[r]) : jobs'[r][i] = jobs[r][i + 1]
    BY <1>1
<1>3. Head(jobs[r]) \in Clients /\ HasJob(Head(jobs[r]))
    BY <1>1 DEF HasJob
<1>4. ASSUME NEW q \in Rooms, NEW i \in 1 .. Len(jobs'[q])
      PROVE  /\ q = r => i + 1 \in 1 .. Len(jobs[q]) /\ jobs'[q][i] = jobs[q][i + 1]
             /\ q # r => i \in 1 .. Len(jobs[q]) /\ jobs'[q][i] = jobs[q][i]
    BY <1>1, <1>2
<1>5. JobOne(c)'
  <2> SUFFICES ASSUME NEW p \in Rooms, NEW q \in Rooms,
                      NEW i \in 1 .. Len(jobs'[p]), NEW j \in 1 .. Len(jobs'[q]),
                      jobs'[p][i] = c, jobs'[q][j] = c
               PROVE  p = q /\ i = j
      BY DEF JobOne
  <2>1. p = q
      BY <1>4 DEF JobOne
  <2>2. CASE p = r
    <3>1. i + 1 = j + 1
        BY <1>4, <2>1, <2>2 DEF JobOne
    <3> QED
        BY <2>1, <3>1
  <2>3. CASE p # r
      BY <1>4, <2>1, <2>3 DEF JobOne
  <2> QED
      BY <2>1, <2>2, <2>3
<1>6. HasJob(c)' => HasJob(c)
    BY <1>4 DEF HasJob
<1>7. c # Head(jobs[r]) /\ HasJob(c) => HasJob(c)'
  <2> SUFFICES ASSUME c # jobs[r][1], NEW q \in Rooms, NEW i \in 1 .. Len(jobs[q]),
                      jobs[q][i] = c
               PROVE  HasJob(c)'
      BY <1>1 DEF HasJob
  <2>1. CASE q = r
    <3>1. i - 1 \in 1 .. Len(jobs'[r]) /\ jobs'[r][i - 1] = c
        BY <1>1, <1>2, <2>1
    <3> QED
        BY <3>1 DEF HasJob
  <2>2. CASE q # r
      BY <1>1, <2>2 DEF HasJob
  <2> QED
      BY <2>1, <2>2
<1>8. c = Head(jobs[r]) => ~HasJob(c)'
  <2> SUFFICES ASSUME c = jobs[r][1], NEW q \in Rooms, NEW i \in 1 .. Len(jobs'[q]),
                      jobs'[q][i] = c
               PROVE  FALSE
      BY <1>1 DEF HasJob
  <2>1. 1 \in 1 .. Len(jobs[r])
      BY <1>1
  <2>2. CASE q = r
    <3>1. i + 1 = 1
        BY <1>4, <2>1, <2>2 DEF JobOne
    <3> QED
        BY <3>1
  <2>3. CASE q # r
      BY <1>4, <2>1, <2>3 DEF JobOne
  <2> QED
      BY <2>2, <2>3
<1> QED
    BY <1>3, <1>5, <1>6, <1>7, <1>8

(* An answer that is pushed is one for its client, and the others keep      *)
(* theirs.                                                                  *)
LEMMA ResultPushed ==
    ASSUME NEW d \in Clients, NEW x \in Rooms \cup {None}, NEW e, e = <<d, x>>,
           NEW S, S = Clients \X (Rooms \cup {None}),
           ResultQue \in Seq(S), ResultQue' = Append(ResultQue, e),
           NEW c \in Clients, ResultOne(c)
    PROVE  /\ c # d => \A y \in Rooms \cup {None} : HasResult(c, y)' <=> HasResult(c, y)
           /\ c = d => HasResult(c, x)'
           /\ c = d /\ (\A y \in Rooms \cup {None} : ~HasResult(c, y)) =>
                 \A y \in Rooms \cup {None} : HasResult(c, y)' => y = x
           /\ c # d \/ (\A y \in Rooms \cup {None} : ~HasResult(c, y)) => ResultOne(c)'
<1>1. e \in S /\ e[1] = d /\ e[2] = x
    OBVIOUS
<1>2. /\ Len(ResultQue) \in Nat /\ Len(ResultQue') = Len(ResultQue) + 1
      /\ ResultQue'[Len(ResultQue) + 1] = e
      /\ \A i \in 1 .. Len(ResultQue) : ResultQue'[i] = ResultQue[i]
    BY <1>1, Appended
<1>3. \A i \in 1 .. Len(ResultQue) : ResultQue[i] \in S
    OBVIOUS
<1>4. \A i \in 1 .. Len(ResultQue) : \E y \in Rooms \cup {None} :
          ResultQue[i] = <<ResultQue[i][1], y>>
    BY <1>3
<1>5. ASSUME NEW i \in 1 .. Len(ResultQue')
      PROVE  \/ i = Len(ResultQue) + 1 /\ ResultQue'[i] = e
             \/ i \in 1 .. Len(ResultQue) /\ ResultQue'[i] = ResultQue[i]
    BY <1>2
<1>6. c # d => \A y \in Rooms \cup {None} : HasResult(c, y)' <=> HasResult(c, y)
  <2> SUFFICES ASSUME c # d, NEW y \in Rooms \cup {None}
               PROVE  HasResult(c, y)' <=> HasResult(c, y)
      OBVIOUS
  <2>1. HasResult(c, y)' => HasResult(c, y)
      BY <1>5 DEF HasResult
  <2>2. HasResult(c, y) => HasResult(c, y)'
    <3>1. \A i \in 1 .. Len(ResultQue) : i \in 1 .. Len(ResultQue')
        BY <1>2
    <3> QED
        BY <1>2, <3>1 DEF HasResult
  <2> QED
      BY <2>1, <2>2
<1>7. c = d => HasResult(c, x)'
  <2>1. Len(ResultQue) + 1 \in 1 .. Len(ResultQue')
      BY <1>2
  <2> QED
      BY <1>2, <2>1 DEF HasResult
<1>8. (\A y \in Rooms \cup {None} : ~HasResult(c, y)) =>
          \A i \in 1 .. Len(ResultQue) : ResultQue[i][1] # c
    BY <1>4 DEF HasResult
<1>9. c = d /\ (\A y \in Rooms \cup {None} : ~HasResult(c, y)) =>
          \A y \in Rooms \cup {None} : HasResult(c, y)' => y = x
  <2> SUFFICES ASSUME c = d, \A y \in Rooms \cup {None} : ~HasResult(c, y),
                      NEW y \in Rooms \cup {None}, NEW i \in 1 .. Len(ResultQue'),
                      ResultQue'[i] = <<c, y>>
               PROVE  y = x
      BY DEF HasResult
  <2> QED
      BY <1>5, <1>8
<1>10. c # d \/ (\A y \in Rooms \cup {None} : ~HasResult(c, y)) => ResultOne(c)'
  <2> SUFFICES ASSUME c # d \/ (\A y \in Rooms \cup {None} : ~HasResult(c, y)),
                      NEW i \in 1 .. Len(ResultQue'), NEW j \in 1 .. Len(ResultQue'),
                      ResultQue'[i][1] = c, ResultQue'[j][1] = c
               PROVE  i = j
      BY DEF ResultOne
  <2>1. CASE c # d
      BY <1>1, <1>5, <2>1 DEF ResultOne
  <2>2. CASE \A y \in Rooms \cup {None} : ~HasResult(c, y)
      BY <1>5, <1>8, <2>2
  <2> QED
      BY <2>1, <2>2
<1> QED
    BY <1>6, <1>7, <1>9, <1>10

(* The first answer is taken. *)
LEMMA ResultTaken ==
    ASSUME ResultQue \in Seq(Clients \X (Rooms \cup {None})), ResultQue # <<>>,
           ResultQue' = Tail(ResultQue), NEW c \in Clients, ResultOne(c)
    PROVE  /\ Head(ResultQue)[1] \in Clients /\ Head(ResultQue)[2] \in Rooms \cup {None}
           /\ HasResult(Head(ResultQue)[1], Head(ResultQue)[2])
           /\ c # Head(ResultQue)[1] =>
                 \A y \in Rooms \cup {None} : HasResult(c, y)' <=> HasResult(c, y)
           /\ c = Head(ResultQue)[1] => \A y \in Rooms \cup {None} : ~HasResult(c, y)'
           /\ ResultOne(c)'
<1> DEFINE Answer == Clients \X (Rooms \cup {None})
<1>1. /\ Len(ResultQue) \in Nat \ {0} /\ Len(ResultQue') = Len(ResultQue) - 1
      /\ Head(ResultQue) = ResultQue[1]
      /\ \A i \in 1 .. Len(ResultQue') : ResultQue'[i] = ResultQue[i + 1]
      /\ \A i \in 1 .. Len(ResultQue) : ResultQue[i] \in Answer
  <2> HIDE DEF Answer
  <2>1. ResultQue \in Seq(Answer)
      BY DEF Answer
  <2> QED
      BY <2>1
<1>2. 1 \in 1 .. Len(ResultQue) /\ ResultQue[1] \in Answer
  <2>1. 1 \in 1 .. Len(ResultQue)
      BY <1>1
  <2> QED
      BY <1>1, <2>1
<1>3. /\ ResultQue[1][1] \in Clients /\ ResultQue[1][2] \in Rooms \cup {None}
      /\ ResultQue[1] = <<ResultQue[1][1], ResultQue[1][2]>>
    BY <1>2
<1>4. HasResult(Head(ResultQue)[1], Head(ResultQue)[2])
    BY <1>1, <1>2, <1>3 DEF HasResult
<1>5. \A i \in 1 .. Len(ResultQue') : i + 1 \in 1 .. Len(ResultQue)
    BY <1>1
<1>6. ResultOne(c)'
  <2> SUFFICES ASSUME NEW i \in 1 .. Len(ResultQue'), NEW j \in 1 .. Len(ResultQue'),
                      ResultQue'[i][1] = c, ResultQue'[j][1] = c
               PROVE  i = j
      BY DEF ResultOne
  <2>1. i + 1 = j + 1
      BY <1>1, <1>5 DEF ResultOne
  <2> QED
      BY <2>1
<1>7. ASSUME NEW y \in Rooms \cup {None}, HasResult(c, y)' PROVE HasResult(c, y)
    BY <1>1, <1>5, <1>7 DEF HasResult
<1>8. ASSUME c # Head(ResultQue)[1], NEW y \in Rooms \cup {None}, HasResult(c, y)
      PROVE  HasResult(c, y)'
  <2>1. PICK i \in 1 .. Len(ResultQue) : ResultQue[i] = <<c, y>>
      BY <1>8 DEF HasResult
  <2>2. i # 1
      BY <1>1, <1>8, <2>1
  <2>3. i - 1 \in 1 .. Len(ResultQue') /\ (i - 1) + 1 = i
      BY <1>1, <2>2
  <2>4. ResultQue'[i - 1] = <<c, y>>
      BY <1>1, <2>1, <2>3
  <2> QED
      BY <2>3, <2>4 DEF HasResult
<1>9. ASSUME c = Head(ResultQue)[1], NEW y \in Rooms \cup {None}, HasResult(c, y)'
      PROVE  FALSE
  <2>1. PICK i \in 1 .. Len(ResultQue') : ResultQue'[i] = <<c, y>>
      BY <1>9 DEF HasResult
  <2>2. i + 1 \in 1 .. Len(ResultQue) /\ ResultQue[i + 1][1] = c
      BY <1>1, <1>5, <2>1
  <2>3. i + 1 = 1
      BY <1>1, <1>2, <1>9, <2>2 DEF ResultOne
  <2> QED
      BY <2>3
<1> QED
    BY <1>1, <1>3, <1>4, <1>6, <1>7, <1>8, <1>9

(* A client nothing of which a step touches keeps what is under way for it. *)
LEMMA Untouched ==
    ASSUME NEW c \in Clients, Waits(c),
           asks'[c] = asks[c], inRoom'[c] = inRoom[c], RoomId'[c] = RoomId[c],
           \A r \in Rooms : c \in EnterUsers'[r] <=> c \in EnterUsers[r],
           HasJob(c)' <=> HasJob(c), JobOne(c)',
           \A x \in Rooms \cup {None} : HasResult(c, x)' <=> HasResult(c, x),
           ResultOne(c)',
           \/ worker' = worker
           \/ ~AtWork(c) /\ ~AtWork(c)',
           \A t \in PacketThreads :
               \/ thread'[t] = thread[t]
               \/ ~AtThread(t, c) /\ ~AtThread(t, c)'
    PROVE  Waits(c)'
<1>1. \A x : OnlyIn(c, x)' <=> OnlyIn(c, x)
    BY DEF OnlyIn
<1>2. AtWork(c)' <=> AtWork(c)
    BY DEF AtWork
<1>3. AtWork(c) => worker' = worker
    OBVIOUS
<1>4. \A t \in PacketThreads : AtThread(t, c)' <=> AtThread(t, c)
    BY DEF AtThread
<1>5. \A t \in PacketThreads : AtThread(t, c) => thread'[t] = thread[t]
    OBVIOUS
<1>6. WaitsJob(c)'
    BY <1>1, <1>2 DEF Waits, WaitsJob
<1>7. WaitsWorker(c)'
    BY <1>1, <1>2, <1>3 DEF Waits, WaitsWorker
<1>8. WaitsThread(c)'
    BY <1>1, <1>4, <1>5 DEF Waits, WaitsThread
<1>9. WaitsResult(c)'
    BY <1>1, <1>4 DEF Waits, WaitsResult
<1>10. SomeAnswer(c)'
    BY <1>2, <1>4 DEF Waits, SomeAnswer
<1>11. Whereabouts(c)'
    BY <1>1 DEF Waits, Whereabouts
<1> QED
    BY <1>6, <1>7, <1>8, <1>9, <1>10, <1>11 DEF Waits

-----------------------------------------------------------------------------
LEMMA InitInv == Init => Inv
<1> SUFFICES ASSUME Init PROVE Inv
    OBVIOUS
<1>1. TypeOK
  <2>1. /\ RoomId \in [Clients -> Rooms \cup {None}]
        /\ EnterUsers \in [Rooms -> SUBSET Clients]
        /\ jobs \in [Rooms -> Seq(Clients)]
      BY DEF Init
  <2> DEFINE S == Clients \X (Rooms \cup {None})
  <2>a. ResultQue \in Seq(S)
    <3> HIDE DEF S
    <3> QED
        BY DEF Init
  <2>2. /\ asks \in [Clients -> {"none", "enter", "chat", "refused", "exit", "exiting"}]
        /\ inRoom \in [Clients -> Rooms \cup {None}]
        /\ view \in [Clients -> SUBSET Clients]
        /\ hasty \subseteq Clients /\ raced \subseteq Rooms /\ crossed \in BOOLEAN
      BY DEF Init
  <2>3. worker \in [at : {"idle", "tested", "entered", "answer", "list", "tell", "copy",
                         "send"},
                   client : Clients \cup {None}, room : Rooms \cup {None},
                   to : SUBSET Clients]
      BY DEF Init, IdleWorker
  <2>4. thread \in [PacketThreads ->
                      [at : {"idle", "turned", "entered", "deny", "answer", "left", "copy",
                             "send"},
                       client : Clients \cup {None}, room : Rooms \cup {None},
                       to : SUBSET Clients]]
      BY DEF Init, IdleThread
  <2> QED
      BY <2>1, <2>a, <2>2, <2>3, <2>4 DEF TypeOK
<1>2. Shapes
    BY DEF Init, Shapes, WorkerShape, ThreadShape, IdleWorker, IdleThread
<1>3. ASSUME NEW c \in Clients PROVE Waits(c)
  <2>1. \A r \in Rooms : jobs[r] = <<>> /\ Len(jobs[r]) = 0
      BY DEF Init
  <2>2. ~HasJob(c) /\ JobOne(c)
      BY <2>1 DEF HasJob, JobOne
  <2>3. ResultOne(c) /\ \A x : ~HasResult(c, x)
      BY DEF Init, HasResult, ResultOne
  <2>4. ~AtWork(c) /\ \A t \in PacketThreads : ~AtThread(t, c)
      BY NoneAssumption DEF Init, AtWork, AtThread, IdleWorker, IdleThread
  <2>5. OnlyIn(c, None) /\ inRoom[c] = None /\ asks[c] = "none"
      BY NoneAssumption DEF Init, OnlyIn
  <2> QED
      BY <2>2, <2>3, <2>4, <2>5
         DEF Waits, WaitsJob, WaitsWorker, WaitsThread, WaitsResult, SomeAnswer, Whereabouts
<1>4. Sizes
  <2>1. IsFiniteSet({}) /\ Cardinality({}) = 0
      BY FS_EmptySet
  <2>2. \A r \in Rooms : EnterUsers[r] = {} /\ MaxEnterSize[r] \in Nat
      BY MaxEnterSizeAssumption DEF Init
  <2>3. worker.at # "tested"
      BY DEF Init, IdleWorker
  <2> QED
      BY <2>1, <2>2, <2>3 DEF Sizes
<1> QED
    BY <1>1, <1>2, <1>3, <1>4 DEF Inv

(* Steps that answer nobody and move nobody. *)
LEMMA NobodyWaits ==
    ASSUME \A c \in Clients : Waits(c),
           UNCHANGED <<RoomId, EnterUsers, jobs, ResultQue, asks, inRoom>>,
           \/ worker' = worker
           \/ worker.at \notin WorkerAnswers /\ worker'.at \notin WorkerAnswers,
           \A t \in PacketThreads :
               \/ thread'[t] = thread[t]
               \/ thread[t].at \notin ThreadAnswers /\ thread'[t].at \notin ThreadAnswers
    PROVE  \A c \in Clients : Waits(c)'
<1> SUFFICES ASSUME NEW c \in Clients PROVE Waits(c)'
    OBVIOUS
<1>1. (HasJob(c)' <=> HasJob(c)) /\ (JobOne(c)' <=> JobOne(c)) /\ JobOne(c)
    BY DEF HasJob, JobOne, Waits, WaitsJob
<1>2. (\A x : HasResult(c, x)' <=> HasResult(c, x)) /\ (ResultOne(c)' <=> ResultOne(c))
      /\ ResultOne(c)
    BY DEF HasResult, ResultOne, Waits, WaitsResult
<1>3. worker' = worker \/ (~AtWork(c) /\ ~AtWork(c)')
    BY DEF AtWork
<1>4. \A t \in PacketThreads :
          thread'[t] = thread[t] \/ (~AtThread(t, c) /\ ~AtThread(t, c)')
    BY DEF AtThread
<1> QED
    BY <1>1, <1>2, <1>3, <1>4, Untouched

LEMMA SizesSame ==
    ASSUME Sizes, UNCHANGED <<EnterUsers, raced>>, worker' = worker \/ worker'.at # "tested"
    PROVE  Sizes'
BY DEF Sizes

LEMMA ListUsersInv == Inv /\ ListUsers => Inv'
<1> SUFFICES ASSUME Inv, ListUsers PROVE Inv'
    OBVIOUS
<1>1. TypeOK /\ Shapes /\ (\A c \in Clients : Waits(c)) /\ Sizes
    BY DEF Inv
<1>2. worker.room \in Rooms /\ EnterUsers[worker.room] \subseteq Clients
    BY <1>1 DEF ListUsers, Shapes, WorkerShape, TypeOK
<1>3. /\ worker.at = "list" /\ worker'.at = "tell" /\ worker'.client = worker.client
      /\ worker'.room = worker.room
      /\ UNCHANGED <<RoomId, EnterUsers, jobs, thread, ResultQue, asks, inRoom, view,
                     hasty, raced, crossed>>
    BY <1>1 DEF ListUsers, TypeOK, roomVars, clientVars, history
<1>4. TypeOK'
    BY <1>1, <1>2 DEF ListUsers, TypeOK, roomVars, clientVars, history
<1>5. Shapes'
    BY <1>1, <1>3 DEF Shapes, WorkerShape, ThreadShape
<1>6. \A c \in Clients : Waits(c)'
    BY <1>1, <1>3, NobodyWaits DEF WorkerAnswers
<1>7. Sizes'
    BY <1>1, <1>3, SizesSame
<1> QED
    BY <1>4, <1>5, <1>6, <1>7 DEF Inv

LEMMA TellNewcomerInv == Inv /\ TellNewcomer => Inv'
<1> SUFFICES ASSUME Inv, TellNewcomer PROVE Inv'
    OBVIOUS
<1>1. TypeOK /\ Shapes /\ (\A c \in Clients : Waits(c)) /\ Sizes
    BY DEF Inv
<1>2. worker.client \in Clients /\ worker.to \subseteq Clients
    BY <1>1 DEF TellNewcomer, Shapes, WorkerShape, TypeOK
<1>3. /\ worker.at = "tell" /\ worker'.at = "copy" /\ worker'.client = worker.client
      /\ worker'.room = worker.room
      /\ UNCHANGED <<RoomId, EnterUsers, jobs, thread, ResultQue, asks, inRoom,
                     hasty, raced, crossed>>
    BY <1>1 DEF TellNewcomer, TypeOK, roomVars, history
<1>4. view' \in [Clients -> SUBSET Clients]
    BY <1>1, <1>2 DEF TellNewcomer, Hears, TypeOK
<1>5. TypeOK'
    BY <1>1, <1>3, <1>4 DEF TellNewcomer, TypeOK
<1>6. Shapes'
    BY <1>1, <1>3 DEF Shapes, WorkerShape, ThreadShape
<1>7. \A c \in Clients : Waits(c)'
    BY <1>1, <1>3, NobodyWaits DEF WorkerAnswers
<1>8. Sizes'
    BY <1>1, <1>3, SizesSame
<1> QED
    BY <1>5, <1>6, <1>7, <1>8 DEF Inv

LEMMA CopyForNewUserInv == Inv /\ CopyForNewUser => Inv'
<1> SUFFICES ASSUME Inv, CopyForNewUser PROVE Inv'
    OBVIOUS
<1>1. TypeOK /\ Shapes /\ (\A c \in Clients : Waits(c)) /\ Sizes
    BY DEF Inv
<1>2. EnterUsers[RoomId[worker.client]] \subseteq Clients
    BY <1>1 DEF CopyForNewUser, Shapes, WorkerShape, TypeOK
<1>3. /\ worker.at = "copy" /\ worker'.at = "send" /\ worker'.client = worker.client
      /\ worker'.room = worker.room
      /\ UNCHANGED <<RoomId, EnterUsers, jobs, thread, ResultQue, asks, inRoom, view,
                     hasty, raced, crossed>>
    BY <1>1 DEF CopyForNewUser, TypeOK, roomVars, clientVars, history
<1>4. TypeOK'
    BY <1>1, <1>2 DEF CopyForNewUser, TypeOK, roomVars, clientVars, history
<1>5. Shapes'
    BY <1>1, <1>3 DEF Shapes, WorkerShape, ThreadShape
<1>6. \A c \in Clients : Waits(c)'
    BY <1>1, <1>3, NobodyWaits DEF WorkerAnswers
<1>7. Sizes'
    BY <1>1, <1>3, SizesSame
<1> QED
    BY <1>4, <1>5, <1>6, <1>7 DEF Inv

LEMMA SendNewUserInv == Inv /\ SendNewUser => Inv'
<1> SUFFICES ASSUME Inv, SendNewUser PROVE Inv'
    OBVIOUS
<1>1. TypeOK /\ Shapes /\ (\A c \in Clients : Waits(c)) /\ Sizes
    BY DEF Inv
<1>2. worker.client \in Clients
    BY <1>1 DEF SendNewUser, Shapes, WorkerShape, TypeOK
<1>3. /\ worker.at = "send" /\ worker' = IdleWorker
      /\ UNCHANGED <<RoomId, EnterUsers, jobs, thread, ResultQue, asks, inRoom,
                     hasty, raced, crossed>>
    BY <1>1 DEF SendNewUser, TypeOK, roomVars, history
<1>4. view' \in [Clients -> SUBSET Clients]
    BY <1>1, <1>2 DEF SendNewUser, Hears, TypeOK
<1>5. TypeOK'
    BY <1>1, <1>3, <1>4 DEF TypeOK, IdleWorker
<1>6. Shapes'
    BY <1>1, <1>3 DEF Shapes, WorkerShape, ThreadShape, IdleWorker
<1>7. worker'.at \notin WorkerAnswers /\ worker.at \notin WorkerAnswers
    BY <1>3 DEF IdleWorker, WorkerAnswers
<1>8. \A c \in Clients : Waits(c)'
    BY <1>1, <1>3, <1>7, NobodyWaits
<1>9. Sizes'
    BY <1>1, <1>3, SizesSame DEF IdleWorker
<1> QED
    BY <1>5, <1>6, <1>8, <1>9 DEF Inv

LEMMA CopyUsersInv ==
    ASSUME Inv, NEW t \in PacketThreads, CopyUsers(t)
    PROVE  Inv'
<1>1. TypeOK /\ Shapes /\ (\A c \in Clients : Waits(c)) /\ Sizes
    BY DEF Inv
<1>2. EnterUsers[RoomId[thread[t].client]] \subseteq Clients
    BY <1>1 DEF CopyUsers, Shapes, ThreadShape, TypeOK
<1>3. /\ thread[t].at = "copy" /\ thread'[t].at = "send"
      /\ thread'[t].client = thread[t].client /\ thread'[t].room = thread[t].room
      /\ \A u \in PacketThreads : u # t => thread'[u] = thread[u]
      /\ UNCHANGED <<RoomId, EnterUsers, jobs, worker, ResultQue, asks, inRoom, view,
                     hasty, raced, crossed>>
    BY <1>1 DEF CopyUsers, TypeOK, roomVars, clientVars, history
<1>4. TypeOK'
    BY <1>1, <1>2 DEF CopyUsers, TypeOK, roomVars, clientVars, history
<1>5. Shapes'
  <2>1. WorkerShape'
      BY <1>1, <1>3 DEF Shapes, WorkerShape
  <2>2. ASSUME NEW u \in PacketThreads PROVE ThreadShape(u)'
      BY <1>1, <1>3 DEF Shapes, ThreadShape
  <2> QED
      BY <2>1, <2>2 DEF Shapes
<1>6. \A u \in PacketThreads :
          \/ thread'[u] = thread[u]
          \/ thread[u].at \notin ThreadAnswers /\ thread'[u].at \notin ThreadAnswers
    BY <1>3 DEF ThreadAnswers
<1>7. \A c \in Clients : Waits(c)'
    BY <1>1, <1>3, <1>6, NobodyWaits
<1>8. Sizes'
    BY <1>1, <1>3, SizesSame
<1> QED
    BY <1>4, <1>5, <1>7, <1>8 DEF Inv

LEMMA SendNoticeInv ==
    ASSUME Inv, NEW t \in PacketThreads, SendNotice(t)
    PROVE  Inv'
<1>1. TypeOK /\ Shapes /\ (\A c \in Clients : Waits(c)) /\ Sizes
    BY DEF Inv
<1>2. thread[t].client \in Clients
    BY <1>1 DEF SendNotice, Shapes, ThreadShape, TypeOK
<1>3. /\ thread[t].at = "send" /\ thread'[t] = IdleThread
      /\ \A u \in PacketThreads : u # t => thread'[u] = thread[u]
      /\ UNCHANGED <<RoomId, EnterUsers, jobs, worker, ResultQue, asks, inRoom,
                     hasty, raced, crossed>>
    BY <1>1 DEF SendNotice, TypeOK, roomVars, history
<1>4. view' \in [Clients -> SUBSET Clients]
    BY <1>1, <1>2 DEF SendNotice, Hears, TypeOK
<1>5. thread' = [thread EXCEPT ![t] = IdleThread]
    BY DEF SendNotice
<1>6. TypeOK'
    BY <1>1, <1>3, <1>4, <1>5 DEF TypeOK, IdleThread
<1>7. Shapes'
  <2>1. WorkerShape'
      BY <1>1, <1>3 DEF Shapes, WorkerShape
  <2>2. ASSUME NEW u \in PacketThreads PROVE ThreadShape(u)'
      BY <1>1, <1>3 DEF Shapes, ThreadShape, IdleThread
  <2> QED
      BY <2>1, <2>2 DEF Shapes
<1>8. \A u \in PacketThreads :
          \/ thread'[u] = thread[u]
          \/ thread[u].at \notin ThreadAnswers /\ thread'[u].at \notin ThreadAnswers
    BY <1>3 DEF ThreadAnswers, IdleThread
<1>9. \A c \in Clients : Waits(c)'
    BY <1>1, <1>3, <1>8, NobodyWaits
<1>10. Sizes'
    BY <1>1, <1>3, SizesSame
<1> QED
    BY <1>6, <1>7, <1>9, <1>10 DEF Inv

-----------------------------------------------------------------------------
(* Nothing is under way for a client that waits for no answer.              *)
LEMMA NothingUnderWay ==
    ASSUME NEW c \in Clients, Waits(c), asks[c] \in {"none", "refused", "exit"}
    PROVE  /\ ~HasJob(c) /\ ~AtWork(c)
           /\ \A t \in PacketThreads : ~AtThread(t, c)
           /\ \A x \in Rooms \cup {None} : ~HasResult(c, x)
BY DEF Waits, WaitsJob, WaitsWorker, WaitsThread, WaitsResult

LEMMA OnGameRoomEnterInv ==
    ASSUME Inv, NEW d \in Clients, NEW r \in Rooms, OnGameRoomEnter(d, r)
    PROVE  Inv'
<1>1. TypeOK /\ Shapes /\ (\A c \in Clients : Waits(c)) /\ Sizes
    BY DEF Inv
<1>2. /\ asks[d] \in {"none", "refused"} /\ inRoom[d] = None
      /\ asks'[d] = "enter" /\ \A c \in Clients : c # d => asks'[c] = asks[c]
      /\ jobs' = [jobs EXCEPT ![r] = Append(@, d)] /\ jobs \in [Rooms -> Seq(Clients)]
      /\ UNCHANGED <<RoomId, EnterUsers, worker, thread, ResultQue, inRoom, view,
                     hasty, raced, crossed>>
    BY <1>1 DEF OnGameRoomEnter, TypeOK, history
<1>3. TypeOK'
  <2>1. jobs' \in [Rooms -> Seq(Clients)]
      BY <1>2
  <2>2. asks' \in [Clients -> {"none", "enter", "chat", "refused", "exit", "exiting"}]
      BY <1>1 DEF OnGameRoomEnter, TypeOK
  <2> QED
      BY <1>1, <1>2, <2>1, <2>2 DEF TypeOK
<1>4. Shapes'
    BY <1>1, <1>2 DEF Shapes, WorkerShape, ThreadShape
<1>5. Sizes'
    BY <1>1, <1>2, SizesSame
<1>6. \A c \in Clients : JobOne(c) /\ ResultOne(c)
    BY <1>1 DEF Waits, WaitsJob, WaitsResult
<1>7. \A c \in Clients : /\ ResultOne(c)'
                         /\ \A x \in Rooms \cup {None} : HasResult(c, x)' <=> HasResult(c, x)
    BY <1>2, <1>6 DEF ResultOne, HasResult
<1>8. ASSUME NEW c \in Clients PROVE Waits(c)'
  <2>1. /\ c # d => (HasJob(c)' <=> HasJob(c))
        /\ c = d => HasJob(c)'
        /\ (c # d \/ ~HasJob(c)) => JobOne(c)'
      BY <1>2, <1>6, JobQueued
  <2>2. CASE c # d
      BY <1>1, <1>2, <1>7, <2>1, <2>2, Untouched
  <2>3. CASE c = d
    <3>1. /\ ~HasJob(d) /\ ~AtWork(d)
          /\ \A t \in PacketThreads : ~AtThread(t, d)
          /\ \A x \in Rooms \cup {None} : ~HasResult(d, x)
        BY <1>1, <1>2, NothingUnderWay
    <3>2. OnlyIn(d, None)'
        BY <1>1, <1>2 DEF Waits, Whereabouts, OnlyIn
    <3>3. ~AtWork(d)' /\ \A t \in PacketThreads : ~AtThread(t, d)'
        BY <1>2, <3>1 DEF AtWork, AtThread
    <3>4. \A x \in Rooms \cup {None} : ~HasResult(d, x)'
        BY <1>7, <3>1
    <3> QED
        BY <1>2, <1>7, <2>1, <2>3, <3>1, <3>2, <3>3, <3>4
           DEF Waits, WaitsJob, WaitsWorker, WaitsThread, WaitsResult, SomeAnswer, Whereabouts
  <2> QED
      BY <2>2, <2>3
<1> QED
    BY <1>3, <1>4, <1>5, <1>8 DEF Inv

LEMMA TestGameRoomInv ==
    ASSUME Inv, NEW r \in Rooms, TestGameRoom(r)
    PROVE  Inv'
<1>1. TypeOK /\ Shapes /\ (\A c \in Clients : Waits(c)) /\ Sizes
    BY DEF Inv
<1>2. PICK d : d = Head(jobs[r])
    OBVIOUS
<1>3. /\ worker.at = "idle" /\ jobs[r] # <<>>
      /\ jobs' = [jobs EXCEPT ![r] = Tail(@)] /\ jobs \in [Rooms -> Seq(Clients)]
      /\ UNCHANGED <<RoomId, EnterUsers, thread, ResultQue, inRoom, view,
                     hasty, raced, crossed>>
    BY <1>1 DEF TestGameRoom, TypeOK, history
<1>4. \A c \in Clients : JobOne(c) /\ ResultOne(c)
    BY <1>1 DEF Waits, WaitsJob, WaitsResult
<1>5. \A c \in Clients :
          /\ d \in Clients /\ HasJob(d)
          /\ c # d => (HasJob(c)' <=> HasJob(c))
          /\ c = d => ~HasJob(c)'
          /\ JobOne(c)'
    BY <1>2, <1>3, <1>4, JobTaken
<1>6. d \in Clients /\ HasJob(d)
  <2>1. jobs[r] \in Seq(Clients) /\ jobs[r] # <<>>
      BY <1>3
  <2>2. d \in Clients
      BY <1>2, <2>1
  <2> QED
      BY <1>5, <2>2
<1>7. asks[d] = "enter" /\ OnlyIn(d, None) /\ ~AtWork(d) /\ inRoom[d] = None
    BY <1>1, <1>6 DEF Waits, WaitsJob, Whereabouts
<1>8. \/ /\ worker' = worker /\ asks'[d] = "refused"
         /\ \A c \in Clients : c # d => asks'[c] = asks[c]
      \/ /\ worker' = [at |-> "tested", client |-> d, room |-> r, to |-> {}] /\ asks' = asks
         /\ Cardinality(EnterUsers[r]) # MaxEnterSize[r]
    BY <1>1, <1>2, <1>6 DEF TestGameRoom, TypeOK
<1>9. TypeOK'
  <2>1. jobs' \in [Rooms -> Seq(Clients)]
    <3>1. jobs[r] \in Seq(Clients) /\ jobs[r] # <<>>
        BY <1>3
    <3>2. Tail(jobs[r]) \in Seq(Clients)
        BY <3>1
    <3> QED
        BY <1>3, <3>2
  <2>2. asks' \in [Clients -> {"none", "enter", "chat", "refused", "exit", "exiting"}]
      BY <1>1 DEF TestGameRoom, TypeOK
  <2>3. worker' \in [at : {"idle", "tested", "entered", "answer", "list", "tell", "copy",
                         "send"},
                     client : Clients \cup {None}, room : Rooms \cup {None},
                     to : SUBSET Clients]
      BY <1>1, <1>6, <1>8 DEF TypeOK
  <2> QED
      BY <1>1, <1>3, <2>1, <2>2, <2>3 DEF TypeOK
<1>10. Shapes'
    BY <1>1, <1>3, <1>6, <1>8 DEF Shapes, WorkerShape, ThreadShape
<1>11. Sizes'
  <2>1. CASE worker' = worker
      BY <1>1, <1>3, <2>1, SizesSame
  <2>2. CASE worker' = [at |-> "tested", client |-> d, room |-> r, to |-> {}]
             /\ Cardinality(EnterUsers[r]) # MaxEnterSize[r]
    <3>1. Cardinality(EnterUsers[r]) \in Nat /\ MaxEnterSize[r] \in Nat
        BY <1>1, MaxEnterSizeAssumption, FS_CardinalityType DEF Sizes
    <3>2. r \notin raced => Cardinality(EnterUsers[r]) < MaxEnterSize[r]
        BY <1>1, <2>2, <3>1 DEF Sizes
    <3> QED
        BY <1>1, <1>3, <2>2, <3>2 DEF Sizes
  <2> QED
      BY <1>8, <2>1, <2>2
<1>12. \A c \in Clients :
           /\ ResultOne(c)'
           /\ \A x \in Rooms \cup {None} : HasResult(c, x)' <=> HasResult(c, x)
    BY <1>3, <1>4 DEF ResultOne, HasResult
<1>13. ASSUME NEW c \in Clients PROVE Waits(c)'
  <2>1. CASE c # d
    <3>1. worker' = worker \/ (~AtWork(c) /\ ~AtWork(c)')
        BY <1>3, <1>8, <2>1 DEF AtWork, WorkerAnswers
    <3>2. asks'[c] = asks[c]
        BY <1>8, <2>1
    <3> QED
        BY <1>1, <1>3, <1>5, <1>12, <2>1, <3>1, <3>2, Untouched
  <2>2. CASE c = d
    <3>1. /\ \A t \in PacketThreads : ~AtThread(t, d)
          /\ \A x \in Rooms \cup {None} : ~HasResult(d, x)
        BY <1>1, <1>6, <1>7 DEF Waits, WaitsThread, WaitsResult
    <3>2. OnlyIn(d, None)'
        BY <1>3, <1>7 DEF OnlyIn
    <3>3. \A t \in PacketThreads : ~AtThread(t, d)'
        BY <1>3, <3>1 DEF AtThread
    <3>4. \A x \in Rooms \cup {None} : ~HasResult(d, x)'
        BY <1>6, <1>12, <3>1
    <3>5. ~HasJob(d)' /\ JobOne(d)' /\ ResultOne(d)' /\ inRoom'[d] = None
        BY <1>3, <1>5, <1>6, <1>7, <1>12
    <3>6. CASE worker' = worker /\ asks'[d] = "refused"
      <4>1. ~AtWork(d)'
          BY <1>7, <3>6 DEF AtWork
      <4> QED
        BY <2>2, <3>2, <3>3, <3>4, <3>5, <3>6, <4>1
           DEF Waits, WaitsJob, WaitsWorker, WaitsThread, WaitsResult, SomeAnswer, Whereabouts
    <3>7. CASE worker' = [at |-> "tested", client |-> d, room |-> r, to |-> {}] /\ asks' = asks
      <4>1. AtWork(d)' /\ worker'.at = "tested" /\ asks'[d] = "enter"
          BY <1>7, <3>7 DEF AtWork, WorkerAnswers
      <4> QED
        BY <2>2, <3>2, <3>3, <3>4, <3>5, <4>1
           DEF Waits, WaitsJob, WaitsWorker, WaitsThread, WaitsResult, SomeAnswer, Whereabouts
    <3> QED
        BY <1>8, <3>6, <3>7
  <2> QED
      BY <2>1, <2>2
<1> QED
    BY <1>9, <1>10, <1>11, <1>13 DEF Inv

LEMMA EnterGameRoomInv ==
    ASSUME Inv, EnterGameRoom
    PROVE  Inv'
<1>1. TypeOK /\ Shapes /\ (\A c \in Clients : Waits(c)) /\ Sizes
    BY DEF Inv
<1>2. PICK d \in Clients, r \in Rooms : d = worker.client /\ r = worker.room
    BY <1>1 DEF EnterGameRoom, Shapes, WorkerShape
<1>3. /\ worker.at = "tested" /\ worker'.at = "entered"
      /\ worker'.client = d /\ worker'.room = r
      /\ EnterUsers' \in [Rooms -> SUBSET Clients] /\ EnterUsers'[r] = EnterUsers[r] \cup {d}
      /\ \A q \in Rooms : q # r => EnterUsers'[q] = EnterUsers[q]
      /\ hasty' \subseteq Clients /\ crossed' \in BOOLEAN
      /\ UNCHANGED <<RoomId, jobs, thread, ResultQue, asks, inRoom, view, raced>>
    BY <1>1, <1>2 DEF EnterGameRoom, NoteInsert, TypeOK, clientVars
<1>4. TypeOK'
    BY <1>1, <1>3 DEF EnterGameRoom, TypeOK
<1>5. Shapes'
    BY <1>1, <1>2, <1>3 DEF Shapes, WorkerShape, ThreadShape
<1>6. Sizes'
  <2>1. IsFiniteSet(EnterUsers[r]) /\ Cardinality(EnterUsers[r]) \in Nat /\ MaxEnterSize[r] \in Nat
      BY <1>1, MaxEnterSizeAssumption, FS_CardinalityType DEF Sizes
  <2>2. /\ IsFiniteSet(EnterUsers'[r])
        /\ \/ Cardinality(EnterUsers'[r]) = Cardinality(EnterUsers[r])
           \/ Cardinality(EnterUsers'[r]) = Cardinality(EnterUsers[r]) + 1
      BY <1>3, <2>1, FS_AddElement
  <2>3. r \notin raced => Cardinality(EnterUsers[r]) < MaxEnterSize[r]
      BY <1>1, <1>2, <1>3 DEF Sizes
  <2>4. r \notin raced' => Cardinality(EnterUsers'[r]) <= MaxEnterSize[r]
      BY <1>3, <2>1, <2>2, <2>3
  <2> QED
      BY <1>1, <1>3, <2>2, <2>4 DEF Sizes
<1>7. asks[d] = "enter" /\ OnlyIn(d, None) /\ AtWork(d) /\ inRoom[d] = None
  <2>1. AtWork(d)
      BY <1>2, <1>3 DEF AtWork, WorkerAnswers
  <2> QED
      BY <1>1, <1>3, <2>1 DEF Waits, WaitsWorker, Whereabouts
<1>8. \A c \in Clients :
          /\ ResultOne(c)' /\ JobOne(c)' /\ (HasJob(c)' <=> HasJob(c))
          /\ \A x \in Rooms \cup {None} : HasResult(c, x)' <=> HasResult(c, x)
    BY <1>1, <1>3 DEF Waits, WaitsJob, WaitsResult, ResultOne, HasResult, HasJob, JobOne
<1>9. ASSUME NEW c \in Clients PROVE Waits(c)'
  <2>1. CASE c # d
    <3>1. ~AtWork(c) /\ ~AtWork(c)'
        BY <1>2, <1>3, <2>1 DEF AtWork
    <3>2. \A q \in Rooms : c \in EnterUsers'[q] <=> c \in EnterUsers[q]
        BY <1>3, <2>1
    <3> QED
        BY <1>1, <1>3, <1>8, <3>1, <3>2, Untouched
  <2>2. CASE c = d
    <3>1. /\ \A t \in PacketThreads : ~AtThread(t, d)
          /\ \A x \in Rooms \cup {None} : ~HasResult(d, x)
          /\ ~HasJob(d)
        BY <1>1, <1>7 DEF Waits, WaitsThread, WaitsResult, WaitsJob
    <3>2. OnlyIn(d, r)'
        BY <1>3, <1>7, NoneAssumption DEF OnlyIn
    <3>3. \A t \in PacketThreads : ~AtThread(t, d)'
        BY <1>3, <3>1 DEF AtThread
    <3>4. AtWork(d)'
        BY <1>3 DEF AtWork, WorkerAnswers
    <3> QED
        BY <1>3, <1>7, <1>8, <2>2, <3>1, <3>2, <3>3, <3>4
           DEF Waits, WaitsJob, WaitsWorker, WaitsThread, WaitsResult, SomeAnswer, Whereabouts
  <2> QED
      BY <2>1, <2>2
<1> QED
    BY <1>4, <1>5, <1>6, <1>9 DEF Inv

LEMMA EnterSessionInv ==
    ASSUME Inv, EnterSession
    PROVE  Inv'
<1>1. TypeOK /\ Shapes /\ (\A c \in Clients : Waits(c)) /\ Sizes
    BY DEF Inv
<1>2. PICK d \in Clients, r \in Rooms : d = worker.client /\ r = worker.room
    BY <1>1 DEF EnterSession, Shapes, WorkerShape
<1>3. /\ worker.at = "entered" /\ worker'.at = "answer"
      /\ worker'.client = d /\ worker'.room = r
      /\ RoomId' \in [Clients -> Rooms \cup {None}] /\ RoomId'[d] = r
      /\ \A c \in Clients : c # d => RoomId'[c] = RoomId[c]
      /\ UNCHANGED <<EnterUsers, jobs, thread, ResultQue, asks, inRoom, view, hasty, raced,
                     crossed>>
    BY <1>1, <1>2 DEF EnterSession, TypeOK, clientVars, history
<1>4. TypeOK'
    BY <1>1, <1>3 DEF EnterSession, TypeOK
<1>5. Shapes'
    BY <1>1, <1>2, <1>3 DEF Shapes, WorkerShape, ThreadShape
<1>6. Sizes'
    BY <1>1, <1>3, SizesSame
<1>7. asks[d] = "enter" /\ OnlyIn(d, r) /\ AtWork(d) /\ inRoom[d] = None
  <2>1. AtWork(d)
      BY <1>2, <1>3 DEF AtWork, WorkerAnswers
  <2> QED
      BY <1>1, <1>2, <1>3, <2>1 DEF Waits, WaitsWorker, Whereabouts
<1>8. \A c \in Clients :
          /\ ResultOne(c)' /\ JobOne(c)' /\ (HasJob(c)' <=> HasJob(c))
          /\ \A x \in Rooms \cup {None} : HasResult(c, x)' <=> HasResult(c, x)
    BY <1>1, <1>3 DEF Waits, WaitsJob, WaitsResult, ResultOne, HasResult, HasJob, JobOne
<1>9. ASSUME NEW c \in Clients PROVE Waits(c)'
  <2>1. CASE c # d
    <3>1. ~AtWork(c) /\ ~AtWork(c)'
        BY <1>2, <1>3, <2>1 DEF AtWork
    <3> QED
        BY <1>1, <1>3, <1>8, <2>1, <3>1, Untouched
  <2>2. CASE c = d
    <3>1. /\ \A t \in PacketThreads : ~AtThread(t, d)
          /\ \A x \in Rooms \cup {None} : ~HasResult(d, x)
          /\ ~HasJob(d)
        BY <1>1, <1>7 DEF Waits, WaitsThread, WaitsResult, WaitsJob
    <3>2. OnlyIn(d, r)'
        BY <1>3, <1>7 DEF OnlyIn
    <3>3. \A t \in PacketThreads : ~AtThread(t, d)'
        BY <1>3, <3>1 DEF AtThread
    <3>4. AtWork(d)'
        BY <1>3 DEF AtWork, WorkerAnswers
    <3> QED
        BY <1>3, <1>7, <1>8, <2>2, <3>1, <3>2, <3>3, <3>4
           DEF Waits, WaitsJob, WaitsWorker, WaitsThread, WaitsResult, SomeAnswer, Whereabouts
  <2> QED
      BY <2>1, <2>2
<1> QED
    BY <1>4, <1>5, <1>6, <1>9 DEF Inv

LEMMA AnswerEnterInv ==
    ASSUME Inv, AnswerEnter
    PROVE  Inv'
<1>1. TypeOK /\ Shapes /\ (\A c \in Clients : Waits(c)) /\ Sizes
    BY DEF Inv
<1>2. PICK d \in Clients, r \in Rooms : d = worker.client /\ r = worker.room
    BY <1>1 DEF AnswerEnter, Shapes, WorkerShape
<1>3. /\ worker.at = "answer" /\ worker'.at = "list"
      /\ worker'.client = d /\ worker'.room = r
      /\ inRoom' \in [Clients -> Rooms \cup {None}] /\ inRoom'[d] = r
      /\ asks'[d] = "none"
      /\ \A c \in Clients : c # d => inRoom'[c] = inRoom[c] /\ asks'[c] = asks[c]
      /\ UNCHANGED <<RoomId, EnterUsers, jobs, thread, ResultQue, view, hasty, raced, crossed>>
    BY <1>1, <1>2 DEF AnswerEnter, TypeOK, roomVars, history
<1>4. TypeOK'
    BY <1>1, <1>3 DEF AnswerEnter, TypeOK
<1>5. Shapes'
    BY <1>1, <1>2, <1>3 DEF Shapes, WorkerShape, ThreadShape
<1>6. Sizes'
    BY <1>1, <1>3, SizesSame
<1>7. asks[d] = "enter" /\ OnlyIn(d, r) /\ AtWork(d) /\ RoomId[d] = r
  <2>1. AtWork(d)
      BY <1>2, <1>3 DEF AtWork, WorkerAnswers
  <2> QED
      BY <1>1, <1>2, <1>3, <2>1 DEF Waits, WaitsWorker
<1>8. \A c \in Clients :
          /\ ResultOne(c)' /\ JobOne(c)' /\ (HasJob(c)' <=> HasJob(c))
          /\ \A x \in Rooms \cup {None} : HasResult(c, x)' <=> HasResult(c, x)
    BY <1>1, <1>3 DEF Waits, WaitsJob, WaitsResult, ResultOne, HasResult, HasJob, JobOne
<1>9. ASSUME NEW c \in Clients PROVE Waits(c)'
  <2>1. CASE c # d
    <3>1. ~AtWork(c) /\ ~AtWork(c)'
        BY <1>2, <1>3, <2>1 DEF AtWork
    <3> QED
        BY <1>1, <1>3, <1>8, <2>1, <3>1, Untouched
  <2>2. CASE c = d
    <3>1. /\ \A t \in PacketThreads : ~AtThread(t, d)
          /\ \A x \in Rooms \cup {None} : ~HasResult(d, x)
          /\ ~HasJob(d)
        BY <1>1, <1>7 DEF Waits, WaitsThread, WaitsResult, WaitsJob
    <3>2. OnlyIn(d, r)'
        BY <1>3, <1>7 DEF OnlyIn
    <3>3. \A t \in PacketThreads : ~AtThread(t, d)'
        BY <1>3, <3>1 DEF AtThread
    <3>4. ~AtWork(d)'
        BY <1>3 DEF AtWork, WorkerAnswers
    <3> QED
        BY <1>3, <1>7, <1>8, <2>2, <3>1, <3>2, <3>3, <3>4
           DEF Waits, WaitsJob, WaitsWorker, WaitsThread, WaitsResult, SomeAnswer, Whereabouts
  <2> QED
      BY <2>1, <2>2
<1> QED
    BY <1>4, <1>5, <1>6, <1>9 DEF Inv

-----------------------------------------------------------------------------
LEMMA OnEnterRoomInv ==
    ASSUME Inv, NEW t \in PacketThreads, NEW d \in Clients, NEW r \in Rooms,
           OnEnterRoom(t, d, r)
    PROVE  Inv'
<1>1. TypeOK /\ Shapes /\ (\A c \in Clients : Waits(c)) /\ Sizes
    BY DEF Inv
<1>2. /\ d \in Chatters /\ asks[d] \in {"none", "refused"} /\ inRoom[d] = None
      /\ thread[t].at = "idle" /\ asks'[d] = "chat"
      /\ \A c \in Clients : c # d => asks'[c] = asks[c]
      /\ UNCHANGED <<RoomId, jobs, worker, ResultQue, inRoom, view>>
    BY <1>1 DEF OnEnterRoom, TypeOK
<1>3. PICK in \in BOOLEAN :
          /\ in <=> Cardinality(EnterUsers[r]) # MaxEnterSize[r]
          /\ thread'[t] = [at |-> IF in THEN "entered" ELSE "turned",
                           client |-> d, room |-> r, to |-> {}]
          /\ \A u \in PacketThreads : u # t => thread'[u] = thread[u]
    BY <1>1 DEF OnEnterRoom, TypeOK
<1>4. /\ EnterUsers' \in [Rooms -> SUBSET Clients]
      /\ EnterUsers'[r] = IF in THEN EnterUsers[r] \cup {d} ELSE EnterUsers[r]
      /\ \A q \in Rooms : q # r => EnterUsers'[q] = EnterUsers[q]
      /\ hasty' \subseteq Clients /\ crossed' \in BOOLEAN
      /\ raced' = IF in /\ worker.at = "tested" /\ worker.room = r
                        /\ Cardinality(EnterUsers'[r]) = MaxEnterSize[r]
                  THEN raced \cup {r} ELSE raced
  <2>1. EnterUsers \in [Rooms -> SUBSET Clients] /\ hasty \subseteq Clients
        /\ crossed \in BOOLEAN
      BY <1>1 DEF TypeOK
  <2>2. CASE in
    <3>1. /\ EnterUsers' = [EnterUsers EXCEPT ![r] = @ \cup {d}]
          /\ raced' = IF /\ worker.at = "tested" /\ worker.room = r
                         /\ Cardinality(EnterUsers'[r]) = MaxEnterSize[r]
                      THEN raced \cup {r} ELSE raced
          /\ NoteInsert(d)
        BY <1>3, <2>2 DEF OnEnterRoom
    <3>2. hasty' \subseteq Clients /\ crossed' \in BOOLEAN
        BY <2>1, <3>1 DEF NoteInsert, Leaving, LeavingOne
    <3>3. /\ EnterUsers' \in [Rooms -> SUBSET Clients]
          /\ EnterUsers'[r] = EnterUsers[r] \cup {d}
          /\ \A q \in Rooms : q # r => EnterUsers'[q] = EnterUsers[q]
        BY <2>1, <3>1
    <3> QED
        BY <2>2, <3>1, <3>2, <3>3
  <2>3. CASE ~in
    <3>1. /\ UNCHANGED <<EnterUsers, hasty, raced>>
          /\ crossed' = (crossed \/ LeavingOne(d))
        BY <1>3, <2>3 DEF OnEnterRoom
    <3> QED
        BY <2>1, <2>3, <3>1 DEF LeavingOne
  <2> QED
      BY <2>2, <2>3
<1>5. TypeOK'
  <2>1. asks' \in [Clients -> {"none", "enter", "chat", "refused", "exit", "exiting"}]
      BY <1>1 DEF OnEnterRoom, TypeOK
  <2>2. thread' \in [PacketThreads ->
                      [at : {"idle", "turned", "entered", "deny", "answer", "left", "copy",
                             "send"},
                       client : Clients \cup {None}, room : Rooms \cup {None},
                       to : SUBSET Clients]]
    <3>1. thread \in [PacketThreads ->
                      [at : {"idle", "turned", "entered", "deny", "answer", "left", "copy",
                             "send"},
                       client : Clients \cup {None}, room : Rooms \cup {None},
                       to : SUBSET Clients]]
        BY <1>1 DEF TypeOK
    <3>2. \/ thread' = [thread EXCEPT ![t] =
                            [at |-> "turned", client |-> d, room |-> r, to |-> {}]]
          \/ thread' = [thread EXCEPT ![t] =
                            [at |-> "entered", client |-> d, room |-> r, to |-> {}]]
        BY DEF OnEnterRoom
    <3> QED
        BY <3>1, <3>2
  <2>3. raced' \subseteq Rooms
      BY <1>1, <1>4 DEF TypeOK
  <2> QED
      BY <1>1, <1>2, <1>4, <2>1, <2>2, <2>3 DEF TypeOK
<1>6. Shapes'
  <2>1. WorkerShape'
      BY <1>1, <1>2 DEF Shapes, WorkerShape
  <2>2. ASSUME NEW u \in PacketThreads PROVE ThreadShape(u)'
      BY <1>1, <1>2, <1>3 DEF Shapes, ThreadShape
  <2> QED
      BY <2>1, <2>2 DEF Shapes
<1>7. Sizes'
  <2>1. /\ IsFiniteSet(EnterUsers[r]) /\ Cardinality(EnterUsers[r]) \in Nat
        /\ MaxEnterSize[r] \in Nat
      BY <1>1, MaxEnterSizeAssumption, FS_CardinalityType DEF Sizes
  <2>2. CASE in
    <3>1. /\ IsFiniteSet(EnterUsers'[r])
          /\ \/ Cardinality(EnterUsers'[r]) = Cardinality(EnterUsers[r])
             \/ Cardinality(EnterUsers'[r]) = Cardinality(EnterUsers[r]) + 1
      <4>1. EnterUsers'[r] = EnterUsers[r] \cup {d}
          BY <1>4, <2>2
      <4>2. /\ IsFiniteSet(EnterUsers[r] \cup {d})
            /\ Cardinality(EnterUsers[r] \cup {d}) =
                  IF d \in EnterUsers[r] THEN Cardinality(EnterUsers[r])
                                         ELSE Cardinality(EnterUsers[r]) + 1
          BY <2>1, FS_AddElement
      <4> QED
          BY <4>1, <4>2
    <3>2. r \notin raced => Cardinality(EnterUsers[r]) <= MaxEnterSize[r]
        BY <1>1 DEF Sizes
    <3>3. r \notin raced' => /\ r \notin raced
                             /\ worker.at = "tested" /\ worker.room = r
                                   => Cardinality(EnterUsers'[r]) # MaxEnterSize[r]
        BY <1>4, <2>2
    <3>4. r \notin raced' => Cardinality(EnterUsers'[r]) <= MaxEnterSize[r]
        BY <1>3, <2>1, <2>2, <3>1, <3>2, <3>3
    <3>5. r \notin raced' /\ worker.at = "tested" /\ worker.room = r
              => Cardinality(EnterUsers'[r]) < MaxEnterSize[r]
        BY <2>1, <3>1, <3>3, <3>4
    <3> QED
        BY <1>1, <1>2, <1>4, <3>1, <3>4, <3>5 DEF Sizes
  <2>3. CASE ~in
      BY <1>1, <1>2, <1>4, <2>3 DEF Sizes
  <2> QED
      BY <2>2, <2>3
<1>8. \A c \in Clients :
          /\ ResultOne(c)' /\ JobOne(c)' /\ (HasJob(c)' <=> HasJob(c))
          /\ \A x \in Rooms \cup {None} : HasResult(c, x)' <=> HasResult(c, x)
    BY <1>1, <1>2 DEF Waits, WaitsJob, WaitsResult, ResultOne, HasResult, HasJob, JobOne
<1>9. /\ ~HasJob(d) /\ ~AtWork(d) /\ OnlyIn(d, None)
      /\ \A u \in PacketThreads : ~AtThread(u, d)
      /\ \A x \in Rooms \cup {None} : ~HasResult(d, x)
    BY <1>1, <1>2, NothingUnderWay DEF Waits, Whereabouts
<1>10. ASSUME NEW c \in Clients PROVE Waits(c)'
  <2>1. CASE c # d
    <3>1. \A u \in PacketThreads :
              thread'[u] = thread[u] \/ (~AtThread(u, c) /\ ~AtThread(u, c)')
        BY <1>2, <1>3, <2>1 DEF AtThread, ThreadAnswers
    <3>2. \A q \in Rooms : c \in EnterUsers'[q] <=> c \in EnterUsers[q]
        BY <1>4, <2>1
    <3> QED
        BY <1>1, <1>2, <1>8, <2>1, <3>1, <3>2, Untouched
  <2>2. CASE c = d
    <3>1. OnlyIn(d, IF in THEN r ELSE None)'
        BY <1>4, <1>9, NoneAssumption DEF OnlyIn
    <3>2. ~AtWork(d)'
        BY <1>2, <1>9 DEF AtWork
    <3>3. AtThread(t, d)' /\ \A u \in PacketThreads : AtThread(u, d)' => u = t
        BY <1>3, <1>9 DEF AtThread, ThreadAnswers
    <3>4. thread'[t].at = (IF in THEN "entered" ELSE "turned") /\ thread'[t].room = r
        BY <1>3
    <3>5. WaitsThread(d)'
        BY <1>2, <3>1, <3>3, <3>4 DEF WaitsThread
    <3> QED
        BY <1>2, <1>8, <1>9, <2>2, <3>2, <3>3, <3>5
           DEF Waits, WaitsJob, WaitsWorker, WaitsResult, SomeAnswer, Whereabouts
  <2> QED
      BY <2>1, <2>2
<1> QED
    BY <1>5, <1>6, <1>7, <1>10 DEF Inv

LEMMA EnterSessionToChatInv ==
    ASSUME Inv, NEW t \in PacketThreads, EnterSessionToChat(t)
    PROVE  Inv'
<1>1. TypeOK /\ Shapes /\ (\A c \in Clients : Waits(c)) /\ Sizes
    BY DEF Inv
<1>2. PICK d \in Clients, r \in Rooms : d = thread[t].client /\ r = thread[t].room
    BY <1>1 DEF EnterSessionToChat, Shapes, ThreadShape
<1>3. /\ thread[t].at \in {"turned", "entered"}
      /\ thread'[t].at = (IF thread[t].at = "turned" THEN "deny" ELSE "answer")
      /\ thread'[t].client = d /\ thread'[t].room = r
      /\ \A u \in PacketThreads : u # t => thread'[u] = thread[u]
      /\ RoomId' \in [Clients -> Rooms \cup {None}] /\ RoomId'[d] = r
      /\ \A c \in Clients : c # d => RoomId'[c] = RoomId[c]
      /\ UNCHANGED <<EnterUsers, jobs, worker, ResultQue, asks, inRoom, view, hasty, raced,
                     crossed>>
    BY <1>1, <1>2 DEF EnterSessionToChat, TypeOK, clientVars, history
<1>4. TypeOK'
  <2>1. thread' \in [PacketThreads ->
                      [at : {"idle", "turned", "entered", "deny", "answer", "left", "copy",
                             "send"},
                       client : Clients \cup {None}, room : Rooms \cup {None},
                       to : SUBSET Clients]]
      BY <1>1 DEF EnterSessionToChat, TypeOK
  <2> QED
      BY <1>1, <1>3, <2>1 DEF TypeOK
<1>5. Shapes'
  <2>1. WorkerShape'
      BY <1>1, <1>3 DEF Shapes, WorkerShape
  <2>2. ASSUME NEW u \in PacketThreads PROVE ThreadShape(u)'
      BY <1>1, <1>3 DEF Shapes, ThreadShape
  <2> QED
      BY <2>1, <2>2 DEF Shapes
<1>6. Sizes'
    BY <1>1, <1>3, SizesSame
<1>7. /\ AtThread(t, d) /\ asks[d] = "chat"
      /\ OnlyIn(d, IF thread[t].at = "entered" THEN r ELSE None)
      /\ \A u \in PacketThreads : AtThread(u, d) => u = t
  <2>1. AtThread(t, d)
      BY <1>2, <1>3 DEF AtThread, ThreadAnswers
  <2> QED
      BY <1>1, <1>2, <1>3, <2>1 DEF Waits, WaitsThread
<1>8. \A c \in Clients :
          /\ ResultOne(c)' /\ JobOne(c)' /\ (HasJob(c)' <=> HasJob(c))
          /\ \A x \in Rooms \cup {None} : HasResult(c, x)' <=> HasResult(c, x)
    BY <1>1, <1>3 DEF Waits, WaitsJob, WaitsResult, ResultOne, HasResult, HasJob, JobOne
<1>9. ASSUME NEW c \in Clients PROVE Waits(c)'
  <2>1. CASE c # d
    <3>1. \A u \in PacketThreads :
              thread'[u] = thread[u] \/ (~AtThread(u, c) /\ ~AtThread(u, c)')
        BY <1>2, <1>3, <2>1 DEF AtThread
    <3> QED
        BY <1>1, <1>3, <1>8, <2>1, <3>1, Untouched
  <2>2. CASE c = d
    <3> PICK y : y = IF thread[t].at = "entered" THEN r ELSE None
        OBVIOUS
    <3>1. OnlyIn(d, y)'
        BY <1>3, <1>7 DEF OnlyIn
    <3>2. ~HasJob(d) /\ ~AtWork(d) /\ \A x \in Rooms \cup {None} : ~HasResult(d, x)
        BY <1>1, <1>7 DEF Waits, WaitsJob, WaitsWorker, WaitsResult
    <3>3. ~AtWork(d)'
        BY <1>3, <3>2 DEF AtWork
    <3>4. AtThread(t, d)' /\ \A u \in PacketThreads : AtThread(u, d)' => u = t
        BY <1>3, <1>7 DEF AtThread, ThreadAnswers
    <3>5. /\ thread'[t].at \in {"deny", "answer"} /\ thread'[t].room = r
          /\ y = IF thread'[t].at = "answer" THEN r ELSE None
        BY <1>3
    <3>7. WaitsThread(d)'
        BY <1>3, <1>7, <3>1, <3>4, <3>5 DEF WaitsThread
    <3>8. inRoom[d] = None /\ d \in Chatters
        BY <1>1, <1>7 DEF Waits, Whereabouts
    <3> QED
        BY <1>3, <1>7, <1>8, <2>2, <3>2, <3>3, <3>4, <3>7, <3>8
           DEF Waits, WaitsJob, WaitsWorker, WaitsResult, SomeAnswer, Whereabouts
  <2> QED
      BY <2>1, <2>2
<1> QED
    BY <1>4, <1>5, <1>6, <1>9 DEF Inv

(* The thread that answered its client with a result is not the answer any  *)
(* more.                                                                    *)
LEMMA PushInv ==
    ASSUME Inv, NEW t \in PacketThreads, NEW d \in Clients, NEW x \in Rooms \cup {None},
           thread[t].client = d,
           \/ thread[t].at = "deny" /\ x = None
           \/ thread[t].at = "answer" /\ x = thread[t].room
           \/ thread[t].at = "left" /\ x = None,
           \A c \in Clients :
               /\ c # d => \A y \in Rooms \cup {None} : HasResult(c, y)' <=> HasResult(c, y)
               /\ c = d => HasResult(c, x)'
               /\ c = d /\ (\A y \in Rooms \cup {None} : ~HasResult(c, y)) =>
                     \A y \in Rooms \cup {None} : HasResult(c, y)' => y = x
               /\ c # d \/ (\A y \in Rooms \cup {None} : ~HasResult(c, y)) => ResultOne(c)',
           \A u \in PacketThreads : u # t => thread'[u] = thread[u],
           thread'[t].at \notin ThreadAnswers,
           UNCHANGED <<RoomId, EnterUsers, jobs, worker, asks, inRoom>>
    PROVE  \A c \in Clients : Waits(c)'
<1>1. TypeOK /\ Shapes /\ (\A c \in Clients : Waits(c)) /\ Sizes
    BY DEF Inv
<1>2. /\ AtThread(t, d) /\ asks[d] \in {"chat", "exiting"} /\ OnlyIn(d, x)
      /\ x # None => RoomId[d] = x /\ asks[d] = "chat"
      /\ \A u \in PacketThreads : AtThread(u, d) => u = t
  <2>1. AtThread(t, d)
      BY DEF AtThread, ThreadAnswers
  <2> QED
      BY <1>1, <2>1 DEF Waits, WaitsThread
<1>3. \A c \in Clients : JobOne(c)' /\ (HasJob(c)' <=> HasJob(c))
    BY <1>1 DEF Waits, WaitsJob, HasJob, JobOne
<1>4. SUFFICES ASSUME NEW c \in Clients PROVE Waits(c)'
    OBVIOUS
<1>5. CASE c # d
  <2>1. \A u \in PacketThreads :
            thread'[u] = thread[u] \/ (~AtThread(u, c) /\ ~AtThread(u, c)')
      BY <1>5 DEF AtThread
  <2> QED
      BY <1>1, <1>3, <1>5, <2>1, Untouched
<1>6. CASE c = d
  <2>1. /\ ~HasJob(d) /\ ~AtWork(d) /\ (\A y \in Rooms \cup {None} : ~HasResult(d, y))
      BY <1>1, <1>2 DEF Waits, WaitsJob, WaitsWorker, WaitsResult
  <2>2. ~AtWork(d)' /\ \A u \in PacketThreads : ~AtThread(u, d)'
      BY <1>2, <2>1 DEF AtWork, AtThread
  <2>3. OnlyIn(d, x)'
      BY <1>2 DEF OnlyIn
  <2>4. HasResult(d, x)' /\ ResultOne(d)' /\ \A y \in Rooms \cup {None} : HasResult(d, y)' => y = x
      BY <2>1
  <2>5. asks[d] = "chat" => inRoom[d] = None /\ d \in Chatters
      BY <1>1 DEF Waits, Whereabouts
  <2>6. WaitsResult(d)'
      BY <1>2, <2>2, <2>3, <2>4 DEF WaitsResult
  <2> QED
      BY <1>2, <1>3, <1>6, <2>1, <2>2, <2>4, <2>5, <2>6
         DEF Waits, WaitsJob, WaitsWorker, WaitsThread, SomeAnswer, Whereabouts
<1> QED
    BY <1>5, <1>6

LEMMA PushEnterResultInv ==
    ASSUME Inv, NEW t \in PacketThreads, PushEnterResult(t)
    PROVE  Inv'
<1>1. TypeOK /\ Shapes /\ (\A c \in Clients : Waits(c)) /\ Sizes
    BY DEF Inv
<1>2. PICK d \in Clients, r \in Rooms : d = thread[t].client /\ r = thread[t].room
    BY <1>1 DEF PushEnterResult, Shapes, ThreadShape
<1>3. PICK x \in Rooms \cup {None} :
          \/ thread[t].at = "deny" /\ x = None
          \/ thread[t].at = "answer" /\ x = r
    BY DEF PushEnterResult
<1>4. PICK e : e = <<d, x>>
    OBVIOUS
<1>5. PICK S : S = Clients \X (Rooms \cup {None})
    OBVIOUS
<1>6. ResultQue' = Append(ResultQue, e) /\ ResultQue \in Seq(S) /\ e \in S
    BY <1>1, <1>2, <1>3, <1>4, <1>5 DEF PushEnterResult, TypeOK
<1>7. /\ \/ thread[t].at = "deny" /\ thread'[t] = IdleThread
         \/ /\ thread[t].at = "answer" /\ thread'[t].at = "copy"
            /\ thread'[t].client = d /\ thread'[t].room = r
      /\ \A u \in PacketThreads : u # t => thread'[u] = thread[u]
      /\ UNCHANGED <<RoomId, EnterUsers, jobs, worker, asks, inRoom, view, hasty, raced,
                     crossed>>
    BY <1>1, <1>2, <1>3 DEF PushEnterResult, TypeOK, roomVars, clientVars, history
<1>8. TypeOK'
  <2>1. ResultQue' \in Seq(Clients \X (Rooms \cup {None}))
    <3>1. ResultQue' \in Seq(S)
        BY <1>6
    <3> QED
        BY <1>5, <3>1
  <2>2. thread' \in [PacketThreads ->
                      [at : {"idle", "turned", "entered", "deny", "answer", "left", "copy",
                             "send"},
                       client : Clients \cup {None}, room : Rooms \cup {None},
                       to : SUBSET Clients]]
    <3>1. thread \in [PacketThreads ->
                      [at : {"idle", "turned", "entered", "deny", "answer", "left", "copy",
                             "send"},
                       client : Clients \cup {None}, room : Rooms \cup {None},
                       to : SUBSET Clients]]
        BY <1>1 DEF TypeOK
    <3>2. \/ thread' = [thread EXCEPT ![t] = IdleThread]
          \/ thread' = [thread EXCEPT ![t].at = "copy"]
        BY DEF PushEnterResult
    <3> QED
        BY <3>1, <3>2 DEF IdleThread
  <2> QED
      BY <1>1, <1>7, <2>1, <2>2 DEF TypeOK
<1>9. Shapes'
  <2>1. WorkerShape'
      BY <1>1, <1>7 DEF Shapes, WorkerShape
  <2>2. ASSUME NEW u \in PacketThreads PROVE ThreadShape(u)'
      BY <1>1, <1>2, <1>7 DEF Shapes, ThreadShape, IdleThread
  <2> QED
      BY <2>1, <2>2 DEF Shapes
<1>10. Sizes'
    BY <1>1, <1>7, SizesSame
<1>11. \A c \in Clients : ResultOne(c)
    BY <1>1 DEF Waits, WaitsResult
<1>12. \A c \in Clients :
           /\ c # d => \A y \in Rooms \cup {None} : HasResult(c, y)' <=> HasResult(c, y)
           /\ c = d => HasResult(c, x)'
           /\ c = d /\ (\A y \in Rooms \cup {None} : ~HasResult(c, y)) =>
                 \A y \in Rooms \cup {None} : HasResult(c, y)' => y = x
           /\ c # d \/ (\A y \in Rooms \cup {None} : ~HasResult(c, y)) => ResultOne(c)'
    BY <1>4, <1>5, <1>6, <1>11, ResultPushed
<1>13. thread'[t].at \notin ThreadAnswers
    BY <1>7 DEF IdleThread, ThreadAnswers
<1>14. \A c \in Clients : Waits(c)'
    BY <1>2, <1>3, <1>7, <1>12, <1>13, PushInv
<1> QED
    BY <1>8, <1>9, <1>10, <1>14 DEF Inv

LEMMA PushExitResultInv ==
    ASSUME Inv, NEW t \in PacketThreads, PushExitResult(t)
    PROVE  Inv'
<1>1. TypeOK /\ Shapes /\ (\A c \in Clients : Waits(c)) /\ Sizes
    BY DEF Inv
<1>2. PICK d \in Clients : d = thread[t].client
    BY <1>1 DEF PushExitResult, Shapes, ThreadShape
<1>4. PICK e : e = <<d, None>>
    OBVIOUS
<1>5. PICK S : S = Clients \X (Rooms \cup {None})
    OBVIOUS
<1>6. ResultQue' = Append(ResultQue, e) /\ ResultQue \in Seq(S) /\ e \in S
    BY <1>1, <1>2, <1>4, <1>5 DEF PushExitResult, TypeOK
<1>7. /\ thread[t].at = "left" /\ thread'[t].at = "copy"
      /\ thread'[t].client = d /\ thread'[t].room = thread[t].room
      /\ \A u \in PacketThreads : u # t => thread'[u] = thread[u]
      /\ UNCHANGED <<RoomId, EnterUsers, jobs, worker, asks, inRoom, view, hasty, raced,
                     crossed>>
    BY <1>1, <1>2 DEF PushExitResult, TypeOK, roomVars, clientVars, history
<1>8. TypeOK'
  <2>1. ResultQue' \in Seq(Clients \X (Rooms \cup {None}))
    <3>1. ResultQue' \in Seq(S)
        BY <1>6
    <3> QED
        BY <1>5, <3>1
  <2>2. thread' \in [PacketThreads ->
                      [at : {"idle", "turned", "entered", "deny", "answer", "left", "copy",
                             "send"},
                       client : Clients \cup {None}, room : Rooms \cup {None},
                       to : SUBSET Clients]]
    <3>1. thread \in [PacketThreads ->
                      [at : {"idle", "turned", "entered", "deny", "answer", "left", "copy",
                             "send"},
                       client : Clients \cup {None}, room : Rooms \cup {None},
                       to : SUBSET Clients]]
        BY <1>1 DEF TypeOK
    <3>2. thread' = [thread EXCEPT ![t].at = "copy"]
        BY DEF PushExitResult
    <3> QED
        BY <3>1, <3>2
  <2> QED
      BY <1>1, <1>7, <2>1, <2>2 DEF TypeOK
<1>9. Shapes'
  <2>1. WorkerShape'
      BY <1>1, <1>7 DEF Shapes, WorkerShape
  <2>2. ASSUME NEW u \in PacketThreads PROVE ThreadShape(u)'
      BY <1>1, <1>2, <1>7 DEF Shapes, ThreadShape
  <2> QED
      BY <2>1, <2>2 DEF Shapes
<1>10. Sizes'
    BY <1>1, <1>7, SizesSame
<1>11. \A c \in Clients : ResultOne(c)
    BY <1>1 DEF Waits, WaitsResult
<1>12. \A c \in Clients :
           /\ c # d => \A y \in Rooms \cup {None} : HasResult(c, y)' <=> HasResult(c, y)
           /\ c = d => HasResult(c, None)'
           /\ c = d /\ (\A y \in Rooms \cup {None} : ~HasResult(c, y)) =>
                 \A y \in Rooms \cup {None} : HasResult(c, y)' => y = None
           /\ c # d \/ (\A y \in Rooms \cup {None} : ~HasResult(c, y)) => ResultOne(c)'
    BY <1>4, <1>5, <1>6, <1>11, ResultPushed
<1>13. thread'[t].at \notin ThreadAnswers
    BY <1>7 DEF ThreadAnswers
<1>14. \A c \in Clients : Waits(c)'
    BY <1>2, <1>7, <1>12, <1>13, PushInv
<1> QED
    BY <1>8, <1>9, <1>10, <1>14 DEF Inv

LEMMA AskExitInv ==
    ASSUME Inv, NEW d \in Clients, AskExit(d)
    PROVE  Inv'
<1>1. TypeOK /\ Shapes /\ (\A c \in Clients : Waits(c)) /\ Sizes
    BY DEF Inv
<1>2. /\ asks[d] \in {"none", "refused"} /\ asks'[d] = "exit"
      /\ \A c \in Clients : c # d => asks'[c] = asks[c]
      /\ UNCHANGED <<RoomId, EnterUsers, jobs, worker, thread, ResultQue, inRoom, view,
                     hasty, raced, crossed>>
    BY <1>1 DEF AskExit, TypeOK, roomVars, history
<1>3. TypeOK'
  <2>1. asks' \in [Clients -> {"none", "enter", "chat", "refused", "exit", "exiting"}]
      BY <1>1 DEF AskExit, TypeOK
  <2> QED
      BY <1>1, <1>2, <2>1 DEF TypeOK
<1>4. Shapes'
    BY <1>1, <1>2 DEF Shapes, WorkerShape, ThreadShape
<1>5. Sizes'
    BY <1>1, <1>2, SizesSame
<1>6. \A c \in Clients :
          /\ ResultOne(c)' /\ JobOne(c)' /\ (HasJob(c)' <=> HasJob(c))
          /\ \A x \in Rooms \cup {None} : HasResult(c, x)' <=> HasResult(c, x)
    BY <1>1, <1>2 DEF Waits, WaitsJob, WaitsResult, ResultOne, HasResult, HasJob, JobOne
<1>7. ASSUME NEW c \in Clients PROVE Waits(c)'
  <2>1. CASE c # d
      BY <1>1, <1>2, <1>6, <2>1, Untouched
  <2>2. CASE c = d
    <3>1. /\ ~HasJob(d) /\ ~AtWork(d) /\ \A u \in PacketThreads : ~AtThread(u, d)
          /\ \A x \in Rooms \cup {None} : ~HasResult(d, x)
        BY <1>1, <1>2, NothingUnderWay
    <3>2. ~AtWork(d)' /\ \A u \in PacketThreads : ~AtThread(u, d)'
        BY <1>2, <3>1 DEF AtWork, AtThread
    <3>3. OnlyIn(d, inRoom[d]) /\ (inRoom[d] # None => RoomId[d] = inRoom[d])
        BY <1>1, <1>2 DEF Waits, Whereabouts
    <3>4. OnlyIn(d, inRoom[d])'
        BY <1>2, <3>3 DEF OnlyIn
    <3> QED
        BY <1>2, <1>6, <2>2, <3>1, <3>2, <3>3, <3>4
           DEF Waits, WaitsJob, WaitsWorker, WaitsThread, WaitsResult, SomeAnswer, Whereabouts
  <2> QED
      BY <2>1, <2>2
<1> QED
    BY <1>3, <1>4, <1>5, <1>7 DEF Inv

LEMMA LeaveRoomInv ==
    ASSUME Inv, NEW t \in PacketThreads, NEW d \in Clients, LeaveRoom(t, d)
    PROVE  Inv'
<1>1. TypeOK /\ Shapes /\ (\A c \in Clients : Waits(c)) /\ Sizes
    BY DEF Inv
<1>2. /\ asks[d] = "exit" /\ thread[t].at = "idle"
      /\ \A c \in Clients : c # d => asks'[c] = asks[c]
      /\ UNCHANGED <<RoomId, jobs, worker, ResultQue, inRoom, view>>
    BY <1>1 DEF LeaveRoom, TypeOK
<1>3. \A c \in Clients :
          /\ ResultOne(c)' /\ JobOne(c)' /\ (HasJob(c)' <=> HasJob(c))
          /\ \A x \in Rooms \cup {None} : HasResult(c, x)' <=> HasResult(c, x)
    BY <1>1, <1>2 DEF Waits, WaitsJob, WaitsResult, ResultOne, HasResult, HasJob, JobOne
<1>4. /\ ~HasJob(d) /\ ~AtWork(d) /\ \A u \in PacketThreads : ~AtThread(u, d)
      /\ \A x \in Rooms \cup {None} : ~HasResult(d, x)
    BY <1>1, <1>2, NothingUnderWay
<1>5. OnlyIn(d, inRoom[d]) /\ (inRoom[d] # None => RoomId[d] = inRoom[d])
    BY <1>1, <1>2 DEF Waits, Whereabouts
<1>6. asks' \in [Clients -> {"none", "enter", "chat", "refused", "exit", "exiting"}]
    BY <1>1 DEF LeaveRoom, TypeOK
<1>7. CASE ~IsUser(d)
  <2>1. asks'[d] = "refused" /\ UNCHANGED <<EnterUsers, thread, hasty, raced, crossed>>
      BY <1>1, <1>7 DEF LeaveRoom, TypeOK, history
  <2>2. inRoom[d] = None
    <3>1. inRoom[d] \in Rooms \cup {None}
        BY <1>1 DEF TypeOK
    <3> QED
        BY <1>5, <1>7, <3>1 DEF IsUser, OnlyIn
  <2>3. TypeOK'
      BY <1>1, <1>2, <1>6, <2>1 DEF TypeOK
  <2>4. Shapes'
      BY <1>1, <1>2, <2>1 DEF Shapes, WorkerShape, ThreadShape
  <2>5. Sizes'
      BY <1>1, <1>2, <2>1, SizesSame
  <2>6. ASSUME NEW c \in Clients PROVE Waits(c)'
    <3>1. CASE c # d
        BY <1>1, <1>2, <1>3, <2>1, <3>1, Untouched
    <3>2. CASE c = d
      <4>1. OnlyIn(d, None)'
          BY <1>5, <2>1, <2>2 DEF OnlyIn
      <4>2. ~AtWork(d)' /\ \A u \in PacketThreads : ~AtThread(u, d)'
          BY <1>2, <1>4, <2>1 DEF AtWork, AtThread
      <4> QED
          BY <1>2, <1>3, <1>4, <2>1, <2>2, <3>2, <4>1, <4>2
             DEF Waits, WaitsJob, WaitsWorker, WaitsThread, WaitsResult, SomeAnswer, Whereabouts
    <3> QED
        BY <3>1, <3>2
  <2> QED
      BY <2>3, <2>4, <2>5, <2>6 DEF Inv
<1>8. CASE IsUser(d)
  <2>1. PICK r \in Rooms : r = RoomId[d] /\ d \in EnterUsers[r]
      BY <1>8 DEF IsUser
  <2>2. r = inRoom[d] /\ OnlyIn(d, r)
      BY <1>5, <2>1 DEF OnlyIn
  <2>3. /\ asks'[d] = "exiting"
        /\ EnterUsers' \in [Rooms -> SUBSET Clients] /\ EnterUsers'[r] = EnterUsers[r] \ {d}
        /\ \A q \in Rooms : q # r => EnterUsers'[q] = EnterUsers[q]
        /\ thread'[t].at = "left" /\ thread'[t].client = d /\ thread'[t].room = None
        /\ \A u \in PacketThreads : u # t => thread'[u] = thread[u]
        /\ crossed' = (crossed \/ Entering) /\ hasty' = hasty
        /\ raced' = {q \in raced : Cardinality(EnterUsers'[q]) >= MaxEnterSize[q]}
    <3>1. /\ asks' = [asks EXCEPT ![d] = "exiting"]
          /\ EnterUsers' = [EnterUsers EXCEPT ![r] = @ \ {d}]
          /\ thread' = [thread EXCEPT ![t] = [IdleThread EXCEPT !.at = "left",
                                                                !.client = d]]
          /\ crossed' = (crossed \/ Entering) /\ hasty' = hasty
          /\ raced' = {q \in raced : Cardinality(EnterUsers'[q]) >= MaxEnterSize[q]}
        BY <1>8, <2>1 DEF LeaveRoom
    <3>2. EnterUsers \in [Rooms -> SUBSET Clients]
        BY <1>1 DEF TypeOK
    <3>3. DOMAIN thread = PacketThreads /\ DOMAIN asks = Clients
        BY <1>1 DEF TypeOK
    <3>6. /\ EnterUsers' \in [Rooms -> SUBSET Clients] /\ EnterUsers'[r] = EnterUsers[r] \ {d}
          /\ \A q \in Rooms : q # r => EnterUsers'[q] = EnterUsers[q]
        BY <3>1, <3>2
    <3>7. /\ thread'[t].at = "left" /\ thread'[t].client = d /\ thread'[t].room = None
          /\ \A u \in PacketThreads : u # t => thread'[u] = thread[u]
        BY <3>1, <3>3 DEF IdleThread
    <3> QED
        BY <3>1, <3>3, <3>6, <3>7
  <2>4. TypeOK'
    <3>1. thread' \in [PacketThreads ->
                      [at : {"idle", "turned", "entered", "deny", "answer", "left", "copy",
                             "send"},
                       client : Clients \cup {None}, room : Rooms \cup {None},
                       to : SUBSET Clients]]
      <4>1. thread \in [PacketThreads ->
                      [at : {"idle", "turned", "entered", "deny", "answer", "left", "copy",
                             "send"},
                       client : Clients \cup {None}, room : Rooms \cup {None},
                       to : SUBSET Clients]]
          BY <1>1 DEF TypeOK
      <4>2. thread' = [thread EXCEPT ![t] = [IdleThread EXCEPT !.at = "left",
                                                               !.client = d]]
          BY <1>8 DEF LeaveRoom
      <4> QED
          BY <4>1, <4>2 DEF IdleThread
    <3>2. crossed' \in BOOLEAN
        BY <1>1, <2>3 DEF TypeOK, Entering
    <3> QED
        BY <1>1, <1>2, <1>6, <2>3, <3>1, <3>2 DEF TypeOK
  <2>5. Shapes'
    <3>1. WorkerShape'
        BY <1>1, <1>2 DEF Shapes, WorkerShape
    <3>2. ASSUME NEW u \in PacketThreads PROVE ThreadShape(u)'
        BY <1>1, <1>2, <2>1, <2>3 DEF Shapes, ThreadShape
    <3> QED
        BY <3>1, <3>2 DEF Shapes
  <2>6. Sizes'
    <3> SUFFICES ASSUME NEW q \in Rooms
                 PROVE  /\ IsFiniteSet(EnterUsers'[q])
                        /\ q \notin raced' => Cardinality(EnterUsers'[q]) <= MaxEnterSize[q]
                        /\ q \notin raced' /\ worker.at = "tested" /\ worker.room = q
                              => Cardinality(EnterUsers'[q]) < MaxEnterSize[q]
        BY <1>2 DEF Sizes
    <3>1. /\ IsFiniteSet(EnterUsers[q]) /\ Cardinality(EnterUsers[q]) \in Nat
          /\ MaxEnterSize[q] \in Nat
        BY <1>1, MaxEnterSizeAssumption, FS_CardinalityType DEF Sizes
    <3>2. /\ IsFiniteSet(EnterUsers'[q]) /\ Cardinality(EnterUsers'[q]) \in Nat
          /\ Cardinality(EnterUsers'[q]) <= Cardinality(EnterUsers[q])
      <4>1. EnterUsers'[q] \subseteq EnterUsers[q]
          BY <2>3
      <4> QED
          BY <3>1, <4>1, FS_Subset, FS_CardinalityType
    <3>3. q \notin raced' /\ q \in raced => Cardinality(EnterUsers'[q]) < MaxEnterSize[q]
        BY <2>3, <3>1, <3>2
    <3>4. q \notin raced =>
              /\ Cardinality(EnterUsers[q]) <= MaxEnterSize[q]
              /\ worker.at = "tested" /\ worker.room = q
                    => Cardinality(EnterUsers[q]) < MaxEnterSize[q]
        BY <1>1 DEF Sizes
    <3> QED
        BY <3>1, <3>2, <3>3, <3>4
  <2>7. ASSUME NEW c \in Clients PROVE Waits(c)'
    <3>1. CASE c # d
      <4>1. \A u \in PacketThreads :
                thread'[u] = thread[u] \/ (~AtThread(u, c) /\ ~AtThread(u, c)')
          BY <1>2, <2>3, <3>1 DEF AtThread, ThreadAnswers
      <4>2. \A q \in Rooms : c \in EnterUsers'[q] <=> c \in EnterUsers[q]
          BY <2>3, <3>1
      <4> QED
          BY <1>1, <1>2, <1>3, <3>1, <4>1, <4>2, Untouched
    <3>2. CASE c = d
      <4>1. OnlyIn(d, None)'
          BY <2>2, <2>3, NoneAssumption DEF OnlyIn
      <4>2. ~AtWork(d)' /\ AtThread(t, d)' /\ \A u \in PacketThreads : AtThread(u, d)' => u = t
          BY <1>2, <1>4, <2>3 DEF AtWork, AtThread, ThreadAnswers
      <4>3. WaitsThread(d)'
          BY <2>3, <4>1, <4>2 DEF WaitsThread
      <4> QED
          BY <1>2, <1>3, <1>4, <2>3, <3>2, <4>2, <4>3
             DEF Waits, WaitsJob, WaitsWorker, WaitsResult, SomeAnswer, Whereabouts
    <3> QED
        BY <3>1, <3>2
  <2> QED
      BY <2>4, <2>5, <2>6, <2>7 DEF Inv
<1> QED
    BY <1>7, <1>8

LEMMA SendResponsePacketInv ==
    ASSUME Inv, SendResponsePacket
    PROVE  Inv'
<1>1. TypeOK /\ Shapes /\ (\A c \in Clients : Waits(c)) /\ Sizes
    BY DEF Inv
<1>2. PICK d, r : d = Head(ResultQue)[1] /\ r = Head(ResultQue)[2]
    OBVIOUS
<1>3. /\ ResultQue # <<>> /\ ResultQue' = Tail(ResultQue)
      /\ ResultQue \in Seq(Clients \X (Rooms \cup {None}))
      /\ asks' = [asks EXCEPT ![d] = "none"] /\ inRoom' = [inRoom EXCEPT ![d] = r]
      /\ view' = IF r = None THEN [view EXCEPT ![d] = {}] ELSE view
      /\ UNCHANGED <<RoomId, EnterUsers, jobs, worker, thread, hasty, raced, crossed>>
    BY <1>1, <1>2 DEF SendResponsePacket, TypeOK, roomVars, history
<1>4. \A c \in Clients :
          /\ d \in Clients /\ r \in Rooms \cup {None} /\ HasResult(d, r)
          /\ c # d => \A y \in Rooms \cup {None} : HasResult(c, y)' <=> HasResult(c, y)
          /\ c = d => \A y \in Rooms \cup {None} : ~HasResult(c, y)'
          /\ ResultOne(c)'
  <2>1. \A c \in Clients : ResultOne(c)
      BY <1>1 DEF Waits, WaitsResult
  <2> QED
      BY <1>2, <1>3, <2>1, ResultTaken
<1>5. d \in Clients /\ r \in Rooms \cup {None} /\ HasResult(d, r)
  <2> DEFINE S == Clients \X (Rooms \cup {None})
  <2>1. Head(ResultQue) \in S
    <3>1. ResultQue \in Seq(S) /\ ResultQue # <<>>
        BY <1>3
    <3> HIDE DEF S
    <3> QED
        BY <3>1
  <2>2. d \in Clients
      BY <1>2, <2>1
  <2> QED
      BY <1>4, <2>2
<1>6. /\ asks[d] \in {"chat", "exiting"} /\ OnlyIn(d, r)
      /\ r # None => RoomId[d] = r
      /\ \A t \in PacketThreads : ~AtThread(t, d)
    BY <1>1, <1>5 DEF Waits, WaitsResult
<1>7. /\ asks'[d] = "none" /\ inRoom'[d] = r
      /\ \A c \in Clients : c # d => inRoom'[c] = inRoom[c] /\ asks'[c] = asks[c]
    BY <1>1, <1>3, <1>5 DEF TypeOK
<1>8. TypeOK'
  <2>1. ResultQue' \in Seq(Clients \X (Rooms \cup {None}))
    <3> DEFINE S == Clients \X (Rooms \cup {None})
    <3>1. ResultQue \in Seq(S) /\ ResultQue # <<>> /\ ResultQue' = Tail(ResultQue)
        BY <1>3
    <3> HIDE DEF S
    <3>2. ResultQue' \in Seq(S)
        BY <3>1
    <3> QED
        BY <3>2 DEF S
  <2>2. /\ asks' \in [Clients -> {"none", "enter", "chat", "refused", "exit", "exiting"}]
        /\ inRoom' \in [Clients -> Rooms \cup {None}]
        /\ view' \in [Clients -> SUBSET Clients]
      BY <1>1, <1>3, <1>5 DEF TypeOK
  <2> QED
      BY <1>1, <1>3, <2>1, <2>2 DEF TypeOK
<1>9. Shapes'
    BY <1>1, <1>3 DEF Shapes, WorkerShape, ThreadShape
<1>10. Sizes'
    BY <1>1, <1>3, SizesSame
<1>11. \A c \in Clients : JobOne(c)' /\ (HasJob(c)' <=> HasJob(c))
    BY <1>1, <1>3 DEF Waits, WaitsJob, HasJob, JobOne
<1>12. ASSUME NEW c \in Clients PROVE Waits(c)'
  <2>1. CASE c # d
      BY <1>1, <1>3, <1>4, <1>7, <1>11, <2>1, Untouched
  <2>2. CASE c = d
    <3>1. ~HasJob(d) /\ ~AtWork(d)
        BY <1>1, <1>5, <1>6 DEF Waits, WaitsJob, WaitsWorker
    <3>2. ~AtWork(d)' /\ \A t \in PacketThreads : ~AtThread(t, d)'
        BY <1>3, <1>6, <3>1 DEF AtWork, AtThread
    <3>3. OnlyIn(d, r)'
        BY <1>3, <1>6 DEF OnlyIn
    <3>4. ResultOne(d)' /\ \A y \in Rooms \cup {None} : ~HasResult(d, y)'
        BY <1>4, <1>5
    <3> QED
        BY <1>3, <1>5, <1>6, <1>7, <1>11, <2>2, <3>1, <3>2, <3>3, <3>4
           DEF Waits, WaitsJob, WaitsWorker, WaitsThread, WaitsResult, SomeAnswer, Whereabouts
  <2> QED
      BY <2>1, <2>2
<1> QED
    BY <1>8, <1>9, <1>10, <1>12 DEF Inv

-----------------------------------------------------------------------------
LEMMA NextInv ==
    ASSUME Inv, [Next]_vars
    PROVE  Inv'
<1>1. CASE UNCHANGED vars
  <2>1. UNCHANGED <<RoomId, EnterUsers, jobs, worker, thread, ResultQue, asks, inRoom, view,
                    hasty, raced, crossed>>
      BY <1>1 DEF vars, roomVars, clientVars, history
  <2>2. TypeOK /\ Shapes /\ (\A c \in Clients : Waits(c)) /\ Sizes
      BY DEF Inv
  <2>3. TypeOK'
      BY <2>1, <2>2 DEF TypeOK
  <2>4. Shapes'
      BY <2>1, <2>2 DEF Shapes, WorkerShape, ThreadShape
  <2>5. \A c \in Clients : Waits(c)'
      BY <2>1, <2>2, NobodyWaits
  <2>6. Sizes'
      BY <2>1, <2>2, SizesSame
  <2> QED
      BY <2>3, <2>4, <2>5, <2>6 DEF Inv
<1>2. CASE Worker
    BY <1>2, TestGameRoomInv, EnterGameRoomInv, EnterSessionInv, AnswerEnterInv, ListUsersInv,
       TellNewcomerInv, CopyForNewUserInv, SendNewUserInv DEF Worker
<1>3. ASSUME NEW t \in PacketThreads, PacketThread(t)
      PROVE  Inv'
    BY <1>3, EnterSessionToChatInv, PushEnterResultInv, PushExitResultInv, CopyUsersInv,
       SendNoticeInv DEF PacketThread
<1>4. ASSUME NEW t \in PacketThreads, NEW c \in Clients,
             LeaveRoom(t, c) \/ \E r \in Rooms : OnEnterRoom(t, c, r)
      PROVE  Inv'
    BY <1>4, LeaveRoomInv, OnEnterRoomInv
<1>5. ASSUME NEW c \in Clients, AskExit(c) \/ \E r \in Rooms : OnGameRoomEnter(c, r)
      PROVE  Inv'
    BY <1>5, AskExitInv, OnGameRoomEnterInv
<1> QED
    BY <1>1, <1>2, <1>3, <1>4, <1>5, SendResponsePacketInv DEF Next

(* What is under way for each client agrees, in every state, with what it   *)
(* asked for and with the rooms it is a user of.                            *)
THEOREM Invariance == Spec => []Inv
<1>1. Inv /\ [Next]_vars => Inv'
    BY NextInv
<1> QED
    BY InitInv, <1>1, PTL DEF Spec

(* What is under way in the rooms is always a job, handler or answer of the *)
(* kinds the code makes.                                                    *)
THEOREM TypeCorrect == Spec => []TypeOK
<1>1. Inv => TypeOK
    BY DEF Inv
<1> QED
    BY <1>1, Invariance, PTL

(* A room never has more users than its MaxEnterSize, although EnterGameRoom*)
(* tests the size without the lock; only one that was entered to chat       *)
(* between the worker's test and insert may.                                *)
THEOREM NoRoomOverfull == Spec => []RoomHolds
<1>1. Inv => RoomHolds
    BY DEF Inv, Sizes, RoomHolds
<1> QED
    BY <1>1, Invariance, PTL

(* A client that waits for nothing is where the server told it that it is,  *)
(* and its session names that room.                                         *)
THEOREM AnswersTrue == Spec => []AnswersHold
<1>1. Inv => AnswersHold
  <2> SUFFICES ASSUME Inv, NEW c \in Clients, asks[c] = "none"
               PROVE  /\ \A r \in Rooms : c \in EnterUsers[r] <=> inRoom[c] = r
                      /\ inRoom[c] # None => RoomId[c] = inRoom[c]
      BY DEF AnswersHold
  <2> QED
      BY DEF Inv, Waits, Whereabouts, OnlyIn
<1> QED
    BY <1>1, Invariance, PTL

LEMMA Sources ==
    ASSUME Inv, NEW c \in Clients, NEW e
    PROVE  e \in AnswerSources(c) <=>
              \/ \E r \in Rooms : \E i \in 1 .. Len(jobs[r]) :
                    jobs[r][i] = c /\ e = <<"job", r, i>>
              \/ AtWork(c) /\ e = <<"worker", worker.at>>
              \/ \E t \in PacketThreads : AtThread(t, c) /\ e = <<"thread", t>>
              \/ \E i \in 1 .. Len(ResultQue) : ResultQue[i][1] = c /\ e = <<"result", i>>
<1>1. /\ \A r \in Rooms : DOMAIN jobs[r] = 1 .. Len(jobs[r])
      /\ DOMAIN ResultQue = 1 .. Len(ResultQue)
    BY DEF Inv, TypeOK
<1>2. e \in JobSources(c)
         <=> \E r \in Rooms : \E i \in 1 .. Len(jobs[r]) : jobs[r][i] = c /\ e = <<"job", r, i>>
    BY <1>1 DEF JobSources
<1>3. e \in WorkerSources(c) <=> AtWork(c) /\ e = <<"worker", worker.at>>
    BY DEF WorkerSources, AtWork, WorkerAnswers
<1>4. \A t \in PacketThreads :
          thread[t].client = c /\ thread[t].at \notin {"copy", "send"} <=> AtThread(t, c)
  <2>1. ASSUME NEW t \in PacketThreads
        PROVE  /\ thread[t].at \in {"idle", "copy", "send"} \cup ThreadAnswers
               /\ thread[t].at = "idle" => thread[t].client # c
      BY NoneAssumption DEF Inv, TypeOK, Shapes, ThreadShape, ThreadAnswers
  <2> QED
      BY <2>1 DEF AtThread, ThreadAnswers
<1>5. e \in ThreadSources(c) <=> \E t \in PacketThreads : AtThread(t, c) /\ e = <<"thread", t>>
    BY <1>4 DEF ThreadSources
<1>6. e \in ResultSources(c) <=> \E i \in 1 .. Len(ResultQue) : ResultQue[i][1] = c /\ e = <<"result", i>>
    BY <1>1 DEF ResultSources
<1> QED
    BY <1>2, <1>3, <1>5, <1>6 DEF AnswerSources

(* Between a request and its answer there is one job, handler or result     *)
(* that answers it, and none when no answer is awaited.                     *)
THEOREM OneAnswerEach == Spec => []OneAnswerComing
<1>1. ASSUME Inv, NEW c \in Clients
      PROVE  IF asks[c] \in {"enter", "chat", "exiting"}
             THEN \E e : AnswerSources(c) = {e} ELSE AnswerSources(c) = {}
  <2>1. Waits(c)
      BY <1>1 DEF Inv
  <2>2. ASSUME NEW i \in 1 .. Len(ResultQue), ResultQue[i][1] = c
        PROVE  \E x \in Rooms \cup {None} : HasResult(c, x)
    <3> DEFINE S == Clients \X (Rooms \cup {None})
    <3>1. ResultQue[i] \in S
      <4>1. ResultQue \in Seq(S)
          BY <1>1 DEF Inv, TypeOK
      <4> HIDE DEF S
      <4> QED
          BY <2>2, <4>1
    <3>2. ResultQue[i] = <<c, ResultQue[i][2]>> /\ ResultQue[i][2] \in Rooms \cup {None}
        BY <2>2, <3>1
    <3> QED
        BY <2>2, <3>2 DEF HasResult
  <2>3. CASE ~HasJob(c) /\ ~AtWork(c) /\ (\A t \in PacketThreads : ~AtThread(t, c))
             /\ \A x \in Rooms \cup {None} : ~HasResult(c, x)
    <3>1. \A e : e \notin AnswerSources(c)
        BY <1>1, <2>2, <2>3, Sources DEF HasJob
    <3>2. asks[c] \notin {"enter", "chat", "exiting"}
        BY <2>1, <2>3 DEF Waits, SomeAnswer
    <3> QED
        BY <3>1, <3>2
  <2>4. CASE HasJob(c)
    <3>1. PICK r \in Rooms : \E i \in 1 .. Len(jobs[r]) : jobs[r][i] = c
        BY <2>4 DEF HasJob
    <3>2. PICK i \in 1 .. Len(jobs[r]) : jobs[r][i] = c
        BY <3>1
    <3>3. asks[c] = "enter" /\ ~AtWork(c) /\ JobOne(c)
        BY <2>1, <2>4 DEF Waits, WaitsJob
    <3>4. /\ \A t \in PacketThreads : ~AtThread(t, c)
          /\ \A x \in Rooms \cup {None} : ~HasResult(c, x)
        BY <2>1, <3>3 DEF Waits, WaitsThread, WaitsResult
    <3>5. ASSUME NEW q \in Rooms, NEW j \in 1 .. Len(jobs[q]), jobs[q][j] = c
          PROVE  q = r /\ j = i
        BY <3>2, <3>3, <3>5 DEF JobOne
    <3>6. \A e : e \in AnswerSources(c) <=> e = <<"job", r, i>>
        BY <1>1, <2>2, <3>2, <3>3, <3>4, <3>5, Sources
    <3>7. AnswerSources(c) = {<<"job", r, i>>}
        BY <3>6
    <3> QED
        BY <3>3, <3>7
  <2>5. CASE AtWork(c)
    <3>1. asks[c] = "enter" /\ ~HasJob(c)
        BY <2>1, <2>5 DEF Waits, WaitsJob, WaitsWorker
    <3>2. /\ \A t \in PacketThreads : ~AtThread(t, c)
          /\ \A x \in Rooms \cup {None} : ~HasResult(c, x)
        BY <2>1, <3>1 DEF Waits, WaitsThread, WaitsResult
    <3>3. \A e : e \in AnswerSources(c) <=> e = <<"worker", worker.at>>
        BY <1>1, <2>2, <2>5, <3>1, <3>2, Sources DEF HasJob
    <3>4. AnswerSources(c) = {<<"worker", worker.at>>}
        BY <3>3
    <3> QED
        BY <3>1, <3>4
  <2>6. CASE \E t \in PacketThreads : AtThread(t, c)
    <3>1. PICK t \in PacketThreads : AtThread(t, c)
        BY <2>6
    <3>2. asks[c] \in {"chat", "exiting"} /\ \A u \in PacketThreads : AtThread(u, c) => u = t
        BY <2>1, <3>1 DEF Waits, WaitsThread
    <3>3. ~HasJob(c) /\ ~AtWork(c) /\ \A x \in Rooms \cup {None} : ~HasResult(c, x)
        BY <2>1, <3>1, <3>2 DEF Waits, WaitsJob, WaitsWorker, WaitsResult
    <3>4. \A e : e \in AnswerSources(c) <=> e = <<"thread", t>>
        BY <1>1, <2>2, <3>1, <3>2, <3>3, Sources DEF HasJob
    <3>5. AnswerSources(c) = {<<"thread", t>>}
        BY <3>4
    <3> QED
        BY <3>2, <3>5
  <2>7. CASE \E x \in Rooms \cup {None} : HasResult(c, x)
    <3>1. PICK x \in Rooms \cup {None} : HasResult(c, x)
        BY <2>7
    <3>2. PICK i \in 1 .. Len(ResultQue) : ResultQue[i] = <<c, x>>
        BY <3>1 DEF HasResult
    <3>3. ResultQue[i][1] = c
        BY <3>2
    <3>4. /\ asks[c] \in {"chat", "exiting"} /\ ResultOne(c)
          /\ \A t \in PacketThreads : ~AtThread(t, c)
        BY <2>1, <3>1 DEF Waits, WaitsResult
    <3>5. ~HasJob(c) /\ ~AtWork(c)
        BY <2>1, <3>4 DEF Waits, WaitsJob, WaitsWorker
    <3>6. \A j \in 1 .. Len(ResultQue) : ResultQue[j][1] = c => j = i
        BY <3>3, <3>4 DEF ResultOne
    <3>7. \A e : e \in AnswerSources(c) <=> e = <<"result", i>>
        BY <1>1, <3>3, <3>4, <3>5, <3>6, Sources DEF HasJob
    <3>8. AnswerSources(c) = {<<"result", i>>}
        BY <3>7
    <3> QED
        BY <3>4, <3>8
  <2> QED
      BY <2>3, <2>4, <2>5, <2>6, <2>7
<1>2. Inv => OneAnswerComing
  <2> SUFFICES ASSUME Inv, NEW c \in Clients
               PROVE  Cardinality(AnswerSources(c)) =
                         IF asks[c] \in {"enter", "chat", "exiting"} THEN 1 ELSE 0
      BY DEF OneAnswerComing
  <2>1. CASE asks[c] \in {"enter", "chat", "exiting"}
    <3>1. PICK e : AnswerSources(c) = {e}
        BY <1>1, <2>1
    <3> QED
        BY <2>1, <3>1, FS_Singleton
  <2>2. CASE asks[c] \notin {"enter", "chat", "exiting"}
    <3>1. AnswerSources(c) = {}
        BY <1>1, <2>2
    <3> QED
        BY <2>2, <3>1, FS_EmptySet
  <2> QED
      BY <2>1, <2>2
<1> QED
    BY <1>2, Invariance, PTL

-----------------------------------------------------------------------------
(* The session of a user names its room, once it was told.                  *)
LEMMA SessionNamesRoom ==
    ASSUME Inv, NEW r \in Rooms, NEW d \in EnterUsers[r]
    PROVE  \/ RoomId[d] = r
           \/ worker.client = d /\ worker.at = "entered" /\ worker.room = r
           \/ \E t \in PacketThreads :
                 thread[t].client = d /\ thread[t].at = "entered" /\ thread[t].room = r
<1>1. d \in Clients /\ asks[d] \in {"none", "enter", "chat", "refused", "exit", "exiting"}
    BY DEF Inv, TypeOK
<1>2. Waits(d) /\ r # None
    BY <1>1, NoneAssumption DEF Inv
<1>3. \A x : OnlyIn(d, x) => x = r
    BY DEF OnlyIn
<1>4. CASE asks[d] \in {"none", "exit"}
    BY <1>2, <1>3, <1>4 DEF Waits, Whereabouts
<1>5. CASE asks[d] = "refused"
    BY <1>2, <1>3, <1>5 DEF Waits, Whereabouts
<1>6. CASE asks[d] = "enter"
  <2>1. AtWork(d)
      BY <1>2, <1>3, <1>6 DEF Waits, SomeAnswer, WaitsJob
  <2>2. worker.at # "tested" /\ worker.room = r /\ (worker.at = "answer" => RoomId[d] = r)
      BY <1>2, <1>3, <2>1 DEF Waits, WaitsWorker
  <2> QED
      BY <2>1, <2>2 DEF AtWork, WorkerAnswers
<1>7. CASE asks[d] \in {"chat", "exiting"}
  <2>1. CASE \E t \in PacketThreads : AtThread(t, d)
    <3>1. PICK t \in PacketThreads : AtThread(t, d)
        BY <2>1
    <3>2. /\ thread[t].at \in {"entered", "answer"} /\ thread[t].room = r
          /\ thread[t].at = "answer" => RoomId[d] = r
        BY <1>2, <1>3, <3>1 DEF Waits, WaitsThread
    <3> QED
        BY <3>1, <3>2 DEF AtThread
  <2>2. CASE \E x \in Rooms \cup {None} : HasResult(d, x)
      BY <1>2, <1>3, <2>2 DEF Waits, WaitsResult
  <2> QED
      BY <1>2, <1>7, <2>1, <2>2 DEF Waits, SomeAnswer
<1> QED
    BY <1>1, <1>4, <1>5, <1>6, <1>7

(* A user that does not enter to chat was told that it is in the room,      *)
(* unless the worker is about to.                                           *)
LEMMA ToldRoom ==
    ASSUME Inv, NEW r \in Rooms, NEW c \in EnterUsers[r], c \notin Chatters
    PROVE  inRoom[c] = r \/ (worker.client = c /\ worker.at \in {"entered", "answer"})
<1>1. c \in Clients /\ asks[c] \in {"none", "enter", "chat", "refused", "exit", "exiting"}
    BY DEF Inv, TypeOK
<1>2. Waits(c) /\ r # None
    BY <1>1, NoneAssumption DEF Inv
<1>3. \A x : OnlyIn(c, x) => x = r
    BY DEF OnlyIn
<1>4. CASE asks[c] \in {"none", "exit"}
    BY <1>2, <1>3, <1>4 DEF Waits, Whereabouts
<1>5. CASE asks[c] \in {"refused", "chat"}
    BY <1>2, <1>3, <1>5 DEF Waits, Whereabouts
<1>6. CASE asks[c] = "enter"
  <2>1. AtWork(c)
      BY <1>2, <1>3, <1>6 DEF Waits, SomeAnswer, WaitsJob
  <2>2. worker.at # "tested"
      BY <1>2, <1>3, <2>1 DEF Waits, WaitsWorker
  <2> QED
      BY <2>1, <2>2 DEF AtWork, WorkerAnswers
<1>7. CASE asks[c] = "exiting"
  <2>1. ASSUME NEW t \in PacketThreads, AtThread(t, c) PROVE FALSE
      BY <1>2, <1>3, <1>7, <2>1 DEF Waits, WaitsThread
  <2>2. ASSUME NEW x \in Rooms \cup {None}, HasResult(c, x) PROVE FALSE
      BY <1>2, <1>3, <1>7, <2>2 DEF Waits, WaitsResult
  <2> QED
      BY <1>2, <1>7, <2>1, <2>2 DEF Waits, SomeAnswer
<1> QED
    BY <1>1, <1>4, <1>5, <1>6, <1>7

(* A step that moves no user keeps the newcomers known when who was about   *)
(* to hear of whom still is, or has.                                        *)
LEMMA KnownKept ==
    ASSUME InvKnown, UNCHANGED <<EnterUsers, hasty>>,
           \A d \in Clients : LeavingOne(d)' => LeavingOne(d),
           worker'.at \notin {"idle", "tested"} =>
               /\ worker.at \notin {"idle", "tested"}
               /\ worker'.client = worker.client /\ worker'.room = worker.room,
           EnterUsers \in [Rooms -> SUBSET Clients],
           \A r \in Rooms : \A c, d \in EnterUsers[r] \ hasty :
               c \notin Chatters /\ Hearing(c, d) => Hearing(c, d)'
    PROVE  InvKnown'
<1>1. Informed'
    BY DEF InvKnown, Informed
<1>2. LeavingIsHasty'
    BY DEF InvKnown, LeavingIsHasty
<1>3. WorkerRoom'
    BY DEF InvKnown, WorkerRoom
<1> QED
    BY <1>1, <1>2, <1>3 DEF InvKnown

LEMMA HearingKept ==
    ASSUME NEW c, NEW d, Hearing(c, d), worker' = worker, d \in view[c] => d \in view'[c],
           \A t \in PacketThreads : ThreadNotes(t, c, d) => ThreadNotes(t, c, d)'
    PROVE  Hearing(c, d)'
BY DEF Hearing, ToList, ToTell, WorkerNotes

LEMMA AskedKnown ==
    ASSUME Inv, InvKnown,
           \/ \E c \in Clients : AskExit(c) \/ \E r \in Rooms : OnGameRoomEnter(c, r)
           \/ UNCHANGED vars
    PROVE  InvKnown'
<1>1. UNCHANGED <<EnterUsers, worker, thread, view, hasty>>
    BY DEF OnGameRoomEnter, AskExit, vars, roomVars, clientVars, history
<1>2. \A e, d : Hearing(e, d) => Hearing(e, d)'
    BY <1>1, HearingKept DEF ThreadNotes
<1>3. \A d \in Clients : LeavingOne(d)' => LeavingOne(d)
    BY <1>1 DEF LeavingOne
<1> QED
    BY <1>1, <1>2, <1>3, KnownKept DEF Inv, TypeOK

LEMMA SendResponsePacketKnown ==
    ASSUME Inv, InvKnown, SendResponsePacket
    PROVE  InvKnown'
<1>1. UNCHANGED <<EnterUsers, worker, thread, hasty>>
    BY DEF SendResponsePacket, roomVars, history
<1>2. \A d \in Clients : LeavingOne(d)' => LeavingOne(d)
    BY <1>1 DEF LeavingOne
<1>3. ASSUME NEW r \in Rooms, NEW c \in EnterUsers[r], NEW d
      PROVE  d \in view[c] => d \in view'[c]
  <2>1. PICK e, x : e = Head(ResultQue)[1] /\ x = Head(ResultQue)[2]
      OBVIOUS
  <2>2. c \in Clients /\ view \in [Clients -> SUBSET Clients]
      BY DEF Inv, TypeOK
  <2>3. view' = IF x = None THEN [view EXCEPT ![e] = {}] ELSE view
      BY <2>1 DEF SendResponsePacket
  <2>4. e \in Clients /\ HasResult(e, x) /\ x \in Rooms \cup {None}
    <3>1. /\ ResultQue \in Seq(Clients \X (Rooms \cup {None})) /\ ResultQue # <<>>
          /\ ResultQue' = Tail(ResultQue)
        BY DEF SendResponsePacket, Inv, TypeOK
    <3>2. ResultOne(c)
        BY <2>2 DEF Inv, Waits, WaitsResult
    <3> QED
        BY <2>1, <2>2, <3>1, <3>2, ResultTaken
  <2>5. OnlyIn(e, x)
      BY <2>4 DEF Inv, Waits, WaitsResult
  <2>6. c = e => x = r
      BY <2>5 DEF OnlyIn
  <2> QED
      BY <2>2, <2>3, <2>6, NoneAssumption
<1>4. \A r \in Rooms : \A c, d \in EnterUsers[r] \ hasty : Hearing(c, d) => Hearing(c, d)'
  <2> SUFFICES ASSUME NEW r \in Rooms, NEW c \in EnterUsers[r], NEW d, Hearing(c, d)
               PROVE  Hearing(c, d)'
      OBVIOUS
  <2>1. d \in view[c] => d \in view'[c]
      BY <1>3
  <2>2. \A t \in PacketThreads : ThreadNotes(t, c, d) => ThreadNotes(t, c, d)'
      BY <1>1 DEF ThreadNotes
  <2> QED
      BY <1>1, <2>1, <2>2, HearingKept
<1> QED
    BY <1>1, <1>2, <1>4, KnownKept DEF Inv, TypeOK

(* The worker's steps that leave the users alone.                           *)
LEMMA WorkerStepKnown ==
    ASSUME Inv, InvKnown, UNCHANGED <<EnterUsers, thread, hasty>>,
           worker'.at \notin {"idle", "tested"} =>
               /\ worker.at \notin {"idle", "tested"}
               /\ worker'.client = worker.client /\ worker'.room = worker.room,
           \A r \in Rooms : \A c, d \in EnterUsers[r] \ hasty : c \notin Chatters =>
               /\ d \in view[c] => d \in view'[c]
               /\ ToList(c) \/ ToTell(c, d) \/ WorkerNotes(c, d) =>
                     d \in view'[c] \/ ToList(c)' \/ ToTell(c, d)' \/ WorkerNotes(c, d)'
                        \/ \E t \in PacketThreads : ThreadNotes(t, c, d)
    PROVE  InvKnown'
<1>1. \A d \in Clients : LeavingOne(d)' => LeavingOne(d)
    BY DEF LeavingOne
<1>2. \A c, d : \A t \in PacketThreads : ThreadNotes(t, c, d) => ThreadNotes(t, c, d)'
    BY DEF ThreadNotes
<1>3. \A r \in Rooms : \A c, d \in EnterUsers[r] \ hasty :
          c \notin Chatters /\ Hearing(c, d) => Hearing(c, d)'
    BY <1>2 DEF Hearing
<1> QED
    BY <1>1, <1>3, KnownKept DEF Inv, TypeOK

LEMMA TestGameRoomKnown ==
    ASSUME Inv, InvKnown, NEW r \in Rooms, TestGameRoom(r)
    PROVE  InvKnown'
<1>1. /\ UNCHANGED <<EnterUsers, thread, view, hasty>>
      /\ worker.at = "idle" /\ worker'.at \in {"idle", "tested"}
    BY DEF TestGameRoom, history
<1> QED
    BY <1>1, WorkerStepKnown DEF ToList, ToTell, WorkerNotes

LEMMA EnterSessionKnown ==
    ASSUME Inv, InvKnown, EnterSession \/ AnswerEnter
    PROVE  InvKnown'
<1>1. /\ UNCHANGED <<EnterUsers, thread, view, hasty>>
      /\ worker.at \in {"entered", "answer"} /\ worker'.at \in {"answer", "list"}
      /\ worker'.client = worker.client /\ worker'.room = worker.room
    BY DEF EnterSession, AnswerEnter, roomVars, clientVars, history, Inv, TypeOK
<1> QED
    BY <1>1, WorkerStepKnown DEF ToList, ToTell, WorkerNotes

LEMMA ListUsersKnown ==
    ASSUME Inv, InvKnown, ListUsers
    PROVE  InvKnown'
<1>1. /\ UNCHANGED <<EnterUsers, thread, view, hasty>>
      /\ worker.at = "list" /\ worker'.at = "tell" /\ worker'.to = EnterUsers[worker.room]
      /\ worker'.client = worker.client /\ worker'.room = worker.room
    BY DEF ListUsers, roomVars, clientVars, history, Inv, TypeOK
<1>2. ASSUME NEW r \in Rooms, NEW c \in EnterUsers[r], c \notin Chatters, worker.client = c
      PROVE  r = worker.room
    BY <1>1, <1>2 DEF InvKnown, WorkerRoom
<1> QED
    BY <1>1, <1>2, WorkerStepKnown DEF ToList, ToTell, WorkerNotes

LEMMA TellNewcomerKnown ==
    ASSUME Inv, InvKnown, TellNewcomer
    PROVE  InvKnown'
<1>1. /\ UNCHANGED <<EnterUsers, thread, hasty>>
      /\ worker.at = "tell" /\ worker'.at = "copy"
      /\ worker'.client = worker.client /\ worker'.room = worker.room
      /\ \A c \in Clients : view'[c] =
            IF c = worker.client /\ inRoom[c] # None THEN view[c] \cup worker.to ELSE view[c]
    BY DEF TellNewcomer, Hears, roomVars, history, Inv, TypeOK
<1>2. ASSUME NEW r \in Rooms, NEW c \in EnterUsers[r], c \notin Chatters
      PROVE  c \in Clients /\ inRoom[c] # None
  <2>1. inRoom[c] = r
      BY <1>1, <1>2, ToldRoom
  <2> QED
      BY <2>1, NoneAssumption DEF Inv, TypeOK
<1> QED
    BY <1>1, <1>2, WorkerStepKnown DEF ToList, ToTell, WorkerNotes

LEMMA CopyForNewUserKnown ==
    ASSUME Inv, InvKnown, CopyForNewUser
    PROVE  InvKnown'
<1>1. /\ UNCHANGED <<EnterUsers, thread, view, hasty>>
      /\ worker.at = "copy" /\ worker'.at = "send"
      /\ worker'.to = EnterUsers[RoomId[worker.client]]
      /\ worker'.client = worker.client /\ worker'.room = worker.room
    BY DEF CopyForNewUser, roomVars, clientVars, history, Inv, TypeOK
<1>2. ASSUME NEW r \in Rooms, NEW c \in EnterUsers[r], NEW d \in EnterUsers[r],
             worker.client = d
      PROVE  c \in worker'.to \/ \E t \in PacketThreads : ThreadNotes(t, c, d)
  <2>1. CASE RoomId[d] = r
      BY <1>1, <1>2, <2>1
  <2>2. ASSUME NEW t \in PacketThreads, thread[t].client = d, thread[t].at = "entered",
               thread[t].room = r
        PROVE  ThreadNotes(t, c, d)
      BY <2>2, NoneAssumption DEF ThreadNotes
  <2> QED
      BY <1>1, <2>1, <2>2, SessionNamesRoom
<1> QED
    BY <1>1, <1>2, WorkerStepKnown DEF ToList, ToTell, WorkerNotes

LEMMA SendNewUserKnown ==
    ASSUME Inv, InvKnown, SendNewUser
    PROVE  InvKnown'
<1>1. /\ UNCHANGED <<EnterUsers, thread, hasty>>
      /\ worker.at = "send" /\ worker'.at = "idle"
      /\ \A c \in Clients : view'[c] =
            IF c \in worker.to /\ inRoom[c] # None THEN view[c] \cup {worker.client} ELSE view[c]
    BY DEF SendNewUser, Hears, IdleWorker, roomVars, history
<1>2. ASSUME NEW r \in Rooms, NEW c \in EnterUsers[r], c \notin Chatters
      PROVE  c \in Clients /\ inRoom[c] # None
  <2>1. inRoom[c] = r
      BY <1>1, <1>2, ToldRoom
  <2> QED
      BY <2>1, NoneAssumption DEF Inv, TypeOK
<1> QED
    BY <1>1, <1>2, WorkerStepKnown DEF ToList, ToTell, WorkerNotes

(* An insert of e into room r: who was there is told of e, and e of them,   *)
(* when it does not enter to chat.                                          *)
LEMMA InsertKnown ==
    ASSUME Inv, InvKnown, NEW r \in Rooms, NEW e \in Clients, OnlyIn(e, None),
           EnterUsers' = [EnterUsers EXCEPT ![r] = @ \cup {e}], NoteInsert(e), view' = view,
           \A d \in Clients : LeavingOne(d)' <=> LeavingOne(d),
           \A c, d \in Clients : c # e /\ d # e /\ Hearing(c, d) => Hearing(c, d)',
           \A c \in Clients : Hearing(c, e)',
           \A d \in Clients : e \notin Chatters => Hearing(e, d)',
           worker'.at \notin {"idle", "tested"} /\ worker'.client \notin Chatters =>
               \/ worker' = worker /\ worker.client # e
               \/ worker'.client = e /\ worker'.room = r
    PROVE  InvKnown'
<1>1. EnterUsers \in [Rooms -> SUBSET Clients] /\ (\A q \in Rooms : e \notin EnterUsers[q])
    BY NoneAssumption DEF Inv, TypeOK, OnlyIn
<1>2. /\ EnterUsers'[r] = EnterUsers[r] \cup {e}
      /\ \A q \in Rooms : q # r => EnterUsers'[q] = EnterUsers[q]
      /\ hasty' = (IF LeavingOne(e) THEN hasty \cup {e} ELSE hasty \ {e})
    BY <1>1 DEF NoteInsert
<1>3. Informed'
  <2> SUFFICES ASSUME NEW q \in Rooms, NEW c \in EnterUsers'[q] \ hasty',
                      NEW d \in EnterUsers'[q] \ hasty', c \notin Chatters
               PROVE  Hearing(c, d)'
      BY DEF Informed
  <2>1. c \in Clients /\ d \in Clients
      BY <1>1, <1>2
  <2>2. CASE c # e /\ d # e
    <3>1. c \in EnterUsers[q] \ hasty /\ d \in EnterUsers[q] \ hasty
        BY <1>2, <2>2
    <3> QED
        BY <2>1, <2>2, <3>1 DEF InvKnown, Informed
  <2> QED
      BY <2>1, <2>2
<1>4. LeavingIsHasty'
  <2> SUFFICES ASSUME NEW q \in Rooms, NEW d \in EnterUsers'[q], LeavingOne(d)'
               PROVE  d \in hasty'
      BY DEF LeavingIsHasty
  <2>1. d \in Clients /\ LeavingOne(d) /\ (d # e => d \in EnterUsers[q])
      BY <1>1, <1>2
  <2> QED
      BY <1>2, <2>1 DEF InvKnown, LeavingIsHasty
<1>5. WorkerRoom'
    BY <1>1, <1>2 DEF InvKnown, WorkerRoom
<1> QED
    BY <1>3, <1>4, <1>5 DEF InvKnown

LEMMA EnterGameRoomKnown ==
    ASSUME Inv, InvKnown, EnterGameRoom
    PROVE  InvKnown'
<1>1. PICK r \in Rooms, e \in Clients : r = worker.room /\ e = worker.client
    BY DEF Inv, Shapes, WorkerShape, EnterGameRoom
<1>2. /\ EnterUsers' = [EnterUsers EXCEPT ![r] = @ \cup {e}] /\ NoteInsert(e)
      /\ view' = view /\ thread' = thread
      /\ worker.at = "tested" /\ worker'.at = "entered"
      /\ worker'.client = e /\ worker'.room = r
    BY <1>1 DEF EnterGameRoom, clientVars, Inv, TypeOK
<1>3. OnlyIn(e, None)
  <2>1. AtWork(e)
      BY <1>1, <1>2 DEF AtWork, WorkerAnswers
  <2> QED
      BY <1>2, <2>1 DEF Inv, Waits, WaitsWorker
<1>4. \A d \in Clients : LeavingOne(d)' <=> LeavingOne(d)
    BY <1>2 DEF LeavingOne
<1>5. \A c, d \in Clients : Hearing(c, d) => Hearing(c, d)'
    BY <1>2 DEF Hearing, ToList, ToTell, WorkerNotes, ThreadNotes
<1>6. (\A c \in Clients : Hearing(c, e)') /\ (\A d \in Clients : Hearing(e, d)')
    BY <1>2 DEF Hearing, ToList, WorkerNotes
<1> QED
    BY <1>2, <1>3, <1>4, <1>5, <1>6, InsertKnown

LEMMA OnEnterRoomKnown ==
    ASSUME Inv, InvKnown, NEW t \in PacketThreads, NEW e \in Clients, NEW r \in Rooms,
           OnEnterRoom(t, e, r)
    PROVE  InvKnown'
<1>1. /\ e \in Chatters /\ asks[e] \in {"none", "refused"} /\ inRoom[e] = None
      /\ thread[t].at = "idle"
      /\ thread'[t].client = e /\ thread'[t].room = r
      /\ \A u \in PacketThreads : u # t => thread'[u] = thread[u]
      /\ UNCHANGED <<worker, view>>
    BY DEF OnEnterRoom, Inv, TypeOK
<1>2. r # None /\ thread[t].client \notin Clients
    BY <1>1, NoneAssumption DEF Inv, Shapes, ThreadShape
<1>3. \A d \in Clients : LeavingOne(d)' <=> LeavingOne(d)
    BY <1>1, <1>2 DEF LeavingOne
<1>4. \A c, d \in Clients : Hearing(c, d) => Hearing(c, d)'
  <2> SUFFICES ASSUME NEW c \in Clients, NEW d \in Clients, Hearing(c, d)
               PROVE  Hearing(c, d)'
      OBVIOUS
  <2>1. \A u \in PacketThreads : ThreadNotes(u, c, d) => ThreadNotes(u, c, d)'
      BY <1>1, <1>2 DEF ThreadNotes
  <2> QED
      BY <1>1, <2>1, HearingKept
<1>5. CASE UNCHANGED <<EnterUsers, hasty>>
    BY <1>1, <1>3, <1>4, <1>5, KnownKept DEF Inv, TypeOK
<1>6. CASE /\ EnterUsers' = [EnterUsers EXCEPT ![r] = @ \cup {e}] /\ NoteInsert(e)
           /\ thread' = [thread EXCEPT ![t] =
                            [at |-> "entered", client |-> e, room |-> r, to |-> {}]]
  <2>1. OnlyIn(e, None) /\ ~AtWork(e)
      BY <1>1, NothingUnderWay DEF Inv, Waits, Whereabouts
  <2>2. thread'[t].at = "entered"
      BY <1>6 DEF Inv, TypeOK
  <2>3. \A c \in Clients : Hearing(c, e)'
      BY <1>1, <1>2, <2>2 DEF Hearing, ThreadNotes
  <2>4. worker'.client \notin Chatters => worker' = worker /\ worker.client # e
      BY <1>1
  <2> QED
      BY <1>1, <1>3, <1>4, <1>6, <2>1, <2>3, <2>4, InsertKnown
<1> QED
    BY <1>5, <1>6 DEF OnEnterRoom

LEMMA LeaveRoomKnown ==
    ASSUME Inv, InvKnown, NEW t \in PacketThreads, NEW e \in Clients, LeaveRoom(t, e)
    PROVE  InvKnown'
<1>1. thread[t].at = "idle" /\ asks[e] = "exit" /\ UNCHANGED <<worker, view, hasty>>
    BY DEF LeaveRoom, history
<1>2. CASE UNCHANGED <<EnterUsers, thread>>
  <2>1. \A c, d : Hearing(c, d) => Hearing(c, d)'
      BY <1>1, <1>2, HearingKept DEF ThreadNotes
  <2>2. \A d \in Clients : LeavingOne(d)' => LeavingOne(d)
      BY <1>2 DEF LeavingOne
  <2> QED
      BY <1>1, <1>2, <2>1, <2>2, KnownKept DEF Inv, TypeOK
<1>3. CASE IsUser(e)
  <2>1. PICK r \in Rooms : r = RoomId[e] /\ e \in EnterUsers[r]
      BY <1>3 DEF IsUser
  <2>2. /\ EnterUsers' = [EnterUsers EXCEPT ![r] = @ \ {e}]
        /\ thread'[t].client = e
        /\ \A u \in PacketThreads : u # t => thread'[u] = thread[u]
    <3>1. DOMAIN thread = PacketThreads
        BY DEF Inv, TypeOK
    <3>2. /\ EnterUsers' = [EnterUsers EXCEPT ![r] = @ \ {e}]
          /\ thread' = [thread EXCEPT ![t] = [IdleThread EXCEPT !.at = "left",
                                                                !.client = e]]
        BY <1>3, <2>1 DEF LeaveRoom
    <3> QED
        BY <3>1, <3>2 DEF IdleThread
  <2>3. EnterUsers \in [Rooms -> SUBSET Clients] /\ thread[t].client \notin Clients
      BY <1>1, NoneAssumption DEF Inv, TypeOK, Shapes, ThreadShape
  <2>4. OnlyIn(e, r)
      BY <1>1, <2>1 DEF Inv, Waits, Whereabouts, OnlyIn
  <2>5. \A q \in Rooms : EnterUsers'[q] \subseteq EnterUsers[q] /\ e \notin EnterUsers'[q]
      BY <2>2, <2>3, <2>4 DEF OnlyIn
  <2>6. Informed'
    <3> SUFFICES ASSUME NEW q \in Rooms, NEW c \in EnterUsers[q] \ hasty,
                        NEW d \in EnterUsers[q] \ hasty, c \notin Chatters
                 PROVE  Hearing(c, d)'
        BY <1>1, <2>5 DEF Informed
    <3>1. Hearing(c, d) /\ d \in Clients
        BY <2>3 DEF InvKnown, Informed
    <3>2. \A u \in PacketThreads : ThreadNotes(u, c, d) => ThreadNotes(u, c, d)'
        BY <2>2, <2>3, <3>1 DEF ThreadNotes
    <3> QED
        BY <1>1, <3>1, <3>2, HearingKept
  <2>7. LeavingIsHasty'
    <3> SUFFICES ASSUME NEW q \in Rooms, NEW d \in EnterUsers'[q], LeavingOne(d)'
                 PROVE  d \in hasty
        BY <1>1 DEF LeavingIsHasty
    <3>1. d # e /\ d \in EnterUsers[q]
        BY <2>5
    <3>2. LeavingOne(d)
        BY <2>2, <3>1 DEF LeavingOne
    <3> QED
        BY <3>1, <3>2 DEF InvKnown, LeavingIsHasty
  <2>8. WorkerRoom'
      BY <1>1, <2>5 DEF InvKnown, WorkerRoom
  <2> QED
      BY <2>6, <2>7, <2>8 DEF InvKnown
<1> QED
    BY <1>2, <1>3 DEF LeaveRoom

(* The steps of a packet thread that leave the users alone.                 *)
LEMMA ThreadStepKnown ==
    ASSUME Inv, InvKnown, NEW t \in PacketThreads, UNCHANGED <<EnterUsers, worker, hasty>>,
           \A u \in PacketThreads : u # t => thread'[u] = thread[u],
           thread'[t].client \in Clients =>
               thread'[t].client = thread[t].client /\ thread'[t].room = thread[t].room,
           \A r \in Rooms : \A c, d \in EnterUsers[r] \ hasty : c \notin Chatters =>
               /\ d \in view[c] => d \in view'[c]
               /\ ThreadNotes(t, c, d) =>
                     \/ d \in view'[c] \/ ThreadNotes(t, c, d)' \/ ToList(c) \/ WorkerNotes(c, d)
                     \/ \E u \in PacketThreads \ {t} : ThreadNotes(u, c, d)
    PROVE  InvKnown'
<1>1. \A d \in Clients : LeavingOne(d)' => LeavingOne(d)
    BY DEF LeavingOne
<1>2. \A r \in Rooms : \A c, d \in EnterUsers[r] \ hasty :
          c \notin Chatters /\ Hearing(c, d) => Hearing(c, d)'
  <2> SUFFICES ASSUME NEW r \in Rooms, NEW c \in EnterUsers[r] \ hasty,
                      NEW d \in EnterUsers[r] \ hasty, c \notin Chatters, Hearing(c, d)
               PROVE  Hearing(c, d)'
      OBVIOUS
  <2>1. \A u \in PacketThreads \ {t} : ThreadNotes(u, c, d) => ThreadNotes(u, c, d)'
      BY DEF ThreadNotes
  <2>2. /\ ToList(c) => ToList(c)'
        /\ ToTell(c, d) => ToTell(c, d)'
        /\ WorkerNotes(c, d) => WorkerNotes(c, d)'
      BY DEF ToList, ToTell, WorkerNotes
  <2> QED
      BY <2>1, <2>2 DEF Hearing
<1> QED
    BY <1>1, <1>2, KnownKept DEF Inv, TypeOK

LEMMA ThreadAnswersKnown ==
    ASSUME Inv, InvKnown, NEW t \in PacketThreads,
           EnterSessionToChat(t) \/ PushEnterResult(t) \/ PushExitResult(t)
    PROVE  InvKnown'
<1>1. /\ UNCHANGED <<EnterUsers, worker, hasty, view>>
      /\ \A u \in PacketThreads : u # t => thread'[u] = thread[u]
    BY DEF EnterSessionToChat, PushEnterResult, PushExitResult, roomVars, clientVars, history,
           Inv, TypeOK
<1>2. \/ /\ thread'[t].client = thread[t].client /\ thread'[t].room = thread[t].room
         /\ thread[t].at \in {"entered", "answer"} => thread'[t].at \in {"answer", "copy"}
         /\ thread[t].at \notin {"copy", "send"}
      \/ thread'[t].client = None /\ thread[t].at = "deny"
    BY DEF EnterSessionToChat, PushEnterResult, PushExitResult, IdleThread, Inv, TypeOK
<1>3. \A c, d : ThreadNotes(t, c, d) => ThreadNotes(t, c, d)'
    BY <1>2 DEF ThreadNotes
<1> QED
    BY <1>1, <1>2, <1>3, NoneAssumption, ThreadStepKnown

LEMMA CopyUsersKnown ==
    ASSUME Inv, InvKnown, NEW t \in PacketThreads, CopyUsers(t)
    PROVE  InvKnown'
<1>1. /\ UNCHANGED <<EnterUsers, worker, hasty, view>>
      /\ \A u \in PacketThreads : u # t => thread'[u] = thread[u]
      /\ thread'[t].client = thread[t].client /\ thread'[t].room = thread[t].room
      /\ thread[t].at = "copy" /\ thread'[t].at = "send"
      /\ thread'[t].to = EnterUsers[RoomId[thread[t].client]]
    BY DEF CopyUsers, roomVars, clientVars, history, Inv, TypeOK
<1>2. ASSUME NEW r \in Rooms, NEW c \in EnterUsers[r], NEW d \in EnterUsers[r],
             ThreadNotes(t, c, d)
      PROVE  \/ ThreadNotes(t, c, d)' \/ WorkerNotes(c, d)
             \/ \E u \in PacketThreads \ {t} : ThreadNotes(u, c, d)
  <2>1. CASE RoomId[d] = r
      BY <1>1, <1>2, <2>1 DEF ThreadNotes
  <2>2. CASE worker.client = d /\ worker.at = "entered"
      BY <2>2 DEF WorkerNotes
  <2>3. ASSUME NEW u \in PacketThreads, thread[u].client = d, thread[u].at = "entered",
               thread[u].room = r
        PROVE  u # t /\ ThreadNotes(u, c, d)
      BY <1>1, <2>3, NoneAssumption DEF ThreadNotes
  <2> QED
      BY <2>1, <2>2, <2>3, SessionNamesRoom
<1> QED
    BY <1>1, <1>2, ThreadStepKnown

LEMMA SendNoticeKnown ==
    ASSUME Inv, InvKnown, NEW t \in PacketThreads, SendNotice(t)
    PROVE  InvKnown'
<1>1. PICK e \in Clients : e = thread[t].client
    BY DEF Inv, Shapes, ThreadShape, SendNotice
<1>2. /\ UNCHANGED <<EnterUsers, worker, hasty>>
      /\ \A u \in PacketThreads : u # t => thread'[u] = thread[u]
      /\ thread'[t].client = None /\ thread[t].at = "send"
      /\ \A c \in Clients : view'[c] =
            IF c \in thread[t].to /\ inRoom[c] # None
            THEN IF thread[t].room = None THEN view[c] \ {e} ELSE view[c] \cup {e}
            ELSE view[c]
    BY <1>1 DEF SendNotice, Hears, IdleThread, roomVars, history, Inv, TypeOK
<1>3. ASSUME NEW r \in Rooms, NEW c \in EnterUsers[r] \ hasty, NEW d \in EnterUsers[r] \ hasty,
             c \notin Chatters
      PROVE  /\ d \in view[c] => d \in view'[c]
             /\ ThreadNotes(t, c, d) => d \in view'[c] \/ ToList(c)
  <2>1. c \in Clients /\ d \in Clients /\ r # None
      BY NoneAssumption DEF Inv, TypeOK
  <2>2. ~LeavingOne(d)
      BY DEF InvKnown, LeavingIsHasty
  <2>3. thread[t].room = None => d # e
      BY <1>1, <2>2 DEF LeavingOne
  <2>4. inRoom[c] # None \/ ToList(c)
      BY <1>3, <2>1, ToldRoom DEF ToList
  <2> QED
      BY <1>1, <1>2, <2>1, <2>3, <2>4 DEF ThreadNotes
<1> QED
    BY <1>2, <1>3, NoneAssumption, ThreadStepKnown

LEMMA InitKnown == Init => InvKnown
BY DEF Init, InvKnown, Informed, LeavingIsHasty, WorkerRoom, IdleWorker

LEMMA NextKnown ==
    ASSUME Inv, InvKnown, [Next]_vars
    PROVE  InvKnown'
<1>1. CASE Worker
    BY <1>1, TestGameRoomKnown, EnterGameRoomKnown, EnterSessionKnown, ListUsersKnown,
       TellNewcomerKnown, CopyForNewUserKnown, SendNewUserKnown DEF Worker
<1>2. ASSUME NEW t \in PacketThreads, PacketThread(t)
      PROVE  InvKnown'
    BY <1>2, ThreadAnswersKnown, CopyUsersKnown, SendNoticeKnown DEF PacketThread
<1>3. ASSUME NEW t \in PacketThreads, NEW c \in Clients,
             LeaveRoom(t, c) \/ \E r \in Rooms : OnEnterRoom(t, c, r)
      PROVE  InvKnown'
    BY <1>3, LeaveRoomKnown, OnEnterRoomKnown
<1>4. ASSUME NEW c \in Clients, AskExit(c) \/ \E r \in Rooms : OnGameRoomEnter(c, r)
      PROVE  InvKnown'
    BY <1>4, AskedKnown
<1> QED
    BY <1>1, <1>2, <1>3, <1>4, SendResponsePacketKnown, AskedKnown DEF Next

(* Whoever is to hear of a user of its room has, or will from what is under *)
(* way.                                                                     *)
THEOREM KnownInvariance == Spec => [](Inv /\ InvKnown)
<1>1. Init => Inv /\ InvKnown
    BY InitInv, InitKnown
<1>2. (Inv /\ InvKnown) /\ [Next]_vars => (Inv /\ InvKnown)'
    BY NextInv, NextKnown
<1> QED
    BY <1>1, <1>2, PTL DEF Spec

(* No two users of a room miss each other, whoever comes and goes while the *)
(* lists and notices are under way.                                         *)
THEOREM NoNewcomerMissed == Spec => []NewcomersKnown
<1>1. Inv /\ InvKnown => NewcomersKnown
  <2> SUFFICES ASSUME InvKnown, NEW r \in Rooms, NEW c \in EnterUsers[r] \ hasty,
                      NEW d \in EnterUsers[r] \ hasty, c \notin Chatters,
                      worker.client \notin {c, d},
                      \A t \in PacketThreads : thread[t].client \notin {c, d}
               PROVE  d \in view[c]
      BY DEF NewcomersKnown
  <2>1. Hearing(c, d)
      BY DEF InvKnown, Informed
  <2> QED
      BY <2>1 DEF Hearing, ToList, ToTell, WorkerNotes, ThreadNotes
<1> QED
    BY <1>1, KnownInvariance, PTL

-----------------------------------------------------------------------------
(* A client that does not enter to chat is a user of one room at most.      *)
LEMMA OneRoom ==
    ASSUME Inv, InvKnown, NEW c \in Clients, c \notin Chatters,
           NEW r \in Rooms, c \in EnterUsers[r], NEW q \in Rooms, c \in EnterUsers[q]
    PROVE  r = q
<1>1. CASE worker.client = c /\ worker.at \in {"entered", "answer"}
    BY <1>1 DEF InvKnown, WorkerRoom
<1>2. CASE inRoom[c] = r /\ inRoom[c] = q
    BY <1>2
<1> QED
    BY <1>1, <1>2, ToldRoom

(* Steps that neither move a user nor tell anybody anything.                *)
LEMMA AskedSettles ==
    ASSUME Inv, InvSettle, UNCHANGED <<RoomId, EnterUsers, thread, inRoom, view, hasty, crossed>>,
           \/ worker' = worker
           \/ worker.at = "idle" /\ worker'.at \in {"idle", "tested"}
    PROVE  InvSettle'
<1>1. OutHearsNothing'
    BY DEF InvSettle, OutHearsNothing
<1>2. ASSUME ~crossed PROVE Apart'
  <2>1. Apart
      BY <1>2 DEF InvSettle
  <2>2. LeavingApart'
      BY <2>1 DEF Apart, LeavingApart, LeavingOne
  <2>3. WorkerApart'
      BY <2>1 DEF Apart, WorkerApart
  <2>4. ThreadsApart'
      BY <2>1 DEF Apart, ThreadsApart
  <2>5. NoneStale'
      BY <2>1 DEF Apart, NoneStale, ThreadForgets
  <2> QED
      BY <2>1, <2>2, <2>3, <2>4, <2>5 DEF Apart
<1> QED
    BY <1>1, <1>2 DEF InvSettle

LEMMA SendResponsePacketSettles ==
    ASSUME Inv, InvSettle, SendResponsePacket
    PROVE  InvSettle'
<1>1. PICK e, x : e = Head(ResultQue)[1] /\ x = Head(ResultQue)[2]
    OBVIOUS
<1>2. /\ UNCHANGED <<RoomId, EnterUsers, worker, thread, hasty, crossed>>
      /\ inRoom' = [inRoom EXCEPT ![e] = x]
      /\ view' = IF x = None THEN [view EXCEPT ![e] = {}] ELSE view
      /\ inRoom \in [Clients -> Rooms \cup {None}] /\ view \in [Clients -> SUBSET Clients]
    BY <1>1 DEF SendResponsePacket, roomVars, history, Inv, TypeOK
<1>3. \A c \in Clients : view'[c] = {} \/ (view'[c] = view[c] /\ (x # None \/ c # e))
    BY <1>2
<1>4. OutHearsNothing'
    BY <1>2, <1>3 DEF InvSettle, OutHearsNothing
<1>5. ASSUME ~crossed PROVE Apart'
  <2>1. Apart
      BY <1>5 DEF InvSettle
  <2>2. LeavingApart'
      BY <1>2, <2>1 DEF Apart, LeavingApart, LeavingOne
  <2>3. WorkerApart'
      BY <1>2, <2>1 DEF Apart, WorkerApart
  <2>4. ThreadsApart'
      BY <1>2, <2>1 DEF Apart, ThreadsApart
  <2>5. NoneStale'
    <3>1. \A r \in Rooms : \A c \in EnterUsers[r] \ Chatters : view'[c] \subseteq view[c]
        BY <1>3 DEF Inv, TypeOK
    <3>2. \A t \in PacketThreads : \A r, c, d :
              ThreadForgets(t, r, c, d) => ThreadForgets(t, r, c, d)'
        BY <1>2 DEF ThreadForgets
    <3> QED
        BY <1>2, <2>1, <3>1, <3>2 DEF Apart, NoneStale
  <2> QED
      BY <1>2, <2>1, <2>2, <2>3, <2>4, <2>5 DEF Apart
<1> QED
    BY <1>2, <1>4, <1>5 DEF InvSettle

(* The worker's steps for a client that it has entered.                     *)
LEMMA WorkerStepSettles ==
    ASSUME Inv, InvSettle, UNCHANGED <<EnterUsers, thread, hasty, crossed>>,
           worker.at \notin {"idle", "tested"}, OutHearsNothing',
           \A c \in Clients : c # worker.client => RoomId'[c] = RoomId[c],
           ~crossed /\ Apart => WorkerApart',
           ~crossed /\ Apart =>
               \A r \in Rooms : \A c \in EnterUsers[r] \ Chatters : \A d \in view'[c] :
                   d \in view[c] \/ d \in EnterUsers[r]
    PROVE  InvSettle'
<1>1. ASSUME ~crossed PROVE Apart'
  <2>1. Apart
      BY <1>1 DEF InvSettle
  <2>2. \A c \in Clients : ~LeavingOne(c)
      BY <2>1 DEF Apart, LeavingApart
  <2>3. LeavingApart'
      BY <2>2 DEF LeavingApart, LeavingOne
  <2>4. \A t \in PacketThreads : thread[t].client # worker.client
      BY <2>1 DEF Apart, WorkerApart
  <2>5. ThreadsApart'
    <3>1. \A t \in PacketThreads : thread[t].at # "idle" => thread[t].client \in Clients
        BY DEF Inv, Shapes, ThreadShape
    <3> QED
        BY <2>1, <2>4, <3>1 DEF Apart, ThreadsApart
  <2>6. NoneStale'
    <3> SUFFICES ASSUME NEW r \in Rooms, NEW c \in EnterUsers[r] \ Chatters, NEW d \in view'[c],
                        d \notin EnterUsers[r]
                 PROVE  \E t \in PacketThreads : ThreadForgets(t, r, c, d)'
        BY DEF NoneStale
    <3>1. d \in view[c] /\ d \in Clients
        BY <1>1, <2>1 DEF Inv, TypeOK
    <3>2. PICK t \in PacketThreads : ThreadForgets(t, r, c, d)
        BY <2>1, <3>1 DEF Apart, NoneStale
    <3> QED
        BY <2>4, <3>1, <3>2 DEF ThreadForgets
  <2> QED
      BY <1>1, <2>1, <2>3, <2>5, <2>6 DEF Apart
<1> QED
    BY <1>1 DEF InvSettle

LEMMA EnterSessionSettles ==
    ASSUME Inv, InvSettle, EnterSession \/ AnswerEnter
    PROVE  InvSettle'
<1>1. PICK e \in Clients : e = worker.client
    BY DEF Inv, Shapes, WorkerShape, EnterSession, AnswerEnter
<1>2. /\ UNCHANGED <<EnterUsers, thread, view, hasty, crossed>>
      /\ worker.at \in {"entered", "answer"} /\ worker'.at \in {"answer", "list"}
      /\ worker'.client = worker.client /\ worker'.room = worker.room
      /\ \A c \in Clients : c # e => RoomId'[c] = RoomId[c] /\ inRoom'[c] = inRoom[c]
    BY <1>1 DEF EnterSession, AnswerEnter, roomVars, clientVars, history, Inv, TypeOK
<1>3. /\ worker.at = "entered" => RoomId'[e] = worker.room
      /\ worker.at = "answer" => RoomId'[e] = RoomId[e]
      /\ inRoom'[e] = inRoom[e] \/ inRoom'[e] = worker.room
    BY <1>1 DEF EnterSession, AnswerEnter, roomVars, clientVars, Inv, TypeOK
<1>4. worker.room # None
    BY <1>2, NoneAssumption DEF Inv, Shapes, WorkerShape
<1>5. OutHearsNothing'
    BY <1>2, <1>3, <1>4 DEF InvSettle, OutHearsNothing
<1>6. Apart => WorkerApart'
    BY <1>1, <1>2, <1>3 DEF Apart, WorkerApart
<1> QED
    BY <1>1, <1>2, <1>5, <1>6, WorkerStepSettles

LEMMA ListUsersSettles ==
    ASSUME Inv, InvSettle, ListUsers \/ CopyForNewUser
    PROVE  InvSettle'
<1>1. /\ UNCHANGED <<RoomId, EnterUsers, thread, inRoom, view, hasty, crossed>>
      /\ worker.at \in {"list", "copy"} /\ worker'.at \in {"tell", "send"}
      /\ worker'.client = worker.client /\ worker'.room = worker.room
      /\ worker'.to \in {EnterUsers[worker.room], EnterUsers[RoomId[worker.client]]}
    BY DEF ListUsers, CopyForNewUser, roomVars, clientVars, history, Inv, TypeOK
<1>2. OutHearsNothing'
    BY <1>1 DEF InvSettle, OutHearsNothing
<1>3. Apart => WorkerApart'
    BY <1>1 DEF Apart, WorkerApart
<1> QED
    BY <1>1, <1>2, <1>3, WorkerStepSettles

LEMMA TellNewcomerSettles ==
    ASSUME Inv, InvKnown, InvSettle, TellNewcomer
    PROVE  InvSettle'
<1>1. /\ UNCHANGED <<RoomId, EnterUsers, thread, inRoom, hasty, crossed>>
      /\ worker.at = "tell" /\ worker'.at = "copy"
      /\ worker'.client = worker.client /\ worker'.room = worker.room
      /\ \A c \in Clients : view'[c] =
            IF c = worker.client /\ inRoom[c] # None THEN view[c] \cup worker.to ELSE view[c]
    BY DEF TellNewcomer, Hears, roomVars, history, Inv, TypeOK
<1>2. OutHearsNothing'
    BY <1>1 DEF InvSettle, OutHearsNothing
<1>3. Apart => WorkerApart'
    BY <1>1 DEF Apart, WorkerApart
<1>4. ASSUME Apart, NEW r \in Rooms, NEW c \in EnterUsers[r] \ Chatters, NEW d \in view'[c],
             d \notin view[c]
      PROVE  d \in EnterUsers[r]
  <2>1. c \in Clients
      BY DEF Inv, TypeOK
  <2>2. c = worker.client /\ d \in worker.to
      BY <1>1, <1>4, <2>1
  <2>3. r = worker.room
      BY <1>1, <2>2 DEF InvKnown, WorkerRoom
  <2> QED
      BY <1>1, <1>4, <2>2, <2>3 DEF Apart, WorkerApart
<1> QED
    BY <1>1, <1>2, <1>3, <1>4, WorkerStepSettles

LEMMA SendNewUserSettles ==
    ASSUME Inv, InvKnown, InvSettle, SendNewUser
    PROVE  InvSettle'
<1>1. /\ UNCHANGED <<RoomId, EnterUsers, thread, inRoom, hasty, crossed>>
      /\ worker.at = "send" /\ worker'.at = "idle"
      /\ \A c \in Clients : view'[c] =
            IF c \in worker.to /\ inRoom[c] # None THEN view[c] \cup {worker.client} ELSE view[c]
    BY DEF SendNewUser, Hears, IdleWorker, roomVars, history
<1>2. OutHearsNothing'
    BY <1>1 DEF InvSettle, OutHearsNothing
<1>3. WorkerApart'
    BY <1>1 DEF WorkerApart
<1>4. ASSUME Apart, NEW r \in Rooms, NEW c \in EnterUsers[r] \ Chatters, NEW d \in view'[c],
             d \notin view[c]
      PROVE  d \in EnterUsers[r]
  <2>1. c \in Clients
      BY DEF Inv, TypeOK
  <2>2. c \in worker.to /\ d = worker.client
      BY <1>1, <1>4, <2>1
  <2>3. /\ worker.room \in Rooms /\ d \in EnterUsers[worker.room] /\ c \in EnterUsers[worker.room]
      BY <1>1, <1>4, <2>2 DEF Apart, WorkerApart, Inv, Shapes, WorkerShape
  <2> QED
      BY <2>1, <2>3, OneRoom
<1> QED
    BY <1>1, <1>2, <1>3, <1>4, WorkerStepSettles

(* As long as nothing crossed, a packet thread is not busy with a client    *)
(* that is in no room and has not asked it for anything.                    *)
LEMMA NoThreadFor ==
    ASSUME Inv, Apart, NEW c \in Clients, OnlyIn(c, None), ~LeavingOne(c),
           \A t \in PacketThreads : ~AtThread(t, c)
    PROVE  \A t \in PacketThreads : thread[t].client # c
<1> SUFFICES ASSUME NEW t \in PacketThreads, thread[t].client = c PROVE FALSE
    OBVIOUS
<1>1. thread[t].room # None /\ thread[t].at \notin ThreadAnswers
    BY DEF LeavingOne, AtThread
<1>2. thread[t].at \in {"copy", "send"} /\ thread[t].room \in Rooms
    BY <1>1, NoneAssumption DEF Inv, TypeOK, Shapes, ThreadShape, ThreadAnswers
<1>3. c \in EnterUsers[thread[t].room]
    BY <1>1, <1>2 DEF Apart, ThreadsApart
<1> QED
    BY <1>1, <1>2, <1>3 DEF OnlyIn

LEMMA EnterGameRoomSettles ==
    ASSUME Inv, InvSettle, EnterGameRoom
    PROVE  InvSettle'
<1>1. PICK r \in Rooms, e \in Clients : r = worker.room /\ e = worker.client
    BY DEF Inv, Shapes, WorkerShape, EnterGameRoom
<1>2. /\ UNCHANGED <<RoomId, inRoom, view, thread>> /\ NoteInsert(e)
      /\ worker.at = "tested" /\ worker'.at = "entered"
      /\ worker'.client = e /\ worker'.room = r
    BY <1>1 DEF EnterGameRoom, clientVars, Inv, TypeOK
<1>3. /\ EnterUsers'[r] = EnterUsers[r] \cup {e}
      /\ \A q \in Rooms : q # r => EnterUsers'[q] = EnterUsers[q]
    BY <1>1 DEF EnterGameRoom, Inv, TypeOK
<1>4. OutHearsNothing'
    BY <1>2 DEF InvSettle, OutHearsNothing
<1>5. asks[e] = "enter" /\ OnlyIn(e, None) /\ inRoom[e] = None
  <2>1. AtWork(e)
      BY <1>1, <1>2 DEF AtWork, WorkerAnswers
  <2> QED
      BY <1>2, <2>1 DEF Inv, Waits, WaitsWorker, Whereabouts
<1>6. \A t \in PacketThreads : ~AtThread(t, e)
    BY <1>5 DEF Inv, Waits, WaitsThread
<1>7. ASSUME ~crossed' PROVE ~crossed /\ Apart'
  <2>1. ~crossed /\ Apart /\ (\A c \in Clients : ~LeavingOne(c))
      BY <1>2, <1>7 DEF InvSettle, NoteInsert, Leaving
  <2>2. \A t \in PacketThreads : thread[t].client # e
      BY <1>5, <1>6, <2>1, NoThreadFor
  <2>3. hasty' = {}
      BY <1>2, <2>1 DEF Apart, NoteInsert
  <2>4. LeavingApart'
      BY <1>2, <2>1 DEF LeavingApart, LeavingOne
  <2>5. WorkerApart'
      BY <1>2, <1>3, <2>2 DEF WorkerApart
  <2>6. ThreadsApart'
    <3>1. \A q \in Rooms : EnterUsers[q] \subseteq EnterUsers'[q]
        BY <1>3
    <3>2. \A t \in PacketThreads : thread[t].room \in Rooms \cup {None}
        BY DEF Inv, TypeOK
    <3> QED
        BY <1>2, <2>1, <3>1, <3>2 DEF Apart, ThreadsApart
  <2>7. NoneStale'
    <3> SUFFICES ASSUME NEW q \in Rooms, NEW c \in EnterUsers'[q] \ Chatters, NEW d \in view[c],
                        d \notin EnterUsers'[q]
                 PROVE  \E t \in PacketThreads : ThreadForgets(t, q, c, d)'
        BY <1>2 DEF NoneStale
    <3>1. c # e
        BY <1>5 DEF InvSettle, OutHearsNothing
    <3>2. c \in EnterUsers[q] /\ d \notin EnterUsers[q]
        BY <1>3, <3>1
    <3> QED
        BY <1>2, <2>1, <3>2 DEF Apart, NoneStale, ThreadForgets
  <2> QED
      BY <2>1, <2>3, <2>4, <2>5, <2>6, <2>7 DEF Apart
<1> QED
    BY <1>4, <1>7 DEF InvSettle

LEMMA OnEnterRoomSettles ==
    ASSUME Inv, InvSettle, NEW t \in PacketThreads, NEW e \in Clients, NEW r \in Rooms,
           OnEnterRoom(t, e, r)
    PROVE  InvSettle'
<1>1. /\ e \in Chatters /\ asks[e] \in {"none", "refused"} /\ inRoom[e] = None
      /\ thread[t].at = "idle"
      /\ thread'[t].client = e /\ thread'[t].room = r
      /\ \A u \in PacketThreads : u # t => thread'[u] = thread[u]
      /\ UNCHANGED <<RoomId, worker, inRoom, view>>
    BY DEF OnEnterRoom, Inv, TypeOK
<1>2. /\ r # None /\ thread[t].client \notin Clients /\ thread[t].room = None
      /\ EnterUsers \in [Rooms -> SUBSET Clients]
    BY <1>1, NoneAssumption DEF Inv, TypeOK, Shapes, ThreadShape
<1>3. OnlyIn(e, None) /\ ~AtWork(e) /\ \A u \in PacketThreads : ~AtThread(u, e)
    BY <1>1, NothingUnderWay DEF Inv, Waits, Whereabouts
<1>4. OutHearsNothing'
    BY <1>1 DEF InvSettle, OutHearsNothing
<1>5. \A c \in Clients : LeavingOne(c)' <=> LeavingOne(c)
    BY <1>1, <1>2 DEF LeavingOne
<1>6. \/ /\ EnterUsers' = EnterUsers /\ hasty' = hasty /\ thread'[t].at = "turned"
         /\ crossed' = (crossed \/ LeavingOne(e))
      \/ /\ EnterUsers'[r] = EnterUsers[r] \cup {e}
         /\ \A q \in Rooms : q # r => EnterUsers'[q] = EnterUsers[q]
         /\ thread'[t].at = "entered" /\ NoteInsert(e)
    BY DEF OnEnterRoom, Inv, TypeOK
<1>7. \A q \in Rooms : /\ EnterUsers[q] \subseteq EnterUsers'[q]
                       /\ EnterUsers'[q] \subseteq EnterUsers[q] \cup {e}
    BY <1>6
<1>8. ASSUME ~crossed' PROVE ~crossed /\ Apart'
  <2>1. ~crossed /\ ~LeavingOne(e)
      BY <1>6, <1>8 DEF NoteInsert, Leaving
  <2>2. Apart
      BY <2>1 DEF InvSettle
  <2>3. \A u \in PacketThreads : thread[u].client # e
      BY <1>3, <2>1, <2>2, NoThreadFor
  <2>4. hasty' = {}
      BY <1>6, <2>1, <2>2 DEF Apart, NoteInsert
  <2>5. LeavingApart'
    <3> SUFFICES ASSUME NEW c \in Clients, LeavingOne(c)
                 PROVE  /\ worker.at \in {"idle", "tested"}
                        /\ \A u \in PacketThreads :
                              /\ thread'[u].room = None \/ thread'[u].at \in {"turned", "deny"}
                              /\ thread'[u].client = c => thread'[u].room = None
        BY <1>1, <1>5 DEF LeavingApart
    <3>1. thread'[t].at = "turned"
        BY <1>6, <1>8 DEF NoteInsert, Leaving
    <3>2. c # e
        BY <2>1
    <3> QED
        BY <1>1, <2>2, <3>1, <3>2 DEF Apart, LeavingApart
  <2>6. WorkerApart'
    <3> SUFFICES ASSUME worker.at \notin {"idle", "tested"}
                 PROVE  /\ worker.client \in EnterUsers'[worker.room]
                        /\ worker.at # "entered" => RoomId[worker.client] = worker.room
                        /\ worker.at \in {"tell", "send"}
                              => worker.to \subseteq EnterUsers'[worker.room]
                        /\ \A u \in PacketThreads : thread'[u].client # worker.client
        BY <1>1 DEF WorkerApart
    <3>1. /\ worker.room \in Rooms /\ worker.client \in EnterUsers[worker.room]
          /\ worker.at # "entered" => RoomId[worker.client] = worker.room
          /\ worker.at \in {"tell", "send"} => worker.to \subseteq EnterUsers[worker.room]
          /\ \A u \in PacketThreads : thread[u].client # worker.client
        BY <2>2 DEF Apart, WorkerApart, Inv, Shapes, WorkerShape
    <3>2. worker.client # e
        BY <1>3, <3>1, NoneAssumption DEF OnlyIn
    <3>3. EnterUsers[worker.room] \subseteq EnterUsers'[worker.room]
        BY <1>7, <3>1
    <3> QED
        BY <1>1, <3>1, <3>2, <3>3
  <2>7. ThreadsApart'
    <3> SUFFICES ASSUME NEW u \in PacketThreads, thread'[u].room # None,
                        thread'[u].at \in {"entered", "answer", "copy", "send"}
                 PROVE  /\ thread'[u].client \in EnterUsers'[thread'[u].room]
                        /\ thread'[u].at # "entered" => RoomId[thread'[u].client] = thread'[u].room
                        /\ thread'[u].at = "send"
                              => thread'[u].to \subseteq EnterUsers'[thread'[u].room]
                        /\ \A v \in PacketThreads : thread'[v].client = thread'[u].client => v = u
        BY <1>1 DEF ThreadsApart
    <3>1. CASE u = t
        BY <1>1, <1>6, <2>3, <3>1
    <3>2. CASE u # t
      <4>1. thread'[u] = thread[u] /\ thread[u].room \in Rooms
          BY <1>1, <3>2 DEF Inv, TypeOK
      <4>2. EnterUsers[thread[u].room] \subseteq EnterUsers'[thread[u].room]
          BY <1>7, <4>1
      <4>3. thread[u].client # e
          BY <2>3
      <4> QED
          BY <1>1, <2>2, <3>2, <4>1, <4>2, <4>3 DEF Apart, ThreadsApart
    <3> QED
        BY <3>1, <3>2
  <2>8. NoneStale'
    <3> SUFFICES ASSUME NEW q \in Rooms, NEW c \in EnterUsers'[q] \ Chatters, NEW d \in view[c],
                        d \notin EnterUsers'[q]
                 PROVE  \E u \in PacketThreads : ThreadForgets(u, q, c, d)'
        BY <1>1 DEF NoneStale
    <3>1. c \in EnterUsers[q] /\ d \notin EnterUsers[q] /\ c \in Clients
        BY <1>1, <1>2, <1>7
    <3>2. d \in Clients
        BY <3>1 DEF Inv, TypeOK
    <3>3. PICK u \in PacketThreads : ThreadForgets(u, q, c, d)
        BY <2>2, <3>1 DEF Apart, NoneStale
    <3>4. u # t
        BY <1>2, <3>2, <3>3 DEF ThreadForgets
    <3> QED
        BY <1>1, <3>3, <3>4 DEF ThreadForgets
  <2> QED
      BY <2>1, <2>4, <2>5, <2>6, <2>7, <2>8 DEF Apart
<1> QED
    BY <1>4, <1>8 DEF InvSettle

LEMMA EnterSessionToChatSettles ==
    ASSUME Inv, InvSettle, NEW t \in PacketThreads, EnterSessionToChat(t)
    PROVE  InvSettle'
<1>1. PICK e \in Clients, r \in Rooms : e = thread[t].client /\ r = thread[t].room
    BY DEF EnterSessionToChat, Inv, Shapes, ThreadShape
<1>2. /\ UNCHANGED <<EnterUsers, worker, inRoom, view, hasty, crossed>>
      /\ thread[t].at \in {"turned", "entered"}
      /\ thread'[t].at = (IF thread[t].at = "turned" THEN "deny" ELSE "answer")
      /\ thread'[t].client = e /\ thread'[t].room = r
      /\ \A u \in PacketThreads : u # t => thread'[u] = thread[u]
      /\ RoomId'[e] = r /\ \A c \in Clients : c # e => RoomId'[c] = RoomId[c]
    BY <1>1 DEF EnterSessionToChat, clientVars, history, Inv, TypeOK
<1>3. r # None
    BY NoneAssumption
<1>4. OutHearsNothing'
    BY <1>2 DEF InvSettle, OutHearsNothing
<1>5. \A c \in Clients : LeavingOne(c)' => LeavingOne(c)
    BY <1>2, <1>3 DEF LeavingOne
<1>6. ASSUME ~crossed PROVE Apart'
  <2>1. Apart
      BY <1>6 DEF InvSettle
  <2>2. ~LeavingOne(e)
      BY <1>1, <1>3, <2>1 DEF Apart, LeavingApart
  <2>3. LeavingApart'
    <3> SUFFICES ASSUME NEW c \in Clients, LeavingOne(c)
                 PROVE  /\ worker.at \in {"idle", "tested"}
                        /\ \A u \in PacketThreads :
                              /\ thread'[u].room = None \/ thread'[u].at \in {"turned", "deny"}
                              /\ thread'[u].client = c => thread'[u].room = None
        BY <1>2, <1>5 DEF LeavingApart
    <3>1. thread[t].at = "turned" /\ c # e
        BY <1>1, <1>2, <1>3, <2>1, <2>2 DEF Apart, LeavingApart
    <3> QED
        BY <1>2, <2>1, <3>1 DEF Apart, LeavingApart
  <2>4. WorkerApart'
    <3>1. worker.at \notin {"idle", "tested"} => worker.client \in Clients /\ worker.client # e
        BY <1>1, <2>1 DEF Apart, WorkerApart, Inv, Shapes, WorkerShape
    <3>2. \A u \in PacketThreads : thread'[u].client = thread[u].client
        BY <1>1, <1>2
    <3> QED
        BY <1>2, <2>1, <3>1, <3>2 DEF Apart, WorkerApart
  <2>5. ThreadsApart'
    <3> SUFFICES ASSUME NEW u \in PacketThreads, thread'[u].room # None,
                        thread'[u].at \in {"entered", "answer", "copy", "send"}
                 PROVE  /\ thread'[u].client \in EnterUsers[thread'[u].room]
                        /\ thread'[u].at # "entered" => RoomId'[thread'[u].client] = thread'[u].room
                        /\ thread'[u].at = "send"
                              => thread'[u].to \subseteq EnterUsers[thread'[u].room]
                        /\ \A v \in PacketThreads : thread'[v].client = thread'[u].client => v = u
        BY <1>2 DEF ThreadsApart
    <3>1. \A v \in PacketThreads : thread'[v].client = thread[v].client
        BY <1>1, <1>2
    <3>2. CASE u = t
      <4>1. thread[t].at = "entered"
          BY <1>2, <3>2
      <4> QED
          BY <1>1, <1>2, <1>3, <2>1, <3>1, <3>2, <4>1 DEF Apart, ThreadsApart
    <3>3. CASE u # t
      <4>1. /\ thread'[u] = thread[u]
            /\ thread[u].client \in EnterUsers[thread[u].room]
            /\ thread[u].at # "entered" => RoomId[thread[u].client] = thread[u].room
            /\ thread[u].at = "send" => thread[u].to \subseteq EnterUsers[thread[u].room]
            /\ \A v \in PacketThreads : thread[v].client = thread[u].client => v = u
          BY <1>2, <2>1, <3>3 DEF Apart, ThreadsApart
      <4>2. thread[u].client # e
          BY <1>1, <3>3, <4>1
      <4>3. thread[u].client \in Clients
          BY <4>1 DEF Inv, Shapes, ThreadShape
      <4> QED
          BY <1>2, <3>1, <4>1, <4>2, <4>3
    <3> QED
        BY <3>2, <3>3
  <2>6. NoneStale'
    <3> SUFFICES ASSUME NEW q \in Rooms, NEW c \in EnterUsers[q] \ Chatters, NEW d \in view[c],
                        d \notin EnterUsers[q]
                 PROVE  \E u \in PacketThreads : ThreadForgets(u, q, c, d)'
        BY <1>2 DEF NoneStale
    <3>1. PICK u \in PacketThreads : ThreadForgets(u, q, c, d)
        BY <2>1 DEF Apart, NoneStale
    <3>2. d \in Clients
      <4>1. c \in Clients
          BY DEF Inv, TypeOK
      <4> QED
          BY <4>1 DEF Inv, TypeOK
    <3>3. d # e /\ u # t
        BY <1>1, <1>3, <2>2, <3>1 DEF ThreadForgets, LeavingOne
    <3> QED
        BY <1>2, <3>1, <3>2, <3>3 DEF ThreadForgets
  <2> QED
      BY <1>2, <2>1, <2>3, <2>4, <2>5, <2>6 DEF Apart
<1> QED
    BY <1>2, <1>4, <1>6 DEF InvSettle

LEMMA LeaveRoomSettles ==
    ASSUME Inv, InvSettle, NEW t \in PacketThreads, NEW e \in Clients, LeaveRoom(t, e)
    PROVE  InvSettle'
<1>1. thread[t].at = "idle" /\ asks[e] = "exit" /\ UNCHANGED <<RoomId, worker, inRoom, view>>
    BY DEF LeaveRoom
<1>2. CASE UNCHANGED <<EnterUsers, thread, hasty, crossed>>
    BY <1>1, <1>2, AskedSettles
<1>3. CASE IsUser(e)
  <2>1. PICK r \in Rooms : r = RoomId[e] /\ e \in EnterUsers[r]
      BY <1>3 DEF IsUser
  <2>2. /\ EnterUsers' = [EnterUsers EXCEPT ![r] = @ \ {e}]
        /\ thread'[t].at = "left" /\ thread'[t].client = e /\ thread'[t].room = None
        /\ \A u \in PacketThreads : u # t => thread'[u] = thread[u]
        /\ crossed' = (crossed \/ Entering) /\ hasty' = hasty
    <3>1. DOMAIN thread = PacketThreads
        BY DEF Inv, TypeOK
    <3>2. /\ EnterUsers' = [EnterUsers EXCEPT ![r] = @ \ {e}]
          /\ thread' = [thread EXCEPT ![t] = [IdleThread EXCEPT !.at = "left",
                                                                !.client = e]]
          /\ crossed' = (crossed \/ Entering) /\ hasty' = hasty
        BY <1>3, <2>1 DEF LeaveRoom
    <3> QED
        BY <3>1, <3>2 DEF IdleThread
  <2>3. EnterUsers \in [Rooms -> SUBSET Clients] /\ thread[t].client \notin Clients
      BY <1>1, NoneAssumption DEF Inv, TypeOK, Shapes, ThreadShape
  <2>4. OnlyIn(e, r)
      BY <1>1, <2>1 DEF Inv, Waits, Whereabouts, OnlyIn
  <2>5. /\ EnterUsers'[r] = EnterUsers[r] \ {e}
        /\ \A q \in Rooms : q # r => EnterUsers'[q] = EnterUsers[q]
      BY <2>2, <2>3
  <2>6. OutHearsNothing'
      BY <1>1 DEF InvSettle, OutHearsNothing
  <2>7. ASSUME ~crossed' PROVE ~crossed /\ Apart'
    <3>1. ~crossed /\ ~Entering
        BY <2>2, <2>7
    <3>2. Apart
        BY <3>1 DEF InvSettle
    <3>3. worker.at \in {"idle", "tested"} /\ \A u \in PacketThreads : thread'[u].room = None
        BY <2>2, <3>1 DEF Entering
    <3>4. LeavingApart' /\ WorkerApart' /\ ThreadsApart'
        BY <1>1, <3>3 DEF LeavingApart, WorkerApart, ThreadsApart
    <3>5. NoneStale'
      <4> SUFFICES ASSUME NEW q \in Rooms, NEW c \in EnterUsers'[q] \ Chatters, NEW d \in view[c],
                          d \notin EnterUsers'[q]
                   PROVE  \E u \in PacketThreads : ThreadForgets(u, q, c, d)'
          BY <1>1 DEF NoneStale
      <4>1. c \in EnterUsers[q] /\ c \in Clients
          BY <2>3, <2>5
      <4>2. d \in Clients
          BY <4>1 DEF Inv, TypeOK
      <4>3. CASE d \in EnterUsers[q]
        <5>1. d = e /\ q = r
            BY <2>5, <4>3
        <5> QED
            BY <1>1, <2>1, <2>2, <5>1 DEF ThreadForgets
      <4>4. CASE d \notin EnterUsers[q]
        <5>1. PICK u \in PacketThreads : ThreadForgets(u, q, c, d)
            BY <3>2, <4>1, <4>4 DEF Apart, NoneStale
        <5>2. u # t
            BY <2>3, <4>2, <5>1 DEF ThreadForgets
        <5> QED
            BY <1>1, <2>2, <5>1, <5>2 DEF ThreadForgets
      <4> QED
          BY <4>3, <4>4
    <3> QED
        BY <2>2, <3>1, <3>2, <3>4, <3>5 DEF Apart
  <2> QED
      BY <2>6, <2>7 DEF InvSettle
<1> QED
    BY <1>2, <1>3 DEF LeaveRoom, history

(* The steps of a packet thread after it has told the session.              *)
LEMMA ThreadStepSettles ==
    ASSUME Inv, InvSettle, NEW t \in PacketThreads,
           UNCHANGED <<RoomId, EnterUsers, worker, inRoom, hasty, crossed>>,
           \A u \in PacketThreads : u # t => thread'[u] = thread[u],
           \/ thread'[t].client = None /\ thread'[t].room = None
           \/ thread'[t].client = thread[t].client /\ thread'[t].room = thread[t].room,
           OutHearsNothing',
           thread'[t].room # None =>
               /\ thread[t].at \in {"answer", "copy"} /\ thread'[t].at \in {"copy", "send"}
               /\ thread'[t].at = "send" => thread'[t].to = EnterUsers[RoomId[thread[t].client]],
           Apart => \A r \in Rooms : \A c \in EnterUsers[r] \ Chatters : \A d \in view'[c] :
               /\ d \in view[c] \/ d \in EnterUsers[r]
               /\ ThreadForgets(t, r, c, d) => ThreadForgets(t, r, c, d)'
    PROVE  InvSettle'
<1>1. ASSUME ~crossed PROVE Apart'
  <2>1. Apart
      BY <1>1 DEF InvSettle
  <2>2. \A c \in Clients : LeavingOne(c)' => LeavingOne(c)
      BY NoneAssumption DEF LeavingOne
  <2>3. LeavingApart'
    <3> SUFFICES ASSUME NEW c \in Clients, LeavingOne(c)
                 PROVE  /\ worker.at \in {"idle", "tested"}
                        /\ \A u \in PacketThreads :
                              /\ thread'[u].room = None \/ thread'[u].at \in {"turned", "deny"}
                              /\ thread'[u].client = c => thread'[u].room = None
        BY <2>2 DEF LeavingApart
    <3>1. /\ worker.at \in {"idle", "tested"}
          /\ \A u \in PacketThreads :
                /\ thread[u].room = None \/ thread[u].at \in {"turned", "deny"}
                /\ thread[u].client = c => thread[u].room = None
        BY <2>1 DEF Apart, LeavingApart
    <3>2. thread'[t].room = None
        BY <3>1
    <3>3. thread'[t].client = c => thread'[t].room = None
        BY <3>1, NoneAssumption
    <3> QED
        BY <3>1, <3>2, <3>3
  <2>4. WorkerApart'
    <3>1. worker.at # "idle" => worker.client \in Clients
        BY DEF Inv, Shapes, WorkerShape
    <3> QED
        BY <2>1, <3>1, NoneAssumption DEF Apart, WorkerApart
  <2>5. ThreadsApart'
    <3> SUFFICES ASSUME NEW u \in PacketThreads, thread'[u].room # None,
                        thread'[u].at \in {"entered", "answer", "copy", "send"}
                 PROVE  /\ thread'[u].client \in EnterUsers[thread'[u].room]
                        /\ thread'[u].at # "entered" => RoomId[thread'[u].client] = thread'[u].room
                        /\ thread'[u].at = "send"
                              => thread'[u].to \subseteq EnterUsers[thread'[u].room]
                        /\ \A v \in PacketThreads : thread'[v].client = thread'[u].client => v = u
        BY DEF ThreadsApart
    <3>1. thread'[u].client = thread[u].client /\ thread'[u].room = thread[u].room
        OBVIOUS
    <3>2. thread[u].at \in {"entered", "answer", "copy", "send"}
        BY <2>1
    <3>3. /\ thread[u].client \in EnterUsers[thread[u].room]
          /\ thread[u].at # "entered" => RoomId[thread[u].client] = thread[u].room
          /\ thread[u].at = "send" => thread[u].to \subseteq EnterUsers[thread[u].room]
          /\ \A v \in PacketThreads : thread[v].client = thread[u].client => v = u
        BY <2>1, <3>1, <3>2 DEF Apart, ThreadsApart
    <3>4. thread[u].client \in Clients
        BY <3>2 DEF Inv, Shapes, ThreadShape
    <3>5. \A v \in PacketThreads : thread'[v].client = thread'[u].client => v = u
        BY <3>1, <3>3, <3>4, NoneAssumption
    <3>6. CASE u = t
        BY <2>1, <3>1, <3>3, <3>5, <3>6
    <3> QED
        BY <3>1, <3>3, <3>5, <3>6
  <2>6. NoneStale'
    <3> SUFFICES ASSUME NEW r \in Rooms, NEW c \in EnterUsers[r] \ Chatters, NEW d \in view'[c],
                        d \notin EnterUsers[r]
                 PROVE  \E u \in PacketThreads : ThreadForgets(u, r, c, d)'
        BY DEF NoneStale
    <3>1. d \in view[c]
        BY <2>1
    <3>2. PICK u \in PacketThreads : ThreadForgets(u, r, c, d)
        BY <2>1, <3>1 DEF Apart, NoneStale
    <3>3. CASE u # t
        BY <3>2, <3>3 DEF ThreadForgets
    <3> QED
        BY <2>1, <3>2, <3>3
  <2> QED
      BY <2>1, <2>3, <2>4, <2>5, <2>6 DEF Apart
<1> QED
    BY <1>1 DEF InvSettle

LEMMA PushResultSettles ==
    ASSUME Inv, InvSettle, NEW t \in PacketThreads, PushEnterResult(t) \/ PushExitResult(t)
    PROVE  InvSettle'
<1>1. /\ UNCHANGED <<RoomId, EnterUsers, worker, inRoom, hasty, crossed, view>>
      /\ \A u \in PacketThreads : u # t => thread'[u] = thread[u]
    BY DEF PushEnterResult, PushExitResult, roomVars, clientVars, history, Inv, TypeOK
<1>2. \/ thread[t].at = "deny" /\ thread'[t] = IdleThread
      \/ /\ thread[t].at \in {"answer", "left"} /\ thread'[t].at = "copy"
         /\ thread'[t].client = thread[t].client /\ thread'[t].room = thread[t].room
    BY DEF PushEnterResult, PushExitResult, Inv, TypeOK
<1>3. /\ thread[t].at = "left" => thread[t].room = None
      /\ thread[t].at = "deny" => thread[t].room # None
    BY NoneAssumption DEF Inv, Shapes, ThreadShape
<1>4. OutHearsNothing'
    BY <1>1 DEF InvSettle, OutHearsNothing
<1>5. \A r, c, d : ThreadForgets(t, r, c, d) => ThreadForgets(t, r, c, d)'
    BY <1>1, <1>2, <1>3 DEF ThreadForgets
<1>6. thread'[t].room # None =>
          thread[t].at = "answer" /\ thread'[t].at = "copy"
    BY <1>2, <1>3 DEF IdleThread
<1>7. \/ thread'[t].client = None /\ thread'[t].room = None
      \/ thread'[t].client = thread[t].client /\ thread'[t].room = thread[t].room
    BY <1>2 DEF IdleThread
<1> QED
    BY <1>1, <1>4, <1>5, <1>6, <1>7, ThreadStepSettles

LEMMA CopyUsersSettles ==
    ASSUME Inv, InvSettle, NEW t \in PacketThreads, CopyUsers(t)
    PROVE  InvSettle'
<1>1. /\ UNCHANGED <<RoomId, EnterUsers, worker, inRoom, hasty, crossed, view>>
      /\ \A u \in PacketThreads : u # t => thread'[u] = thread[u]
      /\ thread'[t].client = thread[t].client /\ thread'[t].room = thread[t].room
      /\ thread[t].at = "copy" /\ thread'[t].at = "send"
      /\ thread'[t].to = EnterUsers[RoomId[thread[t].client]]
    BY DEF CopyUsers, roomVars, clientVars, history, Inv, TypeOK
<1>2. OutHearsNothing'
    BY <1>1 DEF InvSettle, OutHearsNothing
<1>3. \A r \in Rooms : \A c \in EnterUsers[r] : \A d :
          ThreadForgets(t, r, c, d) => ThreadForgets(t, r, c, d)'
    BY <1>1 DEF ThreadForgets
<1> QED
    BY <1>1, <1>2, <1>3, ThreadStepSettles

LEMMA SendNoticeSettles ==
    ASSUME Inv, InvKnown, InvSettle, NEW t \in PacketThreads, SendNotice(t)
    PROVE  InvSettle'
<1>1. PICK e \in Clients : e = thread[t].client
    BY DEF Inv, Shapes, ThreadShape, SendNotice
<1>2. /\ UNCHANGED <<RoomId, EnterUsers, worker, inRoom, hasty, crossed>>
      /\ \A u \in PacketThreads : u # t => thread'[u] = thread[u]
      /\ thread'[t].client = None /\ thread'[t].room = None /\ thread'[t].at = "idle"
      /\ thread[t].at = "send"
      /\ \A c \in Clients : view'[c] =
            IF c \in thread[t].to /\ inRoom[c] # None
            THEN IF thread[t].room = None THEN view[c] \ {e} ELSE view[c] \cup {e}
            ELSE view[c]
    BY <1>1 DEF SendNotice, Hears, IdleThread, roomVars, history, Inv, TypeOK
<1>3. OutHearsNothing'
    BY <1>2 DEF InvSettle, OutHearsNothing
<1>4. ASSUME Apart, NEW r \in Rooms, NEW c \in EnterUsers[r] \ Chatters, NEW d \in view'[c]
      PROVE  /\ d \in view[c] \/ d \in EnterUsers[r]
             /\ ~ThreadForgets(t, r, c, d)
  <2>1. c \in Clients
      BY DEF Inv, TypeOK
  <2>2. ASSUME d \notin view[c] PROVE d \in EnterUsers[r]
    <3>1. d = e /\ c \in thread[t].to /\ thread[t].room # None
        BY <1>2, <2>1, <2>2
    <3>2. /\ thread[t].room \in Rooms
          /\ e \in EnterUsers[thread[t].room] /\ c \in EnterUsers[thread[t].room]
        BY <1>1, <1>2, <1>4, <3>1 DEF Apart, ThreadsApart, Inv, TypeOK
    <3> QED
        BY <2>1, <3>1, <3>2, OneRoom
  <2>3. ASSUME ThreadForgets(t, r, c, d) PROVE FALSE
    <3>1. d = e /\ thread[t].room = None /\ c \in thread[t].to
        BY <1>1, <1>2, <2>3 DEF ThreadForgets
    <3>2. inRoom[c] = None => view[c] = {}
        BY <2>1 DEF InvSettle, OutHearsNothing
    <3> QED
        BY <1>2, <2>1, <3>1, <3>2
  <2> QED
      BY <2>2, <2>3
<1> QED
    BY <1>2, <1>3, <1>4, ThreadStepSettles

LEMMA InitSettles == Init => InvSettle
<1> SUFFICES ASSUME Init PROVE OutHearsNothing /\ Apart
    BY DEF InvSettle
<1>1. OutHearsNothing
    BY DEF Init, OutHearsNothing
<1>2. /\ hasty = {} /\ worker.at = "idle" /\ (\A r \in Rooms : EnterUsers[r] = {})
      /\ \A t \in PacketThreads : thread[t].client = None /\ thread[t].room = None
    BY DEF Init, IdleWorker, IdleThread
<1>3. LeavingApart /\ WorkerApart /\ ThreadsApart /\ NoneStale
    BY <1>2, NoneAssumption DEF LeavingApart, LeavingOne, WorkerApart, ThreadsApart, NoneStale
<1> QED
    BY <1>1, <1>2, <1>3 DEF Apart

LEMMA NextSettles ==
    ASSUME Inv, InvKnown, InvSettle, [Next]_vars
    PROVE  InvSettle'
<1>1. CASE UNCHANGED vars
    BY <1>1, AskedSettles DEF vars, roomVars, clientVars, history
<1>2. ASSUME NEW c \in Clients, AskExit(c) \/ \E r \in Rooms : OnGameRoomEnter(c, r)
      PROVE  InvSettle'
    BY <1>2, AskedSettles DEF AskExit, OnGameRoomEnter, roomVars, history
<1>3. ASSUME NEW r \in Rooms, TestGameRoom(r)
      PROVE  InvSettle'
  <2>1. /\ UNCHANGED <<RoomId, EnterUsers, thread, inRoom, view, hasty, crossed>>
        /\ worker.at = "idle" /\ (worker' = worker \/ worker'.at = "tested")
      BY <1>3 DEF TestGameRoom, history
  <2> QED
      BY <2>1, AskedSettles
<1>4. CASE Worker
    BY <1>3, <1>4, EnterGameRoomSettles, EnterSessionSettles, ListUsersSettles,
       TellNewcomerSettles, SendNewUserSettles DEF Worker
<1>5. ASSUME NEW t \in PacketThreads, PacketThread(t)
      PROVE  InvSettle'
    BY <1>5, EnterSessionToChatSettles, PushResultSettles, CopyUsersSettles, SendNoticeSettles
       DEF PacketThread
<1>6. ASSUME NEW t \in PacketThreads, NEW c \in Clients,
             LeaveRoom(t, c) \/ \E r \in Rooms : OnEnterRoom(t, c, r)
      PROVE  InvSettle'
    BY <1>6, LeaveRoomSettles, OnEnterRoomSettles
<1> QED
    BY <1>1, <1>2, <1>4, <1>5, <1>6, SendResponsePacketSettles DEF Next

(* As long as nothing crossed, the handlers keep out of each other's way,   *)
(* and nobody keeps a user that left without its notice being under way.    *)
THEOREM SettleInvariance == Spec => [](Inv /\ InvKnown /\ InvSettle)
<1>1. Init => Inv /\ InvKnown /\ InvSettle
    BY InitInv, InitKnown, InitSettles
<1>2. (Inv /\ InvKnown /\ InvSettle) /\ [Next]_vars => (Inv /\ InvKnown /\ InvSettle)'
    BY NextInv, NextKnown, NextSettles
<1> QED
    BY <1>1, <1>2, PTL DEF Spec

(* When all is quiet, and no exit has crossed an entry, what a client was   *)
(* told of its room is true.                                                *)
THEOREM ViewsTrue == Spec => []ViewsSettle
<1>1. Inv /\ InvKnown /\ InvSettle => ViewsSettle
  <2> SUFFICES ASSUME Inv, InvKnown, InvSettle, Quiet, ~crossed, NEW r \in Rooms,
                      NEW c \in EnterUsers[r] \ Chatters
               PROVE  view[c] = EnterUsers[r]
      BY DEF ViewsSettle
  <2>1. Apart
      BY DEF InvSettle
  <2>2. ASSUME NEW d \in view[c] PROVE d \in EnterUsers[r]
    <3>1. \A t \in PacketThreads : ~ThreadForgets(t, r, c, d)
        BY DEF Quiet, ThreadForgets
    <3> QED
        BY <2>1, <3>1 DEF Apart, NoneStale
  <2>3. ASSUME NEW d \in EnterUsers[r] PROVE d \in view[c]
    <3>1. Hearing(c, d)
        BY <2>1 DEF Apart, InvKnown, Informed
    <3> QED
        BY <3>1 DEF Hearing, ToList, ToTell, WorkerNotes, ThreadNotes, Quiet
  <2> QED
      BY <2>2, <2>3
<1> QED
    BY <1>1, SettleInvariance, PTL

-----------------------------------------------------------------------------
(* The rooms as RoomService sees them. *)
WaitKinds == {"enter", "chat", "exit", "exiting"}
Waiting   == {c \in Clients : asks[c] \in WaitKinds}

LEMMA ServiceIn == \A c, x : Service!In(c, x) <=> OnlyIn(c, x)
    BY DEF Service!In, OnlyIn

LEMMA AskingStep ==
    ASSUME TypeOK, NEW c \in Clients, asks[c] \notin WaitKinds, NEW k \in WaitKinds,
           asks' = [asks EXCEPT ![c] = k], UNCHANGED <<EnterUsers, inRoom>>
    PROVE  Service!Ask(c)
<1>1. asks'[c] = k /\ \A d \in Clients : d # c => asks'[d] = asks[d]
    BY DEF TypeOK
<1>2. c \notin Waiting /\ Waiting' = Waiting \cup {c}
    BY <1>1 DEF Waiting
<1> QED
    BY <1>2 DEF Service!Ask, Waiting, WaitKinds

LEMMA EnteringStep ==
    ASSUME TypeOK, NEW c \in Clients, NEW r \in Rooms, inRoom[c] = None, OnlyIn(c, None),
           EnterUsers' = [EnterUsers EXCEPT ![r] = @ \cup {c}],
           asks'[c] \in WaitKinds, \A d \in Clients : d # c => asks'[d] = asks[d],
           UNCHANGED inRoom
    PROVE  Service!Enter(c, r)
<1>1. Waiting' = Waiting \cup {c}
    BY DEF Waiting
<1>2. Service!In(c, None)
    BY ServiceIn
<1> QED
    BY <1>1, <1>2 DEF Service!Enter, Waiting, WaitKinds

LEMMA AnsweringStep ==
    ASSUME TypeOK, NEW c \in Clients, asks[c] \in WaitKinds,
           NEW k, k \notin WaitKinds, asks' = [asks EXCEPT ![c] = k],
           NEW x \in Rooms \cup {None}, OnlyIn(c, x), inRoom' = [inRoom EXCEPT ![c] = x],
           UNCHANGED EnterUsers
    PROVE  Service!Answer(c)
<1>1. asks'[c] = k /\ \A d \in Clients : d # c => asks'[d] = asks[d]
    BY DEF TypeOK
<1>2. c \in Waiting /\ Waiting' = Waiting \ {c}
    BY <1>1 DEF Waiting
<1>3. Service!In(c, x)
    BY ServiceIn
<1> QED
    BY <1>2, <1>3 DEF Service!Answer, Waiting, WaitKinds

(* A request that nothing came of: its client is where it was, in no room.  *)
LEMMA RefusingStep ==
    ASSUME TypeOK, NEW c \in Clients, asks[c] \in WaitKinds,
           asks' = [asks EXCEPT ![c] = "refused"], OnlyIn(c, None), inRoom[c] = None,
           UNCHANGED <<EnterUsers, inRoom>>
    PROVE  Service!Answer(c)
<1>1. inRoom' = [inRoom EXCEPT ![c] = None]
    BY DEF TypeOK
<1>2. "refused" \notin WaitKinds
    BY DEF WaitKinds
<1>3. None \in Rooms \cup {None}
    OBVIOUS
<1> QED
    BY <1>1, <1>2, <1>3, AnsweringStep

LEMMA UnseenStep ==
    ASSUME UNCHANGED <<EnterUsers, asks, inRoom>>
    PROVE  UNCHANGED Service!vars
    BY DEF Service!vars

-----------------------------------------------------------------------------
LEMMA TestGameRoomServes ==
    ASSUME Inv, NEW r \in Rooms, TestGameRoom(r)
    PROVE  [Service!Next]_(Service!vars)
<1>1. TypeOK /\ jobs[r] # <<>> /\ UNCHANGED <<EnterUsers, inRoom>>
    BY DEF Inv, TestGameRoom
<1>2. PICK c : c = Head(jobs[r])
    OBVIOUS
<1>3. CASE UNCHANGED asks
    BY <1>1, <1>3, UnseenStep
<1>4. CASE asks' = [asks EXCEPT ![c] = "refused"]
  <2>1. jobs[r] \in Seq(Clients)
      BY <1>1 DEF TypeOK
  <2>2. c \in Clients /\ 1 \in 1 .. Len(jobs[r]) /\ jobs[r][1] = c
      BY <1>1, <1>2, <2>1
  <2>3. HasJob(c)
      BY <2>2 DEF HasJob
  <2>4. asks[c] = "enter" /\ OnlyIn(c, None) /\ inRoom[c] = None
      BY <2>2, <2>3 DEF Inv, Waits, WaitsJob, Whereabouts
  <2>5. Service!Answer(c)
      BY <1>1, <1>4, <2>2, <2>4, RefusingStep DEF WaitKinds
  <2> QED
      BY <2>2, <2>5 DEF Service!Next
<1> QED
    BY <1>2, <1>3, <1>4 DEF TestGameRoom

LEMMA EnterGameRoomServes ==
    ASSUME Inv, EnterGameRoom
    PROVE  [Service!Next]_(Service!vars)
<1>0. PICK c, r : c = worker.client /\ r = worker.room
    OBVIOUS
<1>1. /\ TypeOK /\ worker.at = "tested" /\ UNCHANGED <<asks, inRoom>>
      /\ EnterUsers' = [EnterUsers EXCEPT ![r] = @ \cup {c}]
    BY <1>0 DEF Inv, EnterGameRoom, clientVars
<1>2. c \in Clients /\ r \in Rooms
    BY <1>0, <1>1 DEF Inv, Shapes, WorkerShape
<1>3. AtWork(c)
    BY <1>0, <1>1 DEF AtWork, WorkerAnswers
<1>4. asks[c] = "enter" /\ OnlyIn(c, None) /\ inRoom[c] = None
    BY <1>0, <1>1, <1>2, <1>3 DEF Inv, Waits, WaitsWorker, Whereabouts
<1>5. Service!Enter(c, r)
    BY <1>1, <1>2, <1>4, EnteringStep DEF WaitKinds
<1> QED
    BY <1>2, <1>5 DEF Service!Next

LEMMA AnswerEnterServes ==
    ASSUME Inv, AnswerEnter
    PROVE  [Service!Next]_(Service!vars)
<1>0. PICK c, r : c = worker.client /\ r = worker.room
    OBVIOUS
<1>1. /\ TypeOK /\ worker.at = "answer" /\ UNCHANGED EnterUsers
      /\ asks' = [asks EXCEPT ![c] = "none"] /\ inRoom' = [inRoom EXCEPT ![c] = r]
    BY <1>0 DEF Inv, AnswerEnter, roomVars
<1>2. c \in Clients /\ r \in Rooms
    BY <1>0, <1>1 DEF Inv, Shapes, WorkerShape
<1>3. AtWork(c)
    BY <1>0, <1>1 DEF AtWork, WorkerAnswers
<1>4. asks[c] = "enter" /\ OnlyIn(c, r)
    BY <1>0, <1>1, <1>2, <1>3 DEF Inv, Waits, WaitsWorker
<1>5. asks[c] \in WaitKinds /\ "none" \notin WaitKinds /\ r \in Rooms \cup {None}
    BY <1>2, <1>4 DEF WaitKinds
<1>6. Service!Answer(c)
    BY <1>1, <1>2, <1>4, <1>5, AnsweringStep
<1> QED
    BY <1>2, <1>6 DEF Service!Next

LEMMA OnEnterRoomServes ==
    ASSUME Inv, NEW t \in PacketThreads, NEW c \in Clients, NEW r \in Rooms,
           OnEnterRoom(t, c, r)
    PROVE  [Service!Next]_(Service!vars)
<1>1. /\ TypeOK /\ asks[c] \in {"none", "refused"} /\ inRoom[c] = None
      /\ asks' = [asks EXCEPT ![c] = "chat"] /\ UNCHANGED inRoom
    BY DEF Inv, OnEnterRoom
<1>2. CASE UNCHANGED EnterUsers
  <2>1. Service!Ask(c)
      BY <1>1, <1>2, AskingStep DEF WaitKinds
  <2> QED
      BY <2>1 DEF Service!Next
<1>3. CASE EnterUsers' = [EnterUsers EXCEPT ![r] = @ \cup {c}]
  <2>1. OnlyIn(c, None)
      BY <1>1 DEF Inv, Waits, Whereabouts
  <2>2. asks'[c] = "chat" /\ \A d \in Clients : d # c => asks'[d] = asks[d]
      BY <1>1 DEF TypeOK
  <2>3. Service!Enter(c, r)
      BY <1>1, <1>3, <2>1, <2>2, EnteringStep DEF WaitKinds
  <2> QED
      BY <2>3 DEF Service!Next
<1> QED
    BY <1>2, <1>3 DEF OnEnterRoom

LEMMA LeaveRoomServes ==
    ASSUME Inv, NEW t \in PacketThreads, NEW c \in Clients, LeaveRoom(t, c)
    PROVE  [Service!Next]_(Service!vars)
<1>1. TypeOK /\ asks[c] = "exit" /\ UNCHANGED inRoom
    BY DEF Inv, LeaveRoom
<1>2. OnlyIn(c, inRoom[c]) /\ (inRoom[c] # None => RoomId[c] = inRoom[c])
    BY <1>1 DEF Inv, Waits, Whereabouts
<1>3. inRoom[c] \in Rooms \cup {None}
    BY <1>1 DEF TypeOK
<1>4. CASE ~IsUser(c)
  <2>1. inRoom[c] = None
      BY <1>2, <1>3, <1>4 DEF IsUser, OnlyIn
  <2>2. asks' = [asks EXCEPT ![c] = "refused"] /\ UNCHANGED EnterUsers
      BY <1>4 DEF LeaveRoom
  <2>3. Service!Answer(c)
      BY <1>1, <1>2, <2>1, <2>2, RefusingStep DEF WaitKinds
  <2> QED
      BY <2>3 DEF Service!Next
<1>5. CASE IsUser(c)
  <2>1. RoomId[c] = inRoom[c] /\ inRoom[c] # None
      BY <1>2, <1>5, NoneAssumption DEF IsUser, OnlyIn
  <2>2. /\ asks' = [asks EXCEPT ![c] = "exiting"]
        /\ EnterUsers' = [EnterUsers EXCEPT ![inRoom[c]] = @ \ {c}]
      BY <1>5, <2>1 DEF LeaveRoom
  <2>3. asks'[c] = "exiting" /\ \A d \in Clients : d # c => asks'[d] = asks[d]
      BY <1>1, <2>2 DEF TypeOK
  <2>4. c \in Waiting /\ Waiting' = Waiting
      BY <1>1, <2>3 DEF Waiting, WaitKinds
  <2>5. Service!In(c, inRoom[c])
      BY <1>2, ServiceIn
  <2>6. Service!Leave(c)
      BY <1>1, <2>1, <2>2, <2>4, <2>5 DEF Service!Leave, Waiting, WaitKinds
  <2> QED
      BY <2>6 DEF Service!Next
<1> QED
    BY <1>4, <1>5

LEMMA SendResponsePacketServes ==
    ASSUME Inv, SendResponsePacket
    PROVE  [Service!Next]_(Service!vars)
<1> DEFINE S == Clients \X (Rooms \cup {None})
<1>1. PICK c, r : c = Head(ResultQue)[1] /\ r = Head(ResultQue)[2]
    OBVIOUS
<1>2. /\ TypeOK /\ ResultQue # <<>> /\ ResultQue \in Seq(S) /\ UNCHANGED EnterUsers
      /\ asks' = [asks EXCEPT ![c] = "none"] /\ inRoom' = [inRoom EXCEPT ![c] = r]
    BY <1>1 DEF Inv, SendResponsePacket, TypeOK, roomVars
<1>3. Head(ResultQue) \in S /\ 1 \in 1 .. Len(ResultQue) /\ ResultQue[1] = Head(ResultQue)
  <2> HIDE DEF S
  <2> QED
      BY <1>2
<1>4. c \in Clients /\ r \in Rooms \cup {None} /\ Head(ResultQue) = <<c, r>>
    BY <1>1, <1>3
<1>5. HasResult(c, r)
    BY <1>3, <1>4 DEF HasResult
<1>6. asks[c] \in {"chat", "exiting"} /\ OnlyIn(c, r)
    BY <1>4, <1>5 DEF Inv, Waits, WaitsResult
<1>7. asks[c] \in WaitKinds /\ "none" \notin WaitKinds
    BY <1>6 DEF WaitKinds
<1>8. Service!Answer(c)
    BY <1>2, <1>4, <1>6, <1>7, AnsweringStep
<1> QED
    BY <1>4, <1>8 DEF Service!Next

-----------------------------------------------------------------------------
LEMMA ServiceInit == Init => Service!Init
<1> SUFFICES ASSUME Init PROVE Service!Init
    OBVIOUS
<1>1. Waiting = {}
    BY DEF Init, Waiting, WaitKinds
<1> QED
    BY <1>1 DEF Init, Service!Init, Waiting, WaitKinds

LEMMA ServiceNext ==
    ASSUME Inv, [Next]_vars
    PROVE  [Service!Next]_(Service!vars)
<1>1. TypeOK
    BY DEF Inv
<1>2. CASE UNCHANGED vars
    BY <1>2, UnseenStep DEF vars, roomVars, clientVars
<1>3. CASE Worker
  <2>1. CASE EnterSession \/ ListUsers \/ TellNewcomer \/ CopyForNewUser \/ SendNewUser
      BY <2>1, UnseenStep
         DEF EnterSession, ListUsers, TellNewcomer, CopyForNewUser, SendNewUser, roomVars,
             clientVars
  <2> QED
      BY <1>3, <2>1, TestGameRoomServes, EnterGameRoomServes, AnswerEnterServes DEF Worker
<1>4. ASSUME NEW t \in PacketThreads, PacketThread(t)
      PROVE  [Service!Next]_(Service!vars)
    BY <1>4, UnseenStep
       DEF PacketThread, EnterSessionToChat, PushEnterResult, PushExitResult, CopyUsers,
           SendNotice, roomVars, clientVars
<1>5. ASSUME NEW t \in PacketThreads, NEW c \in Clients,
             LeaveRoom(t, c) \/ \E r \in Rooms : OnEnterRoom(t, c, r)
      PROVE  [Service!Next]_(Service!vars)
    BY <1>5, LeaveRoomServes, OnEnterRoomServes
<1>6. ASSUME NEW c \in Clients, AskExit(c) \/ \E r \in Rooms : OnGameRoomEnter(c, r)
      PROVE  [Service!Next]_(Service!vars)
  <2>1. PICK k \in {"enter", "exit"} : asks' = [asks EXCEPT ![c] = k]
      BY <1>6 DEF AskExit, OnGameRoomEnter
  <2>2. asks[c] \in {"none", "refused"} /\ UNCHANGED <<EnterUsers, inRoom>>
      BY <1>6 DEF AskExit, OnGameRoomEnter, roomVars
  <2>3. Service!Ask(c)
      BY <1>1, <2>1, <2>2, AskingStep DEF WaitKinds
  <2> QED
      BY <2>3 DEF Service!Next
<1> QED
    BY <1>2, <1>3, <1>4, <1>5, <1>6, SendResponsePacketServes DEF Next

(* The jobs, handlers and results of the rooms, with all their steps between*)
(* a request and its answer, implement RoomService, in which a request moves*)
(* its client at once, once at the most, and is answered by where it is.    *)
THEOREM ImplementsService == Spec => ServiceSpec
<1>1. Inv /\ [Next]_vars => [Service!Next]_(Service!vars)
    BY ServiceNext
<1> QED
    BY ServiceInit, <1>1, Invariance, PTL DEF Spec, ServiceSpec, Service!Spec
=============================================================================
