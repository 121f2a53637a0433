------------------------------ MODULE GameRooms ------------------------------
(***************************************************************************)
(* Entering and leaving rooms: the handlers OnGameRoomEnter and            *)
(* OnGameRoomExit, and for chat OnEnterRoom and OnExitRoom                  *)
(* (ClientSession.h), the part of ChatRoom they change (RoomManager.h), and *)
(* the notices that tell the users of a room who came and who left.         *)
(*                                                                         *)
(* Entering a game room is a job of the room, which the one worker runs;    *)
(* entering one to chat, and leaving, run on a packet thread.  Each access  *)
(* under a lock is a step; a broadcast is two, since it copies the list of  *)
(* users and sends without the lock.  A message is a broadcast that changes *)
(* nothing, and is left out.                                                *)
(*                                                                         *)
(* A client sends its next request when it has the answer to the last, or  *)
(* the server dropped that without one (asks is then "refused"), and enters*)
(* a room only when it is in none.  This is assumed of the clients, and the *)
(* server checks neither.  What a client was sent counts as received.       *)
(* Locations, sections and names are left out, and so is what the unlocked *)
(* insert of EnterGameRoom may do to the hash itself when a packet thread  *)
(* changes it at the same time.                                            *)
(***************************************************************************)
EXTENDS Naturals, Sequences, FiniteSets

CONSTANTS
    Clients,        \* session indices
    Chatters,       \* those that also enter rooms to chat
    Rooms,
    None,           \* no room, no client
    PacketThreads,  \* ProcessRecvPacketThreads
    MaxEnterSize    \* [Rooms -> Nat]: a member of each room

ASSUME NoneAssumption == None \notin Clients \cup Rooms
ASSUME ChattersAssumption == Chatters \subseteq Clients
ASSUME MaxEnterSizeAssumption == MaxEnterSize \in [Rooms -> Nat]

VARIABLES
    RoomId,      \* [Clients -> Rooms or None]: the session's; None is no room's
    EnterUsers,  \* [Rooms -> SUBSET Clients]
    jobs,        \* [Rooms -> Seq(Clients)]: who is to be entered
    worker,      \* the job the worker runs, and where it is
    thread,      \* what each packet thread handles, and where it is
    ResultQue,   \* answers to be sent: to whom, and the room it is in then
    asks,        \* what each client waits for
    inRoom,      \* the room each client was told it is in
    view,        \* whom the notices to each client named, since it entered
    hasty,       \* history: clients that came back while their exit was handled
    raced,       \* history: full rooms entered between the test and the insert
    crossed      \* history: an exit was handled while an entry was, or
                 \* while a full room refused the same client

roomVars   == <<RoomId, EnterUsers, jobs>>
clientVars == <<asks, inRoom, view>>
history == <<hasty, raced, crossed>>
vars == <<roomVars, worker, thread, ResultQue, clientVars, history>>

IdleWorker == [at |-> "idle", client |-> None, room |-> None, to |-> {}]
IdleThread == [at |-> "idle", client |-> None, room |-> None, to |-> {}]

(* The constructor leaves the RoomId of a session as it finds it. *)
Init ==
    /\ RoomId \in [Clients -> Rooms \cup {None}]
    /\ EnterUsers = [r \in Rooms |-> {}]
    /\ jobs = [r \in Rooms |-> <<>>]
    /\ worker = IdleWorker
    /\ thread = [t \in PacketThreads |-> IdleThread]
    /\ ResultQue = <<>>
    /\ asks = [c \in Clients |-> "none"]
    /\ inRoom = [c \in Clients |-> None]
    /\ view = [c \in Clients |-> {}]
    /\ hasty = {} /\ raced = {} /\ crossed = FALSE

(* Who is being entered, by the worker or by a packet thread, and who is    *)
(* leaving.  A packet thread has a room when it enters somebody.            *)
Entering == \/ worker.at \notin {"idle", "tested"}
            \/ \E t \in PacketThreads : thread[t].room # None
LeavingOne(c) ==
    \E t \in PacketThreads : thread[t].client = c /\ thread[t].room = None
Leaving == \E c \in Clients : LeavingOne(c)

(* The history of an insert of c.                                           *)
NoteInsert(c) ==
    /\ hasty' = IF LeavingOne(c) THEN hasty \cup {c} ELSE hasty \ {c}
    /\ crossed' = (crossed \/ Leaving)

-----------------------------------------------------------------------------
(* OnGameRoomEnter, on a packet thread that is free: push the job. *)
OnGameRoomEnter(c, r) ==
    /\ asks[c] \in {"none", "refused"} /\ inRoom[c] = None
    /\ \E t \in PacketThreads : thread[t].at = "idle"
    /\ asks' = [asks EXCEPT ![c] = "enter"]
    /\ jobs' = [jobs EXCEPT ![r] = Append(@, c)]
    /\ UNCHANGED <<RoomId, EnterUsers, worker, thread, ResultQue, inRoom, view, history>>

(* Mutant: the size is not looked at. *)
TestGameRoomUnchecked(r) ==
    /\ worker.at = "idle" /\ jobs[r] # <<>>
    /\ jobs' = [jobs EXCEPT ![r] = Tail(@)]
    /\ worker' = [at |-> "tested", client |-> Head(jobs[r]), room |-> r, to |-> {}]
    /\ UNCHANGED <<asks, RoomId, EnterUsers, thread, ResultQue, inRoom, view, history>>

(* The job.  EnterGameRoom tests the size, without the lock; a room that is *)
(* full returns without an answer ...                                       *)
TestGameRoom(r) ==
    /\ worker.at = "idle" /\ jobs[r] # <<>>
    /\ jobs' = [jobs EXCEPT ![r] = Tail(@)]
    /\ \/ /\ Cardinality(EnterUsers[r]) = MaxEnterSize[r]
          /\ asks' = [asks EXCEPT ![Head(jobs[r])] = "refused"]
          /\ UNCHANGED worker
       \/ /\ Cardinality(EnterUsers[r]) # MaxEnterSize[r]
          /\ worker' = [at |-> "tested", client |-> Head(jobs[r]), room |-> r,
                        to |-> {}]
          /\ UNCHANGED asks
    /\ UNCHANGED <<RoomId, EnterUsers, thread, ResultQue, inRoom, view, history>>

(* ... and inserts. *)
EnterGameRoom ==
    /\ worker.at = "tested"
    /\ EnterUsers' = [EnterUsers EXCEPT ![worker.room] = @ \cup {worker.client}]
    /\ worker' = [worker EXCEPT !.at = "entered"]
    /\ NoteInsert(worker.client)
    /\ UNCHANGED <<RoomId, jobs, thread, ResultQue, clientVars, raced>>

(* Mutant: the session is not told. *)
EnterSessionSkipped ==
    /\ worker.at = "entered"
    /\ worker' = [worker EXCEPT !.at = "answer"]
    /\ UNCHANGED <<RoomId, EnterUsers, jobs, thread, ResultQue, clientVars, history>>

(* ClientPtr->EnterRoom(RoomId) *)
EnterSession ==
    /\ worker.at = "entered"
    /\ RoomId' = [RoomId EXCEPT ![worker.client] = worker.room]
    /\ worker' = [worker EXCEPT !.at = "answer"]
    /\ UNCHANGED <<EnterUsers, jobs, thread, ResultQue, clientVars, history>>

(* GAME_ROOM_ENTER_RESPONSE *)
AnswerEnter ==
    /\ worker.at = "answer"
    /\ asks' = [asks EXCEPT ![worker.client] = "none"]
    /\ inRoom' = [inRoom EXCEPT ![worker.client] = worker.room]
    /\ worker' = [worker EXCEPT !.at = "list"]
    /\ UNCHANGED <<roomVars, thread, ResultQue, view, history>>

(* GetRoomUserList(RoomId, UserList, UserSize) *)
ListUsers ==
    /\ worker.at = "list"
    /\ worker' = [worker EXCEPT !.at = "tell", !.to = EnterUsers[worker.room]]
    /\ UNCHANGED <<roomVars, thread, ResultQue, clientVars, history>>

(* What a client hears changes its view while it is in a room. *)
Hears(to, newView(_)) ==
    view' = [d \in Clients |-> IF d \in to /\ inRoom[d] # None THEN newView(d)
                                                               ELSE view[d]]

(* Mutant: the list is not sent to the newcomer. *)
TellNewcomerSkipped ==
    /\ worker.at = "tell"
    /\ worker' = [worker EXCEPT !.at = "copy"]
    /\ UNCHANGED <<roomVars, thread, ResultQue, clientVars, history>>

(* A NOTICE_ROOM_NEW_USER to the newcomer for each user of the list. *)
TellNewcomer ==
    /\ worker.at = "tell"
    /\ Hears({worker.client}, LAMBDA d : view[d] \cup worker.to)
    /\ worker' = [worker EXCEPT !.at = "copy"]
    /\ UNCHANGED <<roomVars, thread, ResultQue, asks, inRoom, history>>

(* BroadCastAllRoomUser of the room the session is in: copy the list ... *)
CopyForNewUser ==
    /\ worker.at = "copy"
    /\ worker' = [worker EXCEPT !.at = "send",
                                !.to = EnterUsers[RoomId[worker.client]]]
    /\ UNCHANGED <<roomVars, thread, ResultQue, clientVars, history>>

(* ... and send NOTICE_ROOM_NEW_USER; the job is done. *)
SendNewUser ==
    /\ worker.at = "send"
    /\ Hears(worker.to, LAMBDA d : view[d] \cup {worker.client})
    /\ worker' = IdleWorker
    /\ UNCHANGED <<roomVars, thread, ResultQue, asks, inRoom, history>>

-----------------------------------------------------------------------------
(* OnEnterRoom.  EnterRoom tests and inserts under the lock ... *)
OnEnterRoom(t, c, r) ==
    /\ c \in Chatters /\ asks[c] \in {"none", "refused"} /\ inRoom[c] = None
    /\ thread[t].at = "idle"
    /\ asks' = [asks EXCEPT ![c] = "chat"]
    /\ \/ /\ Cardinality(EnterUsers[r]) = MaxEnterSize[r]
          /\ thread' = [thread EXCEPT ![t] =
                            [at |-> "turned", client |-> c, room |-> r, to |-> {}]]
          /\ crossed' = (crossed \/ LeavingOne(c))
          /\ UNCHANGED <<EnterUsers, hasty, raced>>
       \/ /\ Cardinality(EnterUsers[r]) # MaxEnterSize[r]
          /\ EnterUsers' = [EnterUsers EXCEPT ![r] = @ \cup {c}]
          /\ thread' = [thread EXCEPT ![t] =
                            [at |-> "entered", client |-> c, room |-> r, to |-> {}]]
          /\ raced' = IF /\ worker.at = "tested" /\ worker.room = r
                         /\ Cardinality(EnterUsers'[r]) = MaxEnterSize[r]
                      THEN raced \cup {r} ELSE raced
          /\ NoteInsert(c)
    /\ UNCHANGED <<RoomId, jobs, worker, ResultQue, inRoom, view>>

(* ... the session is told, also when the room was full ... *)
EnterSessionToChat(t) ==
    /\ thread[t].at \in {"turned", "entered"}
    /\ RoomId' = [RoomId EXCEPT ![thread[t].client] = thread[t].room]
    /\ thread' = [thread EXCEPT ![t].at = IF @ = "turned" THEN "deny" ELSE "answer"]
    /\ UNCHANGED <<EnterUsers, jobs, worker, ResultQue, clientVars, history>>

(* Mutant: the answer names the room also when it was full. *)
PushEnterResultAlike(t) ==
    /\ thread[t].at \in {"deny", "answer"}
    /\ ResultQue' = Append(ResultQue, <<thread[t].client, thread[t].room>>)
    /\ thread' = [thread EXCEPT ![t] = IF @.at = "deny" THEN IdleThread
                                                       ELSE [@ EXCEPT !.at = "copy"]]
    /\ UNCHANGED <<roomVars, worker, clientVars, history>>

(* ... and the answer goes to the queue.  The newcomer gets no list.        *)
PushEnterResult(t) ==
    /\ thread[t].at \in {"deny", "answer"}
    /\ \/ /\ thread[t].at = "deny"
          /\ ResultQue' = Append(ResultQue, <<thread[t].client, None>>)
          /\ thread' = [thread EXCEPT ![t] = IdleThread]
       \/ /\ thread[t].at = "answer"
          /\ ResultQue' = Append(ResultQue, <<thread[t].client, thread[t].room>>)
          /\ thread' = [thread EXCEPT ![t].at = "copy"]
    /\ UNCHANGED <<roomVars, worker, clientVars, history>>

(* A client asks to leave its room, or after a refusal it did not hear of.  *)
AskExit(c) ==
    /\ \/ asks[c] = "none" /\ inRoom[c] # None
       \/ asks[c] = "refused"
    /\ asks' = [asks EXCEPT ![c] = "exit"]
    /\ UNCHANGED <<roomVars, worker, thread, ResultQue, inRoom, view, history>>

(* The client is a user of the room its session names. *)
IsUser(c) == RoomId[c] \in Rooms /\ c \in EnterUsers[RoomId[c]]

(* OnGameRoomExit, OnExitRoom.  LeaveRoom of the room the session is in; of *)
(* a user that is not there, nothing more is done, and no answer sent.      *)
LeaveRoom(t, c) ==
    /\ asks[c] = "exit" /\ thread[t].at = "idle"
    /\ \/ /\ ~IsUser(c)
          /\ asks' = [asks EXCEPT ![c] = "refused"]
          /\ UNCHANGED <<EnterUsers, thread, history>>
       \/ /\ IsUser(c)
          /\ asks' = [asks EXCEPT ![c] = "exiting"]
          /\ EnterUsers' = [EnterUsers EXCEPT ![RoomId[c]] = @ \ {c}]
          /\ thread' = [thread EXCEPT ![t] = [IdleThread EXCEPT !.at = "left",
                                                                !.client = c]]
          /\ crossed' = (crossed \/ Entering)
          /\ raced' = {r \in raced : Cardinality(EnterUsers'[r]) >= MaxEnterSize[r]}
          /\ UNCHANGED hasty
    /\ UNCHANGED <<RoomId, jobs, worker, ResultQue, inRoom, view>>

(* Mutant: the result is not pushed. *)
PushExitResultDropped(t) ==
    /\ thread[t].at = "left"
    /\ thread' = [thread EXCEPT ![t].at = "copy"]
    /\ UNCHANGED <<roomVars, worker, ResultQue, clientVars, history>>

(* PushLpacketResult(EXIT_ROOM_RESPONSE), after ExitRoom of the session. *)
PushExitResult(t) ==
    /\ thread[t].at = "left"
    /\ ResultQue' = Append(ResultQue, <<thread[t].client, None>>)
    /\ thread' = [thread EXCEPT ![t].at = "copy"]
    /\ UNCHANGED <<roomVars, worker, clientVars, history>>

(* BroadCastAllRoomUser of the room the session is in: copy the list ... *)
CopyUsers(t) ==
    /\ thread[t].at = "copy"
    /\ thread' = [thread EXCEPT ![t] = [@ EXCEPT !.at = "send",
                      !.to = EnterUsers[RoomId[thread[t].client]]]]
    /\ UNCHANGED <<roomVars, worker, ResultQue, clientVars, history>>

(* Mutant: the notice is NOTICE_ROOM_NEW_USER for either. *)
SendNoticeNewUser(t) ==
    /\ thread[t].at = "send"
    /\ Hears(thread[t].to, LAMBDA d : view[d] \cup {thread[t].client})
    /\ thread' = [thread EXCEPT ![t] = IdleThread]
    /\ UNCHANGED <<roomVars, worker, ResultQue, asks, inRoom, history>>

(* ... and send NOTICE_ROOM_EXIT_USER, or NOTICE_ROOM_NEW_USER. *)
SendNotice(t) ==
    /\ thread[t].at = "send"
    /\ LET c == thread[t].client
       IN  Hears(thread[t].to, LAMBDA d : IF thread[t].room = None THEN view[d] \ {c}
                                                                   ELSE view[d] \cup {c})
    /\ thread' = [thread EXCEPT ![t] = IdleThread]
    /\ UNCHANGED <<roomVars, worker, ResultQue, asks, inRoom, history>>

(* ProcessPacketResult: the answer goes out, and a client that is in no     *)
(* room now forgets the users of the last.                                  *)
SendResponsePacket ==
    /\ ResultQue # <<>>
    /\ LET c == Head(ResultQue)[1]
           r == Head(ResultQue)[2]
       IN  /\ asks' = [asks EXCEPT ![c] = "none"]
           /\ inRoom' = [inRoom EXCEPT ![c] = r]
           /\ view' = IF r = None THEN [view EXCEPT ![c] = {}] ELSE view
    /\ ResultQue' = Tail(ResultQue)
    /\ UNCHANGED <<roomVars, worker, thread, history>>

-----------------------------------------------------------------------------
Worker == \/ \E r \in Rooms : TestGameRoom(r)
          \/ EnterGameRoom \/ EnterSession \/ AnswerEnter
          \/ ListUsers \/ TellNewcomer \/ CopyForNewUser \/ SendNewUser
PacketThread(t) == \/ EnterSessionToChat(t) \/ PushEnterResult(t)
                   \/ PushExitResult(t) \/ CopyUsers(t) \/ SendNotice(t)

Next == \/ \E c \in Clients, r \in Rooms : OnGameRoomEnter(c, r)
        \/ \E c \in Clients : AskExit(c)
        \/ Worker
        \/ \E t \in PacketThreads, c \in Clients :
              LeaveRoom(t, c) \/ \E r \in Rooms : OnEnterRoom(t, c, r)
        \/ \E t \in PacketThreads : PacketThread(t)
        \/ SendResponsePacket

Spec == Init /\ [][Next]_vars

-----------------------------------------------------------------------------
TypeOK ==
    /\ RoomId \in [Clients -> Rooms \cup {None}]
    /\ EnterUsers \in [Rooms -> SUBSET Clients]
    /\ jobs \in [Rooms -> Seq(Clients)]
    /\ worker \in [at : {"idle", "tested", "entered", "answer", "list", "tell", "copy",
                         "send"},
                   client : Clients \cup {None}, room : Rooms \cup {None},
                   to : SUBSET Clients]
    /\ thread \in [PacketThreads ->
                      [at : {"idle", "turned", "entered", "deny", "answer", "left", "copy",
                             "send"},
                       client : Clients \cup {None}, room : Rooms \cup {None},
                       to : SUBSET Clients]]
    /\ ResultQue \in Seq(Clients \X (Rooms \cup {None}))
    /\ asks \in [Clients -> {"none", "enter", "chat", "refused", "exit", "exiting"}]
    /\ inRoom \in [Clients -> Rooms \cup {None}]
    /\ view \in [Clients -> SUBSET Clients]
    /\ hasty \subseteq Clients /\ raced \subseteq Rooms /\ crossed \in BOOLEAN

(* A room never has more users than MaxEnterSize, although it compares for  *)
(* equality and the worker without the lock: beyond it the test would never *)
(* be true again.  It may have one too many, and then any number, after it  *)
(* was entered to chat between the worker's test and insert; what happens   *)
(* once that is more than the arrays of MAX_ENTER_USER_COUNT users can take *)
(* (RoomManager.h:255) is left out.                                         *)
RoomHolds == \A r \in Rooms \ raced : Cardinality(EnterUsers[r]) <= MaxEnterSize[r]

(* A client that waits for nothing is a user of the room it was told it is  *)
(* in, and of no other; its session names that room, so its messages and    *)
(* its exit go there.                                                       *)
AnswersHold ==
    \A c \in Clients : asks[c] = "none" =>
        /\ \A r \in Rooms : c \in EnterUsers[r] <=> inRoom[c] = r
        /\ inRoom[c] # None => RoomId[c] = inRoom[c]

(* Whichever threads handle a request, and however long its job, its result *)
(* and the notices are under way, it moves its client once at the most, and *)
(* the answer is the room the client is in: nothing comes late or twice.    *)
Service == INSTANCE RoomService WITH
               users   <- EnterUsers,
               waiting <- {c \in Clients : asks[c] \in {"enter", "chat", "exit", "exiting"}},
               told    <- inRoom
ServiceSpec == Service!Spec

(* Two users of a room know of each other once nobody is entering either,   *)
(* whoever else comes and goes: the list, the broadcasts of the worker and  *)
(* those of the packet threads leave no gap.  Two do not know: one that     *)
(* entered to chat, of who was there before, and the others, of one that    *)
(* came back while the handler of its exit had still to send the notice.    *)
NewcomersKnown ==
    \A r \in Rooms : \A c, d \in EnterUsers[r] \ hasty :
        (/\ c \notin Chatters
         /\ worker.client \notin {c, d}
         /\ \A t \in PacketThreads : thread[t].client \notin {c, d})
            => d \in view[c]

(* Where an answer to c comes from: a job, the worker, a packet thread or a *)
(* result that is to be sent.                                               *)
JobSources(c) ==
    UNION {{<<"job", r, i>> : i \in {j \in DOMAIN jobs[r] : jobs[r][j] = c}} : r \in Rooms}
WorkerSources(c) ==
    {<<"worker", x>> : x \in {y \in {"tested", "entered", "answer"} :
                                 worker.client = c /\ worker.at = y}}
ThreadSources(c) ==
    {<<"thread", t>> : t \in {u \in PacketThreads :
                                 thread[u].client = c /\ thread[u].at \notin {"copy", "send"}}}
ResultSources(c) ==
    {<<"result", i>> : i \in {j \in DOMAIN ResultQue : ResultQue[j][1] = c}}

AnswerSources(c) ==
    JobSources(c) \cup WorkerSources(c) \cup ThreadSources(c) \cup ResultSources(c)

(* While a client waits for the answer to an entry, or to an exit that was  *)
(* done, one job, handler or result is there that answers it, and only one; *)
(* none is when it waits for nothing, so that no late answer puts it where  *)
(* it is not.                                                               *)
OneAnswerComing ==
    \A c \in Clients :
        Cardinality(AnswerSources(c)) =
            IF asks[c] \in {"enter", "chat", "exiting"} THEN 1 ELSE 0

(* No job, handler or answer is under way. *)
Quiet == /\ worker.at = "idle" /\ \A r \in Rooms : jobs[r] = <<>>
         /\ \A t \in PacketThreads : thread[t].at = "idle"
         /\ ResultQue = <<>>

(* When all is quiet the users a client was told of, less those it was told *)
(* had left, are those of its room, itself among them.  Three things part   *)
(* them for good: a client that entered to chat gets no list, the notices   *)
(* of an exit handled while an entry was pass each other, and those of an   *)
(* exit go to the full room its client tried next, which its session names. *)
ViewsSettle ==
    (Quiet /\ ~crossed) =>
        \A r \in Rooms : \A c \in EnterUsers[r] \ Chatters : view[c] = EnterUsers[r]
=============================================================================
