------------------------------ MODULE RoomJobs ------------------------------
(***************************************************************************)
(* The per-room job queues of RoomManager.h.                               *)
(*                                                                         *)
(* Packet threads, the thread that sends locations (the ticker) and jobs   *)
(* themselves hand jobs to a room.  ChatRoom::PushJob appends to the       *)
(* room's InputJobQueue; whoever then wins the exchange on RoomAccessGuard *)
(* puts the room on the RoomManager's JobQueue and notifies one worker.  A *)
(* worker takes a room, swaps InputJobQueue with its empty JobProcessQueue,*)
(* runs the jobs, and repeats until it finds InputJobQueue empty: it then  *)
(* gives the guard back while it holds JobLock.                            *)
(*                                                                         *)
(* Every critical section of JobLock and JobQueueLock is one step; what    *)
(* happens between two of them is visible to the other threads.            *)
(***************************************************************************)
EXTENDS Naturals, Sequences

CONSTANTS
    NRooms,     \* number of rooms (MAX_ROOM_COUNT)
    Posters,    \* packet threads that call RoomManager::PushJob
    Ticker,     \* the thread that calls OnUpdateAllRoom
    Workers,    \* RoomJobProcessThreads
    MaxJobs     \* bound: how many jobs are ever pushed

ASSUME NRoomsAssumption == NRooms \in Nat \ {0}
ASSUME MaxJobsAssumption == MaxJobs \in Nat
ASSUME ThreadsAssumption == /\ Ticker \notin Posters
                            /\ Ticker \notin Workers
                            /\ Posters \cap Workers = {}

Rooms == 0 .. NRooms - 1
Threads == Posters \cup {Ticker} \cup Workers

(***************************************************************************)
(* A job: its number in push order, what it does and the room whose state  *)
(* it touches.  An "update" job is Room->Update, which may spawn monsters; *)
(* a "spawn" job enters a monster; a "packet" job comes from a handler.    *)
(***************************************************************************)
Job == [id : 1 .. MaxJobs, kind : {"packet", "update", "spawn"}, room : Rooms]

VARIABLES
    InputJobQueue,   \* [Rooms -> Seq(Job)]
    JobProcessQueue, \* [Rooms -> Seq(Job)]
    pos,             \* pos[r]: how many jobs of JobProcessQueue[r] were called
    RoomAccessGuard, \* [Rooms -> {0, 1}]
    JobQueue,        \* Seq(Rooms): rooms with work to do
    wpc,             \* where each worker is
    wroom,           \* targetRoomId of each worker
    post,            \* where each thread is inside RoomManager::PushJob
    target,          \* the RoomId it pushes to
    tickPc,          \* where the ticker is in OnUpdateAllRoom
    tickRoom,        \* the room it is at
    ThreadsRun,
    spawnRoom,       \* RoomId of the spawners of each room
    issued,          \* how many jobs were pushed
    ran              \* history: the jobs of each room's queue, as they return

jobVars    == <<InputJobQueue, JobProcessQueue, pos, RoomAccessGuard>>
workerVars == <<wpc, wroom>>
postVars   == <<post, target>>
tickVars   == <<tickPc, tickRoom>>
vars == <<jobVars, JobQueue, workerVars, postVars, tickVars, ThreadsRun,
          spawnRoom, issued, ran>>

-----------------------------------------------------------------------------
(* The constructor copies RoomId into the spawners before anything assigned *)
(* it: the spawners of a room may name any room.                            *)
Init ==
    /\ InputJobQueue = [r \in Rooms |-> <<>>]
    /\ JobProcessQueue = [r \in Rooms |-> <<>>]
    /\ pos = [r \in Rooms |-> 0]
    /\ RoomAccessGuard = [r \in Rooms |-> 0]
    /\ JobQueue = <<>>
    /\ wpc = [w \in Workers |-> "top"]
    /\ wroom = [w \in Workers |-> 0]
    /\ post = [t \in Threads |-> "none"]
    /\ target = [t \in Threads |-> 0]
    /\ tickPc = "room"
    /\ tickRoom = 0
    /\ ThreadsRun = TRUE
    /\ spawnRoom \in [Rooms -> Rooms]
    /\ issued = 0
    /\ ran = [r \in Rooms |-> <<>>]

-----------------------------------------------------------------------------
(* RoomManager::PushJob, in its three steps. *)

(* Rooms[RoomId]->PushJob(job), under JobLock. *)
PushJob(t, r, kind, room) ==
    /\ post[t] = "none"
    /\ issued < MaxJobs
    /\ issued' = issued + 1
    /\ InputJobQueue' = [InputJobQueue EXCEPT ![r] =
           Append(@, [id |-> issued + 1, kind |-> kind, room |-> room])]
    /\ post' = [post EXCEPT ![t] = "pushed"]
    /\ target' = [target EXCEPT ![t] = r]
    /\ UNCHANGED <<JobProcessQueue, pos, RoomAccessGuard, JobQueue, workerVars,
                   ThreadsRun, spawnRoom, ran>>

(* Mutant: every pusher takes itself for the winner. *)
TryGetAccessAlways(t) ==
    /\ post[t] = "pushed"
    /\ RoomAccessGuard' = [RoomAccessGuard EXCEPT ![target[t]] = 1]
    /\ post' = [post EXCEPT ![t] = "won"]
    /\ UNCHANGED <<InputJobQueue, JobProcessQueue, pos, JobQueue, workerVars,
                   target, tickVars, ThreadsRun, spawnRoom, issued, ran>>

(* RoomAccessGuard.exchange(1) == 0 *)
TryGetAccess(t) ==
    /\ post[t] = "pushed"
    /\ RoomAccessGuard' = [RoomAccessGuard EXCEPT ![target[t]] = 1]
    /\ post' = [post EXCEPT ![t] =
           IF RoomAccessGuard[target[t]] = 0 THEN "won" ELSE "none"]
    /\ UNCHANGED <<InputJobQueue, JobProcessQueue, pos, JobQueue, workerVars,
                   target, tickVars, ThreadsRun, spawnRoom, issued, ran>>

(* notify_one: one of the parked workers, if any, goes to take the lock. *)
NotifyOne ==
    \/ \E w \in Workers : /\ wpc[w] = "parked"
                          /\ wpc' = [wpc EXCEPT ![w] = "lock"]
    \/ /\ \A w \in Workers : wpc[w] # "parked"
       /\ UNCHANGED wpc

(* Mutant: the notify is forgotten. *)
EnqueueSilently(t) ==
    /\ post[t] = "won"
    /\ JobQueue' = Append(JobQueue, target[t])
    /\ post' = [post EXCEPT ![t] = "none"]
    /\ UNCHANGED <<jobVars, workerVars, target, tickVars, ThreadsRun, spawnRoom,
                   issued, ran>>

(* JobQueue.push_back(RoomId) and notify_one, under JobQueueLock. *)
Enqueue(t) ==
    /\ post[t] = "won"
    /\ JobQueue' = Append(JobQueue, target[t])
    /\ NotifyOne
    /\ post' = [post EXCEPT ![t] = "none"]
    /\ UNCHANGED <<jobVars, wroom, target, tickVars, ThreadsRun, spawnRoom,
                   issued, ran>>

-----------------------------------------------------------------------------
(* Who calls PushJob. *)

(* A handler of a packet thread: game enter, exit, moving or attack. *)
PacketJob(t) ==
    /\ \E r \in Rooms : PushJob(t, r, "packet", r)
    /\ UNCHANGED tickVars

(* OnUpdateAllRoom calls Update on the room itself, on this thread.  Update *)
(* returns at once when EnterUsers is empty.                                *)
TickRoom ==
    /\ post[Ticker] = "none"
    /\ tickPc = "room"
    /\ tickPc' \in {"update", "push"}
    /\ UNCHANGED <<jobVars, JobQueue, workerVars, postVars, tickRoom,
                   ThreadsRun, spawnRoom, issued, ran>>

(* SpawnMonster, called by that Update. *)
TickSpawn ==
    /\ tickPc = "update"
    /\ PushJob(Ticker, spawnRoom[tickRoom], "spawn", tickRoom)
    /\ UNCHANGED tickVars

TickUpdated ==
    /\ post[Ticker] = "none"
    /\ tickPc = "update"
    /\ tickPc' = "push"
    /\ UNCHANGED <<jobVars, JobQueue, workerVars, postVars, tickRoom,
                   ThreadsRun, spawnRoom, issued, ran>>

(* The same Update is then pushed as a job, and the loop moves on. *)
TickPush ==
    /\ tickPc = "push"
    /\ PushJob(Ticker, tickRoom, "update", tickRoom)
    /\ tickPc' = "room"
    /\ tickRoom' = (tickRoom + 1) % NRooms

-----------------------------------------------------------------------------
(* RoomManager::ProcessJob and ChatRoom::ProcessJobQueue, one worker. *)

(* while (ThreadsRun), read without the lock. *)
WorkerLoop(w) ==
    /\ wpc[w] = "top"
    /\ wpc' = [wpc EXCEPT ![w] = IF ThreadsRun THEN "lock" ELSE "exit"]
    /\ UNCHANGED <<jobVars, JobQueue, wroom, postVars, tickVars, ThreadsRun,
                   spawnRoom, issued, ran>>

(* The predicate of wait is false: the worker parks on JobQueueLockCV. *)
WorkerPark(w) ==
    /\ wpc[w] = "lock"
    /\ JobQueue = <<>> /\ ThreadsRun
    /\ wpc' = [wpc EXCEPT ![w] = "parked"]
    /\ UNCHANGED <<jobVars, JobQueue, wroom, postVars, tickVars, ThreadsRun,
                   spawnRoom, issued, ran>>

(* A condition variable may wake by itself; wait evaluates its predicate. *)
SpuriousWake(w) ==
    /\ wpc[w] = "parked"
    /\ wpc' = [wpc EXCEPT ![w] = "lock"]
    /\ UNCHANGED <<jobVars, JobQueue, wroom, postVars, tickVars, ThreadsRun,
                   spawnRoom, issued, ran>>

WorkerBreak(w) ==
    /\ wpc[w] = "lock"
    /\ ~ThreadsRun
    /\ wpc' = [wpc EXCEPT ![w] = "exit"]
    /\ UNCHANGED <<jobVars, JobQueue, wroom, postVars, tickVars, ThreadsRun,
                   spawnRoom, issued, ran>>

WorkerTake(w) ==
    /\ wpc[w] = "lock"
    /\ JobQueue # <<>> /\ ThreadsRun
    /\ wroom' = [wroom EXCEPT ![w] = Head(JobQueue)]
    /\ JobQueue' = Tail(JobQueue)
    /\ wpc' = [wpc EXCEPT ![w] = "drain"]
    /\ UNCHANGED <<jobVars, postVars, tickVars, ThreadsRun, spawnRoom, issued,
                   ran>>

(* Mutants: the guard is given back after one batch, whatever arrived since, *)
(* or not given back at all.                                                 *)
ReleaseAfterBatch(w) ==
    /\ wpc[w] = "drain"
    /\ RoomAccessGuard' = [RoomAccessGuard EXCEPT ![wroom[w]] = 0]
    /\ wpc' = [wpc EXCEPT ![w] = "top"]
    /\ UNCHANGED <<InputJobQueue, JobProcessQueue, pos, JobQueue, wroom,
                   postVars, tickVars, ThreadsRun, spawnRoom, issued, ran>>

LeaveWithoutRelease(w) ==
    /\ wpc[w] = "drain"
    /\ InputJobQueue[wroom[w]] = <<>>
    /\ wpc' = [wpc EXCEPT ![w] = "top"]
    /\ UNCHANGED <<jobVars, JobQueue, wroom, postVars, tickVars, ThreadsRun,
                   spawnRoom, issued, ran>>

(* InputJobQueue is empty: the guard is given back under JobLock. *)
ReleaseRoom(w) ==
    /\ wpc[w] = "drain"
    /\ InputJobQueue[wroom[w]] = <<>>
    /\ RoomAccessGuard' = [RoomAccessGuard EXCEPT ![wroom[w]] = 0]
    /\ wpc' = [wpc EXCEPT ![w] = "top"]
    /\ UNCHANGED <<InputJobQueue, JobProcessQueue, pos, JobQueue, wroom,
                   postVars, tickVars, ThreadsRun, spawnRoom, issued, ran>>

(* JobProcessQueue.swap(InputJobQueue), under JobLock. *)
SwapQueues(w) ==
    /\ wpc[w] = "drain"
    /\ InputJobQueue[wroom[w]] # <<>>
    /\ JobProcessQueue' =
           [JobProcessQueue EXCEPT ![wroom[w]] = InputJobQueue[wroom[w]]]
    /\ InputJobQueue' =
           [InputJobQueue EXCEPT ![wroom[w]] = JobProcessQueue[wroom[w]]]
    /\ wpc' = [wpc EXCEPT ![w] = "run"]
    /\ UNCHANGED <<pos, RoomAccessGuard, JobQueue, wroom, postVars, tickVars,
                   ThreadsRun, spawnRoom, issued, ran>>

StartJob(w) ==
    /\ wpc[w] = "run"
    /\ pos[wroom[w]] < Len(JobProcessQueue[wroom[w]])
    /\ pos' = [pos EXCEPT ![wroom[w]] = @ + 1]
    /\ wpc' = [wpc EXCEPT ![w] = "exec"]
    /\ UNCHANGED <<InputJobQueue, JobProcessQueue, RoomAccessGuard, JobQueue,
                   wroom, postVars, tickVars, ThreadsRun, spawnRoom, issued, ran>>

(* The job a worker at "exec" is running. *)
Current(w) == JobProcessQueue[wroom[w]][pos[wroom[w]]]

(* SpawnMonster, called by the Update a worker is running. *)
JobSpawn(w) ==
    /\ wpc[w] = "exec"
    /\ Current(w).kind = "update"
    /\ PushJob(w, spawnRoom[Current(w).room], "spawn", Current(w).room)
    /\ UNCHANGED tickVars

FinishJob(w) ==
    /\ wpc[w] = "exec"
    /\ post[w] = "none"
    /\ ran' = [ran EXCEPT ![wroom[w]] = Append(@, Current(w))]
    /\ wpc' = [wpc EXCEPT ![w] = "run"]
    /\ UNCHANGED <<jobVars, JobQueue, wroom, postVars, tickVars, ThreadsRun,
                   spawnRoom, issued>>

(* Mutant: the clear is forgotten, and the next swap brings the batch back. *)
NextBatchUncleared(w) ==
    /\ wpc[w] = "run"
    /\ pos[wroom[w]] = Len(JobProcessQueue[wroom[w]])
    /\ pos' = [pos EXCEPT ![wroom[w]] = 0]
    /\ wpc' = [wpc EXCEPT ![w] = "drain"]
    /\ UNCHANGED <<InputJobQueue, JobProcessQueue, RoomAccessGuard, JobQueue,
                   wroom, postVars, tickVars, ThreadsRun, spawnRoom, issued, ran>>

(* JobProcessQueue.clear(), and round the loop of ProcessJobQueue again. *)
ClearBatch(w) ==
    /\ wpc[w] = "run"
    /\ pos[wroom[w]] = Len(JobProcessQueue[wroom[w]])
    /\ JobProcessQueue' = [JobProcessQueue EXCEPT ![wroom[w]] = <<>>]
    /\ pos' = [pos EXCEPT ![wroom[w]] = 0]
    /\ wpc' = [wpc EXCEPT ![w] = "drain"]
    /\ UNCHANGED <<InputJobQueue, RoomAccessGuard, JobQueue, wroom, postVars,
                   tickVars, ThreadsRun, spawnRoom, issued, ran>>

(* StopThread clears the flag, without the lock and without a notify. *)
StopThread ==
    /\ ThreadsRun
    /\ ThreadsRun' = FALSE
    /\ UNCHANGED <<jobVars, JobQueue, workerVars, postVars, tickVars, spawnRoom,
                   issued, ran>>

-----------------------------------------------------------------------------
Poster(t) == TryGetAccess(t) \/ Enqueue(t)
TickStep  == TickRoom \/ TickSpawn \/ TickUpdated \/ TickPush
Worker(w) == \/ WorkerLoop(w) \/ WorkerPark(w) \/ WorkerBreak(w)
             \/ WorkerTake(w) \/ ReleaseRoom(w) \/ SwapQueues(w)
             \/ StartJob(w) \/ FinishJob(w) \/ ClearBatch(w)

Next == \/ \E t \in Threads : Poster(t)
        \/ \E t \in Posters : PacketJob(t)
        \/ TickStep
        \/ \E w \in Workers : Worker(w) \/ JobSpawn(w) \/ SpuriousWake(w)
        \/ StopThread

Spec == Init /\ [][Next]_vars

(* A thread inside PushJob returns from it and a worker that can run runs:  *)
(* the scheduler starves no thread and a job returns.  No one has to push,  *)
(* to spawn, to wake spuriously or to stop the server.                      *)
FairSpec == /\ Spec
            /\ \A t \in Threads : WF_vars(Poster(t))
            /\ \A w \in Workers : WF_vars(Worker(w))

-----------------------------------------------------------------------------
TypeOK ==
    /\ InputJobQueue \in [Rooms -> Seq(Job)]
    /\ JobProcessQueue \in [Rooms -> Seq(Job)]
    /\ pos \in [Rooms -> Nat]
    /\ \A r \in Rooms : pos[r] <= Len(JobProcessQueue[r])
    /\ RoomAccessGuard \in [Rooms -> {0, 1}]
    /\ JobQueue \in Seq(Rooms)
    /\ wpc \in [Workers -> {"top", "lock", "parked", "drain", "run", "exec", "exit"}]
    /\ wroom \in [Workers -> Rooms]
    /\ post \in [Threads -> {"none", "pushed", "won"}]
    /\ target \in [Threads -> Rooms]
    /\ tickPc \in {"room", "update", "push"}
    /\ tickRoom \in Rooms
    /\ ThreadsRun \in BOOLEAN
    /\ spawnRoom \in [Rooms -> Rooms]
    /\ issued \in 0 .. MaxJobs
    /\ ran \in [Rooms -> Seq(Job)]

-----------------------------------------------------------------------------
(* The three ways to be responsible for a room. *)
Won(t, r)      == post[t] = "won" /\ target[t] = r
Queued(i, r)   == JobQueue[i] = r
Draining(w, r) == wpc[w] \in {"drain", "run", "exec"} /\ wroom[w] = r

(* A closed guard has a thread, a queue entry or a worker that answers for  *)
(* it, and an open one has none: a guard nobody answers for would lock the  *)
(* room for ever.                                                           *)
GuardHasHolder ==
    \A r \in Rooms : RoomAccessGuard[r] = 1 <=>
        \/ \E t \in Threads : Won(t, r)
        \/ \E i \in 1 .. Len(JobQueue) : Queued(i, r)
        \/ \E w \in Workers : Draining(w, r)

(* No two of them are responsible for the same room, of whichever kind:     *)
(* in particular no two workers drain one room.                             *)
OneHolder ==
    \A r \in Rooms :
      /\ \A t, u \in Threads : Won(t, r) /\ Won(u, r) => t = u
      /\ \A i, j \in 1 .. Len(JobQueue) : Queued(i, r) /\ Queued(j, r) => i = j
      /\ \A v, w \in Workers : Draining(v, r) /\ Draining(w, r) => v = w
      /\ \A t \in Threads, i \in 1 .. Len(JobQueue) : ~(Won(t, r) /\ Queued(i, r))
      /\ \A t \in Threads, w \in Workers : ~(Won(t, r) /\ Draining(w, r))
      /\ \A i \in 1 .. Len(JobQueue), w \in Workers : ~(Queued(i, r) /\ Draining(w, r))

(* A job that waits is never forgotten: the guard of its room is closed, so *)
(* somebody will drain the room, or the thread that pushed has not tried    *)
(* the guard yet.                                                           *)
NoStrandedJob ==
    \A r \in Rooms : InputJobQueue[r] # <<>> =>
        \/ RoomAccessGuard[r] = 1
        \/ \E t \in Threads : post[t] = "pushed" /\ target[t] = r

(* The jobs of a room's queue run one at a time, in push order, each once.  *)
Pending(r) == SubSeq(JobProcessQueue[r], pos[r] + 1, Len(JobProcessQueue[r]))
                  \o InputJobQueue[r]
Running(r) == {Current(w) : w \in {v \in Workers : wpc[v] = "exec" /\ wroom[v] = r}}

Serial == INSTANCE SerialRooms WITH queue   <- [r \in Rooms |-> Pending(r)],
                                    running <- [r \in Rooms |-> Running(r)]
SerialSpec == Serial!Spec

(* Every job pushed is run, unless the server is stopped: no wakeup of the  *)
(* workers is lost and no room is left behind.                              *)
Ran(n) == \E r \in Rooms : \E i \in DOMAIN ran[r] : ran[r][i].id = n
EveryJobRuns == \A n \in 1 .. MaxJobs : issued >= n ~> Ran(n) \/ ~ThreadsRun

(* The workers are the only threads inside a room's state, one at a time    *)
(* (CharacterData.cpp: "called on the room thread, thread safety is         *)
(* guaranteed").                                                            *)
Inside(r) == {w \in Workers : wpc[w] = "exec" /\ Current(w).room = r}
                 \cup {t \in {Ticker} : tickPc = "update" /\ tickRoom = r}
OneThreadInRoom == \A r \in Rooms : \A t, u \in Inside(r) : t = u
=============================================================================
