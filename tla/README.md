# Verification of iocp_chat

TLA+ models of the server in `src/iocp_chat/`, the TLC runs that check them, and
TLAPS proofs about nine of them. The server is a Windows I/O-completion-port chat
and game server: clients connect, log in, enter rooms, move and attack monsters.
Paths below are relative to `src/iocp_chat/`.

## 1. The system

| Part | Where | State | Operations | Threads |
|---|---|---|---|---|
| I/O core | `IOCP/Iocp.*` | `mClientInfos`, `EmptySocketQue`, `ClientCnt`, run flags | `PostAccept`, `BindRecv`, `WorkerThread`, `CloseSocket`, `DestroyThread` | I/O workers, one accepter |
| Client slot | `IOCP/ClientInfos.h` | `SocketClient`, `SendBuf`, `SendingBuf`, `SendHead`, `SendTail`, `IsSending` | `SetSendData`, `SendDataOnBuf`, `OnSendComplete`, `CloseSocket` | any thread that sends; I/O workers |
| Session | `ClientSession.h` (`ClientSession`) | `CState`, `UserName`, `RoomId`, `Section`, location, receive ring | `SetDataOnBuf`, `GetDataOnBuf`, `OnConnect`, `OnLogin`, `OnLogout`, `EnterRoom`, `ExitRoom` | I/O workers, packet threads, room workers |
| Packet handling | `ClientSession.h` (`ClientSessionManager`) | `RecvPacketQueue` | `PushRecvPacket`, `PushSystemPacket`, `PopRecvPacket`, one handler per packet id, `SendLocateData` | 14 packet threads, one ticker |
| Rooms | `RoomManager.h/.cpp` (`ChatRoom`) | `EnterUsers`, sections, spawners, `InputJobQueue`, `JobProcessQueue`, `RoomAccessGuard` | `EnterRoom`, `EnterGameRoom`, `LeaveRoom`, broadcasts, `Update`, `PushJob`, `TryGetAccess`, `ProcessJobQueue` | packet threads, ticker, room workers |
| Room manager | `RoomManager.h` (`RoomManager`) | `Rooms`, `JobQueue`, `ThreadsRun` | `PushJob`, `ProcessJob`, `OnUpdateAllRoom`, `StopThread` | one room worker by default |
| Monsters | `MonsterSpawner.*`, `CharacterData.*` | pool, alive array and index, respawn queue | `Update`, `SpawnMonster`, `OnMonsterDead`, `OnDamaged`, `SetMonstersPacket` | whoever runs `ChatRoom::Update` or a job |
| Database requests | `DBManager.*`, `DelegateManager.h` | `RequestQue`, `ResultQue` | `PushQueryRequest`, `ProcessQueryQue`, `SetDBResult`, `PopResultQue` | one database thread |
| Results | `ResultQueManager.h`, `ChatSerer.cpp` | `ResultQue` | `PushResultQue`, `PopResultQue`, `ProcessDBResult`, `ProcessPacketResult` | one thread per queue |

How they interact. An I/O worker takes a completion, appends what was received to
the session's ring and puts the session's index on `RecvPacketQueue`. A packet
thread takes an index, cuts one packet off that ring and calls its handler. The
handler changes the session, sends directly, pushes a result (answered by the
result thread), pushes a database request (answered by the thread behind the
second result queue), or pushes a job to a room. A room's jobs are run by the room
worker that takes the room from `JobQueue`; they send, and may push jobs again.
The ticker broadcasts locations every 100 ms, updates every room on its own
thread and pushes the same update as a job. Everything that is sent goes through
`SetSendData` of the receiver's slot.

What is hard. Every part is shared by threads, each with its own lock; clients are
known by slot, and slot 0 is given to one connection after another; no part cleans
up when a connection ends; completions, results and jobs arrive late, on other
threads than those that asked. `hazards` in `PROJECT.json` lists each place where
that bites, with the properties that watch it.

What makes each part correct:

* room jobs: one job of a room's queue at a time, in push order, each run once,
  and none left behind (RoomJobs);
* send side: one send at a time, its buffer untouched until it completes, and a
  healthy connection gets every byte once and in order (SendBuffer);
* receive ring: packets come out as they went in, and all of them (SessionBuffer);
* connections: the server never runs out of accepts, a client is received from and
  not cut off, and one that leaves is noticed (Connections);
* rooms: they stay within their size, a client is where it was told it is, users
  learn of each other, and requests are answered (GameRooms);
* the map of a room: monsters are listed where they are, users where monsters
  look, and an attack has a target and its time (RoomMap);
* spawner: monsters are neither lost nor doubled, the index is right, the spawner
  refills, and a broadcast has its monsters (MonsterSpawner);
* logins: one answer per request, and a session that agrees with it (Logins);
* shutdown: no queue is touched after its readers are gone, and main joins every
  thread (Shutdown).

## 2. Modules

| Module | Models | How its steps correspond to the code |
|---|---|---|
| `SerialRooms` | abstract: what the room queues promise | a job is submitted, started when no other runs, finished |
| `ByteStream` | abstract: what the send side of a slot promises | a connection opens or breaks; bytes are sent; the first that wait are transmitted |
| `PacketStream` | abstract: what the receive side promises | bytes arrive; the packet in front is taken whole, or nothing; the stream is torn |
| `MonsterPool` | abstract: what a spawner promises | a monster enters, dies, and is sent in again with as many as died `RespawnTime` updates before |
| `RoomService` | abstract: what rooms promise their clients | a request is made, moves its client once at the most, and is answered by where the client is |
| `RoomJobs` | `RoomManager.h` job queues, the ticker, `StopThread` | a step per critical section of `JobLock` and `JobQueueLock`, per atomic operation on the guard, and per start and end of a job |
| `SendBuffer` | one `ClientInfo` over several connections | `SetSendData` and `OnSendComplete` hold `IsSendBufLock` throughout: a step each. `Transmit` and `Abort` are Windows |
| `SessionBuffer` | the ring of one session and its indices in `RecvPacketQueue` | push and pop hold `RecvPacketQueLock` throughout: a step each. `Send` is the client, which sends whole packets; `Receive` has any run of the bytes sent, from one byte to a full socket buffer |
| `MonsterSpawner` | one spawner and the monsters of its pool | each call is a step; the entering job is separate and late |
| `GameRooms` | `OnGameRoomEnter` and `OnGameRoomExit`, `OnEnterRoom` and `OnExitRoom` of chat, and their notices | a step per access under a lock; a broadcast is a copy and a send |
| `RoomMap` | the sections of one room, and `MonsterData::Update` | a job is a step, an update of a monster is a step; distances inside neighbouring sections are left open. Users come to chat (`OnEnterRoom`), go to other rooms and are moved there (`EnterOtherRoom`, `MoveInOtherRoom`), all with the one `Section` and location of their session |
| `Connections` | the accepter, the completions of `WorkerThread` and the sockets of all slots | a step per completion, and two for a receive, between whose `OnRecv` and `BindRecv` others run. `Connect`, `AcceptFails`, `Leave`, `RecvEnds` and `SendEnds` are Windows and the clients; `AcceptBroken` is the worker that takes a failed accept |
| `Logins` | connect, login, guest and logout handlers, both queues | a step per queue operation, per session change and per answer; the database's verdict is any, and goes with the result |
| `Shutdown` | flags, waits, notifies and joins of every group of threads | a step per test, wait and element of a thread; main clears a flag, notifies, joins |
| `MC*` | values for TLC | |
| `RoomJobs_proofs`, `SendBuffer_proofs`, `SessionBuffer_proofs`, `Connections_proofs`, `MonsterSpawner_proofs`, `RoomMap_proofs`, `GameRooms_proofs`, `Logins_proofs` | TLAPS proofs; that about `Shutdown` is at the end of `SendBuffer_proofs` | |

Each of the five abstract modules is a safety specification of a few lines that its
component is shown to implement, by TLC on an instance and by proof for every size:
`SerialSpec`, `ChannelSpec`, `PacketsSpec`, `PoolSpec` and `ServiceSpec` are the
abstract specifications under their refinement mappings.

How they fit together. `RoomJobs` shows what `GameRooms`, `RoomMap` and
`MonsterSpawner` then take for granted: the jobs of one room run one at a time, in
order, each once. That the ticker's updates fall between jobs is their assumption
and not a fact of the code (`RoomJobsThreads`). `MonsterSpawner` says which monsters
are dead, entering or alive; `RoomMap` lets them die and come back at any time, with
the entering job in the queue. `SendBuffer` and `SessionBuffer` follow the bytes of
one slot, `Connections` the sockets of all of them. `Shutdown` takes from every other
part only who pushes to which queue.

Definitions whose comment begins with "Mutant" are plausible bugs of the
definition below them. No specification uses them: they are substituted, one at a
time, to see that each property can tell the code from a broken one (`mutants` in
`PROJECT.json`).

History variables (marked in the declarations) record what the program does not,
such as which jobs ran, or which bytes a connection transmitted. No guard of the
program reads them, save where a bound is named.

Uninitialised memory is a choice: the room ids copied by spawners before they are
assigned (`spawnRoom`), the room of a session that never entered one (`RoomId` of
GameRooms, where "no room of the server" is one of the choices), and the `Section` of a
session that never entered a game room (`Unset` in RoomMap: a move compares with any
section, or reads beyond them and ends the process).

## 3. Runs

All bounds are constants of the `.cfg` files.

| Run | Shows | Instance, and why it is enough |
|---|---|---|
| RoomJobs | GuardHasHolder, OneHolder, NoStrandedJob, EveryJobRuns; RoomJobs implements SerialRooms | 2 rooms, 1 packet thread, the ticker, 2 workers, 2 jobs. The server starts one worker; two are what `Init` allows for. A packet thread, the ticker and a job push while two workers drain, and a spawner's job may go to the other room. All but EveryJobRuns is also proved for every size |
| RoomJobsThreads | violation: the ticker is inside a room with a worker | 1 room, 2 jobs |
| SendBuffer | StreamIntegrity, IdleMeansDrained, SendingBufStable, Delivered; SendBuffer implements ByteStream | a buffer of 4 bytes, messages of 1 to 3, 7 bytes, 2 connections: fills it, leaves gaps, compacts with overlap, and closes with a send under way |
| SendBufferMute | violation: IsSending stays set after an immediate error | 3 bytes, 2 connections |
| SessionBuffer | RingHoldsAccepted, WholePackets, EveryPacketPopped; SessionBuffer implements PacketStream | a ring of 5, a socket buffer of 5, headers of 2, packets of 2 and 3, 4 packets of which up to 5 bytes are under way: receives of parts of a packet, of the end of one with the start of the next, and of two packets and more; data, bodies and headers wrap, full rings refuse both whole packets and such runs, and once headers are read from anywhere sizes are any. `BufDataSize` counts up to 15. All but EveryPacketPopped is also proved for every size |
| Connections | SlotsAccounted, OthersServed, LiveNotCut, LeftClosed | 2 slots (slot 0, which the accepter always posts, and another), 4 sockets, 2 workers, 1 accept that cannot be posted: slot 0 is posted over a client and over an accept, accepts fail by a reset or by the closing of their socket, connections break on both of their operations, and the accepter comes in between |
| MonsterSpawner | PoolAccounted, CountsAgree, IndexAgrees, PacketsCover, RespawnsOnTime, QuietRefills; MonsterSpawner implements MonsterPool | 4 monsters, 2 hits each, a respawn after 3 updates: deaths of the first, a middle and the last of the array, alone and while others are about to enter. The buffer holds 3 of the 4, so that it is full before, at and after the last (the server's holds 31 for spawners of up to 10). Nothing is bounded |
| MonsterPackets | violation: a broadcast skips live monsters | the same |
| RoomMap | AliveListed, SettledUsersFound, AttackHasTarget, AttackTimed | 2 users, 1 monster, 3 by 2 sections, which are enough for two that are not neighbours, users at opposite corners and beyond the edge, attacks of 2 updates, 4 requests (such as: enter, move, leave, come back to chat), users up to symmetry. Proved for every size |
| GameRooms | RoomHolds, AnswersHold, NewcomersKnown, OneAnswerComing, ViewsSettle; GameRooms implements RoomService | 2 clients of which one chats too, a room for one and a room for two, 2 packet threads up to symmetry: full and free rooms, exits and entries of both kinds at once. Nothing is bounded |
| Logins | OneRequestOneAnswer, SessionFollows, EveryRequestAnswered | 2 slots, one of which is given to a second connection, 2 packet threads, 2 requests in all: a login, granted or refused, and what overtakes it, on one slot or across a reuse |
| Shutdown | QuietAfterJoin, Stops | 2 packet threads and one I/O worker, ticker, result thread and room worker; no accepter, database or TPS thread, which have the shape of others in the run; 3 elements. QuietAfterJoin is proved for any number of each |

The type invariants are not in the runs: every module's is proved for every size, as a
theorem (`TypeCorrect`) or as a part of its inductive invariant.

`CHECK_DEADLOCK FALSE` stands only where a bound (jobs, bytes, packets, requests,
sockets) lets the model stop when all is done, or where the server has stopped.

### Fairness

* RoomJobs: a thread inside `PushJob` returns, and a worker that is not parked
  runs. Parked workers wake only by a notify: spurious wakeups are possible and
  never assumed. Nobody has to push, spawn or stop.
* SendBuffer: Windows completes an operation one way or the other, and I/O workers
  take completions.
* SessionBuffer: packet threads take what is queued.
* MonsterSpawner: the ticker updates a room with users; room workers run jobs.
* Connections: workers handle what completed, and a receive on a connection whose
  peer has left, or whose socket was closed, completes. A completion port is first
  in first out, so that `Received`, which waits for a free worker, gets strong
  fairness. Accepts, sends and clients need not go on.
* Logins: a thread inside a handler, the database thread and the result threads go
  on. A queued packet gets strong fairness: the queue is first in first out, and a
  free thread takes its head, so that a packet is reached however the threads are
  kept busy.
* Shutdown: threads run, and main goes on once it was told to stop. Clients need not
  cause completions, and parked threads wake only when notified.
* GameRooms and RoomMap: none. GameRooms has in OneAnswerComing what its liveness
  would rest on: whoever waits has exactly one answer on its way.

### What the violations say

The three findings are in `PROJECT.json` with the lines they quote. In each the code
departs from its own comments: room state is not confined to room workers; `IsSending`
does not mean sending after an error; and a broadcast that needs a second buffer does
not have all the monsters. Three more departures have no run of their own. Passing
properties name them as what they except or end with: a packet popped before all of it
came takes the ring's count below zero (`overrun`), a failed accept ends the server
(`down` of Connections), and a refused login logs the session in (`SessionFollows`).

### The exceptions passing properties name

Many a property holds only but for cases the code leaves open. Those are named in the
property and its comment, often by a history variable, and without them TLC finds a
counterexample.

* RoomHolds: a full room a client enters to chat between the worker's test of the
  size and its insert (`raced`) holds one too many, and later any number, since the
  test is for equality.
* RoomHolds also leaves out what follows: more users than `MAX_ENTER_USER_COUNT`
  overflow the arrays they are copied to (RoomManager.h:255, ClientSession.h:631).
* NewcomersKnown: who enters to chat gets no list of users; one who comes back while
  its own exit is still being announced (`hasty`) may be forgotten by the others.
* ViewsSettle: once an exit and an entry were handled at the same time (`crossed`)
  their notices may pass each other, and somebody keeps a user that has gone. The same
  when a full room refuses a client whose exit is still being announced: its session
  names the full room from then on, and the notice of the exit goes there. It takes
  three clients, and was found by the attempt to prove the property without it.
* LiveNotCut and SlotsAccounted: until the server crashes (`down`). An accept fails when
  its client resets before it is accepted, or when `CloseSocket` closes slot 0 while one
  is pending there. It completes on the listen socket, which was bound to the port with
  a null key (IOCP/Iocp.cpp:55). The comment at line 189 knows that the key of an accept
  is null; line 161 calls `CloseSocket` with it all the same, for every failure, and all
  clients of all slots are gone.
* SlotsAccounted, OthersServed, LiveNotCut, LeftClosed: `Repost` always posts slot 0,
  the `idx` it takes from the queue being another variable. Slot 0 then holds several
  connections, cuts live ones and serves some to the wrong one; the properties say that
  the other slots are not affected but through that crash. They also except accepts that
  could not be posted (`refused`, whether there was no socket or AcceptEx refused it at
  once), resets that only `BindRecv` was told of (`missed`), after which the slot is
  lost, and in SlotsAccounted every receive that could not be bound (`unbound`): also
  those of accepts on slot 0 that complete when it holds another socket.
* PacketsCover: after a full buffer SetMonstersPacket goes on too far and skips as
  many monsters as it wrote, which MonsterPackets shows. PacketsCover is what remains:
  none twice, at least half, and all when they fit.
* RespawnsOnTime: as many monsters come back with an update as died `RespawnTime`
  updates before (`deaths`), but not those of the queue (MonsterSpawner.h:13): the last
  that died comes first.
* SettledUsersFound: users on the map only. One before its near edge is listed at the
  far edge and looked for at the near one. And not `Strays`, users of the room whose
  session has no Section of it: a chat entry (`OnEnterRoom`) lists its user nowhere, and
  one who goes on to another game room without leaving takes its Section along. Until
  they enter the game room here, monsters may look past them, and a move may read beyond
  the sections (`MoveFromNowhere`).
* AttackTimed: a monster killed during an attack keeps that attack's time (`cut`) in
  its next life.
* SessionFollows: a login that was refused logs the session in like one that was
  granted, although `OnLogin` is commented to be for logins that succeeded
  (ClientSession.h:203); `ProcessLoginResult` calls it whatever `QueryResult` is.
* OneRequestOneAnswer and SessionFollows: slots that were reused while a request was
  under way; and SessionFollows a session that another handler changed between the
  answer to a login and `OnLoginSuccess`, or whose `OnConnect` came after the client's
  first request.
* WholePackets and PacketsSpec end when the stream is torn: a receive that is not whole
  packets is refused by a full ring, a connection ends within a packet, or one is popped
  before all of it came; headers are then read from anywhere. RingHoldsAccepted goes on
  until more is popped than the ring has (`overrun`). EveryPacketPopped excepts streams
  in which a receive had bytes of two packets, or a part of one.
* Stops: a thread about to wait when all were notified, and the rooms' worker, whom
  nobody notifies; main then joins it for ever (`missed`).

## 4. Proofs

TLAPS proves these for every value of the constants, from the assumptions named in
the modules (`NRooms`, `BufSize`, `MaxConns` and the map's dimensions at least 1, threads of
different kinds distinct, monsters spawned on the map, an unset Section no section, a ring that has room for a header
and for every packet and whose size `BufDataSize` can count twice).

**RoomJobs** (`RoomJobs_proofs`): `TypeOK`, `GuardHasHolder`, `OneHolder` and
`NoStrandedJob`. The inductive invariant `Inv` conjoins those four with
`BatchOwned`: a room's `JobProcessQueue` is empty unless a worker is going through
it, and a job that runs is counted in `pos`. OneHolder alone is not inductive: that
winning the exchange makes no second holder needs an open guard to have none, which
is GuardHasHolder. BatchOwned is what makes the swap bring an *empty* vector into
`InputJobQueue`, so that the release sees no old jobs there.
The proof goes action by action; `SameHolders` covers those that move no holder.

**RoomJobs implements SerialRooms** (`RoomJobs_proofs`, theorem `Implements`). The
abstract queue of a room is the part of the batch not called yet followed by
`InputJobQueue`; what is running is the job of each worker at "exec". Pushing maps
to Submit, StartJob to Start, FinishJob to Finish; the swap, the clear and all
steps on the guard, the room queue and the workers map to stuttering, which for
the swap and the clear is a fact about sequences (`TakeFirst`, `AppendRight`). It
uses `Inv`: OneHolder gives that at most one job of a room runs.

**SendBuffer** (`SendBuffer_proofs`): `TypeOK`, `IdleMeansDrained`,
`SendingBufStable` and `StreamIntegrity`. `Inv` is TypeOK, IdleMeansDrained and
`OneSend`: an operation of Windows, or its successful completion, exists only while
`IsSending` is set, and there is only one. OneSend is what keeps `SendDataOnBuf` from copying over the
buffer of an older operation. `SendDataOnBufStep` states what that function does
whichever of its callers it returns to. StreamIntegrity rests on numbering the bytes
a connection accepted: what Windows holds and what waits between `SendHead` and
`SendTail` are the last of these numbers, in order, and a step of the buffer moves the
border between the two or the whole, never a byte past another.

**SendBuffer implements ByteStream** (theorem `ImplementsChannel`). The channel is open
while the connection is `healthy`; what is pending is what Windows holds and has not
transmitted, followed by what waits in `SendBuf`. Every step but three is a stutter,
however much it copies: SetSendData sends (`ChannelKeeps`), Transmit transmits the
first part of what is pending (`ChannelTransmits`), and a connection opens with nothing
pending (`ChannelOpens`). It rests on StreamIntegrity's numbers: two sequences with the
same numbers in the same order are the same.

**SessionBuffer** (`SessionBuffer_proofs`): TypeOK, RingHoldsAccepted and WholePackets,
for any ring, socket buffer, header and packet sizes. `Inv` has `Holds` (RingHoldsAccepted
cell by cell, and the tail where it belongs) until more is popped than came. Until the
stream is torn it has what packet threads are still to get, `Pending`: the ring followed
by what TCP has under way. That is always whole packets, in order (`Shape`), wherever
TCP cuts it, since a receive only moves the border between the two; and what was popped
are whole packets that came before (`Taken`). So a chunk that spans packets needs no
case of its own unless the ring refuses it: then the bytes drop out of the middle of
Pending, which leaves whole packets if the chunk was some (`ShapeWithout`) and tears
the stream if not. That the header in front tells the size of its packet (`HeaderTells`)
needs the ring to begin with a packet, and it begins with one after a pop because the
size was right (`FrontTaken`). If it tells more than there is, TCP has split that packet,
so that a stream is torn only if it was split, which `Inv` states as well.

**SessionBuffer implements PacketStream** (theorem `ImplementsStream`). The stream is
`Held`, the cells of the ring from the head on. What is received goes behind it
(`StreamGrows`), whether it wraps or not; a pop takes one whole packet off its front
(`StreamTaken`), or nothing when not even a header is there; and a packet that is torn
ends the stream. Nothing else changes it, the queue of indices least of all.

**Connections** (`Connections_proofs`): SlotsAccounted, OthersServed and LiveNotCut, for
any number of slots, sockets and workers. `Inv` says little of slot 0, which `Repost`
may post again and again, and of the others that they have one socket ever
(`OneSocket`), which is why a completion, which knows its slot only, is handled for the
socket it belongs to. `KeysAgree` has that a slot holds a socket that was posted for
it, `UsedFirst` that sockets are made in order, `OpsBegun` and `BrokenLeft` which
sockets can have operations and failed completions. `OneReceive` gives OthersServed: a
client has exactly one receive, under way or being handled; and LiveNotCut, since a
failed completion of its slot is its own. SlotsAccounted is a count (`Accounts`), of
every slot: `PostAccept` adds a socket or a refusal; an accept that completes becomes a
receive or is counted off, one that fails waits for a worker, and the end of a receive
queues its slot. It needs no OneReceive, and so holds of slot 0 too.

**MonsterSpawner** (`MonsterSpawner_proofs`): TypeOK, PoolAccounted, CountsAgree,
IndexAgrees and RespawnsOnTime, for any pool, number of hits and respawn time. `Places`
gives each monster one place in the stack, the jobs or the array; PoolAccounted is
that and a count. `QueueInParts` cuts the respawn queue by the update interval of the
deaths, which makes its front part exactly those that are due. RespawnsOnTime needs
it: that only the front is looked at is sound because entries are queued in order.

PacketsCover (theorem `PacketsReachHalf`) is about a loop over the array, `SentFrom`, a
function of where the loop is that calls itself further on. That it is defined
(`ScanDefined`) and sends what `Picks` says (`ScanPicks`: some of the monsters from there
on, in their order, none twice, at least half) are inductions from the end of the array
down, by a least counterexample (`Least`, `DownTo`): the induction theorems of
the library take an operator, but WFMin, that a set of numbers has a least one, takes
a set. `OnePacket` is one call of SetMonstersPacket.

**MonsterSpawner implements MonsterPool** (theorem `ImplementsPool`). The sets of dead,
entering and live monsters are the values of the stack, the jobs and the array. It needs
all of `Inv`: PoolAccounted that a monster leaves one set for the next, and
QueueInParts and CountsAgree that an update takes exactly as many as died
`RespawnTime` updates before, since MonsterPool has no queue whose front it
could look at.

**GameRooms** (`GameRooms_proofs`): TypeOK, RoomHolds, AnswersHold, OneAnswerComing,
NewcomersKnown and ViewsSettle, for any clients, rooms and packet threads, in three
layers. `Inv` says for each client that it is a user of no room while a job, or the
worker's test, is under way for it, of the room of the handler once it was inserted,
and of the room of the answer that waits in `ResultQue`; and that there is one of
these when it awaits an answer and none when not (`Waits`). `Sizes` is RoomHolds with
the place that the worker's test found. `InvKnown` has `Informed`: a user has heard of
another, or will from a list or notice under way; it is kept because a session names
its room by the time its notice is addressed (`SessionNamesRoom`). `InvSettle` says
what the handlers may assume of each other until something crosses: nobody is
entered while somebody leaves (`LeavingApart`), an entering client has one handler
(`WorkerApart`, `ThreadsApart`), and who is still known though gone has a notice
under way that will reach whoever knows it (`NoneStale`).

**GameRooms implements RoomService** (theorem `ImplementsService`). The users of the rooms
and what clients were told are those of the code; a client waits from its request to
the answer. The insert of the worker or of a packet thread is the abstract Enter,
LeaveRoom is Leave, and the answers, and refusals without one, are Answer; all else,
jobs, results, sessions and notices, is stuttering. `Inv` gives the guards: that nobody
is in a room when it enters one, and that an answer which waited in `ResultQue`
while others came and went still names the room its client is in.

**RoomMap** (`RoomMap_proofs`): all four properties of its run, for any map, users and
monsters. `Inv` has the types, AliveListed, `UsersListed` and `ChaseInv`. UsersListed
says that a user whose session has a `Section` of the room is on the list of that and on
the one of where its last job saw it; nothing removes users, so that a move that is
judged by the wrong `Section` still leaves the user on the list it needs. It is what
SettledUsersFound follows from, with the geometry of `NeighboursSeen`: clamping to the
near edge keeps a user on the map within the nine sections of a monster that has
left it. `TimeUsedUp` (no time is left over outside an attack) strengthens AttackTimed,
which is not inductive alone: the next attack starts with what the last one left.
`Moves` and `StandStill` state once what an update of a monster does to the lists.

**Logins** (`Logins_proofs`): TypeOK, OneRequestOneAnswer and SessionFollows, for any
slots, names and number of packet threads. `Inv` is `Types`, which says which kinds of
request each queue holds, and two facts of each slot. `Waits`, for slots that are not
`mixed`: what a client waits for is in one of the `Stations` (the ring, the queues, the
query, a thread), once, and nothing else of it is in any. Taking a request from one
station and putting it into the next keeps that, and so does answering it; `OneAsk` has
that a queue holds it once. `Follows`, for slots that were not overtaken either: between
the change of a session and its answer (`Changed`) the session already is what is going
to be answered; between the answer to a login and `OnLoginSuccess` it is not yet what
was answered, and no other change of it waits for its answer; at all other times it is
what was answered last, and only a login is ever answered with a refusal. Follows is not
inductive alone: it needs Waits to know that no second handler of the client is between
its change and its answer.

**Shutdown** (`SendBuffer_proofs`, theorem `NothingAfterJoin`): QuietAfterJoin, for any
number of threads in each group and of elements. `Shutdown` calls its specification
`StopSpec`, so that a module can extend it next to another: its proof is with that of
the other half of `IOCP/Iocp.cpp`. `StopInv` is the types and `JoinedGone`: the threads
of joined groups are gone. `FeedersFirst` is the point: whoever pushes to a queue belongs
to a group that is joined before the readers of that queue, or to those readers.

Only model-checked: the liveness properties (EveryJobRuns, Delivered, EveryPacketPopped,
LeftClosed, QuietRefills, EveryRequestAnswered, Stops), which rest on fairness and
ENABLED, and TLAPS supports neither. Every other property of the passing runs, invariants,
action properties and refinements, is proved. No module uses a RECURSIVE operator.

## 5. Not modelled, and why

* Windows, TCP and MariaDB, except for what the code sees of them: which operations
  complete, in which pieces data comes, and that a query ends. `DBManager.h` is for
  the most part calls of the MariaDB client library (`ConnectionManager`).
* Floating-point geometry: distances and angles inside a section and its neighbours,
  which RoomMap leaves open, damage amounts, `Yaw`. Which monster an attack finds is
  any of those the sections list.
* Clients that do not keep to the protocol. That a client sends packets whole, with their
  size in the header, is assumed in SessionBuffer (`GetDataOnBuf` checks nothing of
  `PacketSize`; once a stream is torn the sizes it reads are any up to the ring's, and
  larger ones, which run over the ring, are left out). That a client asks for one thing
  at a time and enters a room only when it is in none is assumed in GameRooms.
* Contents and layouts of packets (`Packet.h`), names beyond "the name of this
  request", and what `SendLocateData` sends of locations.
* What concurrent, unlocked changes of one container do to its memory
  (`EnterUsers`, `AliveMonster`): the models show that such accesses meet
  (OneThreadInRoom) and treat each as one step.
* Clients that go without leaving their room: `OnDisConnect` does nothing, so that
  their rooms keep them. GameRooms has clients that stay.
* The health of users (`OnUserDamage`), the attack cooldown and `ClientCnt`, which
  change and are read by nothing that decides; how long the lists of users in
  sections grow, which nothing bounds.
* A spawner whose `RoomId` is another room's: RoomJobs and MonsterSpawner have it,
  RoomMap takes the entering job to be its own room's.
* That one worker may be kept in a room for ever by jobs that keep coming: jobs are
  bounded in RoomJobs, and GameRooms has no liveness.
* Starting up: `StartServer` creates the workers and the accepter before `Start()`
  (IOCP/Iocp.cpp:61-65), and a client that early would meet managers not yet there.
  The models begin when all are.
* Requests nothing can send (sign up, delete a user), functions nothing calls
  (`LeaveGameRoom`, `LeaveUserSection`, `IsSectionActive`, `AccepterThread2`,
  `GetEmptyClientInfo`), counters for the console.

## 6. What is left

Every component whose state the properties depend on has its module, and every safety
property of the runs is a theorem. What could be added:

* Abstract specifications of Connections and Logins in the manner of the others. Both
  would have to except what the properties except: a slot 0 that holds several
  connections, and slots that were reused while a request was under way.
* Liveness beyond the instances TLC checks: out of the prover's reach. The safety part
  of it is proved where it can be said as such: NoStrandedJob, IdleMeansDrained,
  OneReceive, OneAnswerComing and OneRequestOneAnswer each say that what is waited for
  is under way.
