---------------------------- MODULE MonsterSpawner ----------------------------
(***************************************************************************)
(* One MonsterSpawner of a room: its pool of monsters, who of them is dead,*)
(* about to be entered in the room, or alive, and the queue of respawns.   *)
(*                                                                         *)
(* Every call is one step: the jobs of a room run one at a time (RoomJobs  *)
(* shows it), and Update calls of the ticker thread are taken to fall      *)
(* between them (which RoomJobsThreads refutes).  The job that enters a    *)
(* monster goes to the room the spawner's RoomId names, which may be       *)
(* another than its own: it runs at any later time, in order with the      *)
(* spawner's other entering jobs.  What ChatRoom::Update then broadcasts of *)
(* the spawner changes no state and is an operator, MonstersSent.           *)
(*                                                                         *)
(* Time is counted in calls of Update and kept as the time left, health in *)
(* hits, and indices from 1.  Where monsters are and what they do to users *)
(* is left out.                                                            *)
(***************************************************************************)
EXTENDS Naturals, Sequences, FiniteSets

CONSTANTS
    MaxCount,     \* Data.MaxCount: how many monsters the spawner keeps
    RespawnTime,  \* Data.RespawnTime
    Hits,         \* how many hits a monster stands
    BufferSize    \* how many monsters PacketBuffer holds

ASSUME MaxCountAssumption == MaxCount \in Nat \ {0}
ASSUME RespawnTimeAssumption == RespawnTime \in Nat \ {0}
ASSUME HitsAssumption == Hits \in Nat \ {0}
ASSUME BufferSizeAssumption == BufferSize \in Nat \ {0}

Pool == 1 .. MaxCount

VARIABLES
    EmptyMonster,       \* Seq(Pool): the dead, used as a stack
    RespawnQueue,       \* Seq(0 .. RespawnTime): the time left of each respawn
    CurrentCount,
    AliveMonster,       \* where a monster is in AliveMonsterArray
    AliveMonsterArray,  \* Seq(Pool)
    jobs,               \* Seq(Pool): the monsters whose entering job waits
    health,             \* [Pool -> 0 .. Hits]
    listed,             \* the monsters in GameSectionsOnlyMonster
    deaths              \* history: who died after the k-th last Update and
                        \* before the next, in number

poolVars == <<EmptyMonster, RespawnQueue, CurrentCount>>
aliveVars == <<AliveMonster, AliveMonsterArray>>
vars == <<poolVars, aliveVars, jobs, health, listed, deaths>>

(* RespawnQueue.resize(MaxCount): as many respawns as monsters, all due. *)
Init ==
    /\ EmptyMonster = [i \in Pool |-> i]
    /\ RespawnQueue = [i \in Pool |-> 0]
    /\ CurrentCount = 0
    /\ AliveMonster = <<>> /\ AliveMonsterArray = <<>>
    /\ jobs = <<>>
    /\ health \in [Pool -> {Hits}]
    /\ listed = {}
    /\ deaths = [k \in 1 .. RespawnTime |-> IF k = RespawnTime THEN MaxCount ELSE 0]

-----------------------------------------------------------------------------
Values(seq) == {seq[i] : i \in DOMAIN seq}

(* n calls of SpawnMonster: pop, Reset, push the entering job, count. *)
SpawnMonsters(n) ==
    LET rest    == Len(EmptyMonster) - n
        spawned == [k \in 1 .. n |-> EmptyMonster[Len(EmptyMonster) + 1 - k]]
    IN  /\ EmptyMonster' = SubSeq(EmptyMonster, 1, rest)
        /\ health' = [m \in Pool |-> IF m \in Values(spawned) THEN Hits ELSE health[m]]
        /\ jobs' = jobs \o spawned
        /\ CurrentCount' = CurrentCount + n

Older(time) == IF time > 0 THEN time - 1 ELSE 0

AgedDeaths == [k \in DOMAIN deaths |-> IF k = 1 THEN 0 ELSE deaths[k - 1]]

(* Mutant: a respawn that was due stays in the queue. *)
UpdateUnerased ==
    LET left    == [k \in DOMAIN RespawnQueue |-> Older(RespawnQueue[k])]
        due     == {k \in DOMAIN left : \A j \in 1 .. k : left[j] = 0}
    IN  /\ Cardinality(due) <= Len(EmptyMonster)
        /\ SpawnMonsters(Cardinality(due))
        /\ RespawnQueue' = left
        /\ deaths' = AgedDeaths
        /\ UNCHANGED <<aliveVars, listed>>

(* Mutant: only a respawn at the front of a queue of one is looked at. *)
UpdateLast ==
    LET left    == [k \in DOMAIN RespawnQueue |-> Older(RespawnQueue[k])]
        n       == IF Len(left) = 1 /\ left[1] = 0 THEN 1 ELSE 0
    IN  /\ SpawnMonsters(n)
        /\ RespawnQueue' = SubSeq(left, n + 1, Len(left))
        /\ deaths' = AgedDeaths
        /\ UNCHANGED <<aliveVars, listed>>

(* Update: what is lacking when no respawn is queued, and every respawn at  *)
(* the front of the queue that is due.                                      *)
Update ==
    LET left    == [k \in DOMAIN RespawnQueue |-> Older(RespawnQueue[k])]
        lacking == IF RespawnQueue = <<>> THEN MaxCount - CurrentCount ELSE 0
        due     == {k \in DOMAIN left : \A j \in 1 .. k : left[j] = 0}
    IN  /\ SpawnMonsters(lacking + Cardinality(due))
        /\ RespawnQueue' = SubSeq(left, Cardinality(due) + 1, Len(left))
        /\ deaths' = AgedDeaths
        /\ UNCHANGED <<aliveVars, listed>>

(* The entering job: EnterObjectInRoom, and the monster is alive. *)
EnterMonster ==
    /\ jobs # <<>>
    /\ LET m == Head(jobs)
       IN  /\ listed' = listed \cup {m}
           /\ AliveMonsterArray' = Append(AliveMonsterArray, m)
           /\ AliveMonster' = [x \in DOMAIN AliveMonster \cup {m} |->
                                  IF x \in DOMAIN AliveMonster THEN AliveMonster[x]
                                  ELSE Len(AliveMonsterArray) + 1]
    /\ jobs' = Tail(jobs)
    /\ UNCHANGED <<poolVars, health, deaths>>

(* Mutants: the moved monster keeps its old index; a monster that is not    *)
(* alive is given back as well; the new respawn is put in front.            *)
OnMonsterDeadIndexKept(m) ==
    \/ /\ m \notin DOMAIN AliveMonster
       /\ UNCHANGED <<poolVars, aliveVars, deaths>>
    \/ /\ m \in DOMAIN AliveMonster
       /\ LET i    == AliveMonster[m]
              size == Len(AliveMonsterArray)
              last == AliveMonsterArray[size]
          IN  /\ AliveMonsterArray' =
                     SubSeq([AliveMonsterArray EXCEPT ![i] = last], 1, size - 1)
              /\ AliveMonster' = [x \in DOMAIN AliveMonster \ {m} |-> AliveMonster[x]]
       /\ EmptyMonster' = Append(EmptyMonster, m)
       /\ RespawnQueue' = Append(RespawnQueue, RespawnTime)
       /\ CurrentCount' = CurrentCount - 1
       /\ deaths' = [deaths EXCEPT ![1] = @ + 1]

OnMonsterDeadTwice(m) ==
    /\ LET i    == IF m \in DOMAIN AliveMonster THEN AliveMonster[m] ELSE 1
           size == Len(AliveMonsterArray)
       IN  /\ size > 0
           /\ AliveMonsterArray' = SubSeq([AliveMonsterArray EXCEPT ![i] =
                                       AliveMonsterArray[size]], 1, size - 1)
           /\ AliveMonster' = [x \in DOMAIN AliveMonster \ {m} |->
                                  IF x = AliveMonsterArray[size] THEN i
                                                                 ELSE AliveMonster[x]]
    /\ EmptyMonster' = Append(EmptyMonster, m)
    /\ RespawnQueue' = Append(RespawnQueue, RespawnTime)
    /\ CurrentCount' = IF CurrentCount > 0 THEN CurrentCount - 1 ELSE 0
    /\ deaths' = [deaths EXCEPT ![1] = @ + 1]

OnMonsterDeadFront(m) ==
    \/ /\ m \notin DOMAIN AliveMonster
       /\ UNCHANGED <<poolVars, aliveVars, deaths>>
    \/ /\ m \in DOMAIN AliveMonster
       /\ LET i    == AliveMonster[m]
              size == Len(AliveMonsterArray)
              last == AliveMonsterArray[size]
          IN  /\ AliveMonsterArray' =
                     SubSeq([AliveMonsterArray EXCEPT ![i] = last], 1, size - 1)
              /\ AliveMonster' = [x \in DOMAIN AliveMonster \ {m} |->
                                     IF x = last THEN i ELSE AliveMonster[x]]
       /\ EmptyMonster' = Append(EmptyMonster, m)
       /\ RespawnQueue' = <<RespawnTime>> \o RespawnQueue
       /\ CurrentCount' = CurrentCount - 1
       /\ deaths' = [deaths EXCEPT ![1] = @ + 1]

(* MonsterSpawner::OnMonsterDead.  The last monster of the array takes the  *)
(* place of the dead one; one that is not alive is ignored.  The sections   *)
(* keep it.                                                                 *)
OnMonsterDead(m) ==
    \/ /\ m \notin DOMAIN AliveMonster
       /\ UNCHANGED <<poolVars, aliveVars, deaths>>
    \/ /\ m \in DOMAIN AliveMonster
       /\ LET i    == AliveMonster[m]
              size == Len(AliveMonsterArray)
              last == AliveMonsterArray[size]
          IN  /\ AliveMonsterArray' =
                     SubSeq([AliveMonsterArray EXCEPT ![i] = last], 1, size - 1)
              /\ AliveMonster' = [x \in DOMAIN AliveMonster \ {m} |->
                                     IF x = last THEN i ELSE AliveMonster[x]]
       /\ EmptyMonster' = Append(EmptyMonster, m)
       /\ RespawnQueue' = Append(RespawnQueue, RespawnTime)
       /\ CurrentCount' = CurrentCount - 1
       /\ deaths' = [deaths EXCEPT ![1] = @ + 1]

(* FindNearestMonsterInSight returns one of the monsters the sections list, *)
(* dead or alive; which one depends on where they are.                      *)
FindNearestMonsterInSight(m) == m \in listed

(* A user's attack: MonsterData::OnDamaged of the monster found.            *)
OnDamaged(m) ==
    /\ FindNearestMonsterInSight(m)
    /\ health' = [health EXCEPT ![m] = Older(@)]
    /\ \/ /\ health[m] > 1
          /\ UNCHANGED <<poolVars, aliveVars, deaths>>
       \/ /\ health[m] <= 1
          /\ OnMonsterDead(m)
    /\ UNCHANGED <<jobs, listed>>

-----------------------------------------------------------------------------
(* Mutant: where the next call starts is not moved. *)
SetMonstersPacketAgain(start, free) ==
    IF start + free >= Len(AliveMonsterArray)
    THEN [sent |-> SubSeq(AliveMonsterArray, start + 1, Len(AliveMonsterArray)),
          done |-> TRUE, SendStartIndex |-> start]
    ELSE [sent |-> SubSeq(AliveMonsterArray, start + 1, start + free),
          done |-> FALSE, SendStartIndex |-> start]

(* SetMonstersPacket(..., SendStartIndex): the monsters written to a buffer *)
(* with room for so many more, and, unless it wrote the rest, where to go   *)
(* on: LastSend is counted twice for each of them.                          *)
SetMonstersPacket(start, free) ==
    IF start + free >= Len(AliveMonsterArray)
    THEN [sent |-> SubSeq(AliveMonsterArray, start + 1, Len(AliveMonsterArray)),
          done |-> TRUE, SendStartIndex |-> start]
    ELSE [sent |-> SubSeq(AliveMonsterArray, start + 1, start + free),
          done |-> FALSE, SendStartIndex |-> start + 2 * free]

(* What a call wrote and, unless that was the rest, what follows once the   *)
(* buffer was sent and emptied.                                             *)
AndOn(p, sentFrom) ==
    IF p.done THEN p.sent ELSE p.sent \o sentFrom[p.SendStartIndex]

(* The loop of ChatRoom::Update, with the buffer empty. *)
SentFrom[start \in 0 .. 2 * MaxCount] ==
    AndOn(SetMonstersPacket(start, BufferSize), SentFrom)

(* ChatRoom::Update: what is sent of a spawner when the monsters of those   *)
(* before it left some room in the buffer.                                  *)
MonstersSent(room) == AndOn(SetMonstersPacket(0, room), SentFrom)

-----------------------------------------------------------------------------
Next == \/ Update
        \/ EnterMonster
        \/ \E m \in Pool : OnDamaged(m)

Spec == Init /\ [][Next]_vars

(* The ticker updates a room as long as a user is in it, and the workers    *)
(* run the jobs.                                                            *)
FairSpec == Spec /\ WF_vars(Update) /\ WF_vars(EnterMonster)

-----------------------------------------------------------------------------
TypeOK ==
    /\ EmptyMonster \in Seq(Pool) /\ RespawnQueue \in Seq(0 .. RespawnTime)
    /\ CurrentCount \in 0 .. MaxCount
    /\ AliveMonsterArray \in Seq(Pool)
    /\ DOMAIN AliveMonster \subseteq Pool
    /\ \A m \in DOMAIN AliveMonster : AliveMonster[m] \in 1 .. MaxCount
    /\ jobs \in Seq(Pool)
    /\ health \in [Pool -> 0 .. Hits]
    /\ listed \subseteq Pool
    /\ deaths \in [1 .. RespawnTime -> 0 .. MaxCount]

(* Every monster is in one place, once: free, about to be entered, or       *)
(* alive.  None is spawned twice, and none is lost for good.                *)
PoolAccounted ==
    LET all == EmptyMonster \o jobs \o AliveMonsterArray
    IN  Len(all) = MaxCount /\ Values(all) = Pool

(* There is a free monster for every queued respawn, and the count is that  *)
(* of the others: SpawnMonster never takes from an empty stack, and the     *)
(* loop of Update that fills what is lacking never has anything to do.      *)
CountsAgree ==
    /\ Len(RespawnQueue) = Len(EmptyMonster)
    /\ CurrentCount + Len(RespawnQueue) = MaxCount

(* The hash finds every monster of the array where it is, after any series  *)
(* of deaths that moved others.                                             *)
IndexAgrees ==
    /\ DOMAIN AliveMonster = Values(AliveMonsterArray)
    /\ \A i \in DOMAIN AliveMonsterArray : AliveMonster[AliveMonsterArray[i]] = i

(* An Update spawns as many monsters as died RespawnTime updates before:    *)
(* none comes too early and none waits behind one that is not due, though   *)
(* only the front of the queue is looked at.  Which ones come is another    *)
(* matter: the last that died, and not those of the queue.                  *)
RespawnsOnTime == [][Update => CurrentCount' = CurrentCount + deaths[RespawnTime]]_vars

(* The stack, the jobs, the array and its index, and the queue of respawns, *)
(* of which only the front is looked at, are nothing but a pool of monsters *)
(* that are dead, entering or alive, and come back RespawnTime updates on.  *)
Roster == INSTANCE MonsterPool WITH
              Monsters <- Pool,
              dead     <- Values(EmptyMonster),
              entering <- Values(jobs),
              alive    <- Values(AliveMonsterArray),
              died     <- deaths
PoolSpec == Roster!Spec

(* Whatever room the buffer has when the turn of the spawner comes, none of *)
(* its monsters is sent twice and at least half are sent; all are when the  *)
(* rest of the buffer, or an empty one when nothing is left, holds them.    *)
(* Otherwise as many as were written are skipped: EveryMonsterSent, which   *)
(* the comments promise, fails.                                             *)
PacketsCover ==
    \A room \in 0 .. BufferSize :
        LET sent == MonstersSent(room)
            n    == Len(AliveMonsterArray)
        IN  /\ Cardinality(Values(sent)) = Len(sent)
            /\ Values(sent) \subseteq Values(AliveMonsterArray)
            /\ 2 * Len(sent) >= n
            /\ (n <= room \/ (room = 0 /\ n <= BufferSize)) => Len(sent) = n

(* The loop of ChatRoom::Update goes on until all is sent (RoomManager.h:   *)
(* 302), from the place last written to (MonsterSpawner.h:34).              *)
EveryMonsterSent ==
    \A room \in 0 .. BufferSize :
        Values(MonstersSent(room)) = Values(AliveMonsterArray)

(* When the attacks cease the spawner gets all its monsters back, alive. *)
QuietRefills ==
    <>[][~\E m \in Pool : OnDamaged(m)]_vars
        => <>[](Values(AliveMonsterArray) = Pool)
=============================================================================
