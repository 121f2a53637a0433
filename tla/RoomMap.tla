------------------------------- MODULE RoomMap -------------------------------
(***************************************************************************)
(* The map of one room: the sections its users and monsters are listed in  *)
(* (RoomManager.h), and how a monster uses those lists to find, chase and  *)
(* hit a user (MonsterData::Update in CharacterData.cpp).                   *)
(*                                                                         *)
(* A place stands for all locations of a section, and those at -1 and at   *)
(* SectionCountX or SectionCountY for all beyond the map.  Distances and    *)
(* angles between neighbouring sections are left open: a step may take any *)
(* branch they allow.  Two sections that are not neighbours are farther    *)
(* apart than a monster reaches, looks or follows (SectionSize is 1000).   *)
(*                                                                         *)
(* Jobs are one step each and wait in the room's queue (RoomJobs).  Which  *)
(* monsters die and come back is left open (MonsterSpawner has it), and so *)
(* is whether the room is full (GameRooms).  Of a list of users only who is*)
(* on it matters, since nobody is ever removed; of a list of monsters, how *)
(* often.  Time is counted in updates.                                     *)
(*                                                                         *)
(* A session has one Section and one location for all the rooms it goes to,*)
(* and nothing sets its Section but the entering job of a game room.        *)
(***************************************************************************)
EXTENDS Integers, Sequences

CONSTANTS
    Users,          \* session indices, below MAX_CLIENT
    Monsters,       \* object ids, from 20000
    None,           \* 0xffffffff
    Unset,          \* the Section of a session that has none of this room
    SectionCountX,
    SectionCountY,
    Places,         \* where users go: <<x, y>>
    SpawnPlaces,    \* where monsters spawn, all on the map
    AttackUpdates,  \* ATTACK_TIME
    MaxRequests     \* bound: requests of the clients in all, the hits that kill among them

ASSUME IdAssumption == None \notin Users \cup Monsters /\ Users \cap Monsters = {}
ASSUME UnsetAssumption == Unset \notin Nat
ASSUME SizeAssumption == SectionCountX \in Nat \ {0} /\ SectionCountY \in Nat \ {0}
ASSUME PlacesAssumption == Places \subseteq (-1 .. SectionCountX) \X (-1 .. SectionCountY)
ASSUME SpawnAssumption ==
    SpawnPlaces \subseteq (0 .. SectionCountX - 1) \X (0 .. SectionCountY - 1)
ASSUME TimeAssumption == AttackUpdates \in Nat \ {0}

VARIABLES
    jobs,        \* the room's queue: what the handlers and spawners pushed
    EnterUsers,  \* SUBSET Users
    session,     \* users whose session names this room
    Section,     \* the Section of each session and of each monster
    at,          \* ActorPoint of each session and of each monster
    GameSectionsOnlyUser,     \* who is listed in each section
    GameSectionsOnlyMonster,  \* how often each object is listed in each section
    pool,        \* what each monster is: "dead", "entering" or "alive"
    State, TargetUser, AttackTime, IsSpawned,  \* of each monster
    down,        \* whether a job read past the sections and the process died
    requests,    \* number of requests handled
    seen,        \* history: where the last job of each user saw it
    since,       \* history: updates since the last attack notice of a monster
    cut          \* history: monsters with time left over from a former life

userVars == <<EnterUsers, session, GameSectionsOnlyUser, seen>>
chaseVars == <<State, TargetUser, AttackTime, IsSpawned, since, cut>>
mapVars  == <<jobs, userVars, Section, at, GameSectionsOnlyMonster, pool, chaseVars>>
vars == <<mapVars, down, requests>>

Objects  == Users \cup Monsters
Sections == 0 .. SectionCountX * SectionCountY - 1

(* GetSectionIndex.  A negative offset of a section or more becomes a large *)
(* UINT32, which the test against the count takes for the far edge.         *)
Index(i, count) == IF i \in 0 .. count - 1 THEN i ELSE count - 1
GetSectionIndex(p) ==
    Index(p[2], SectionCountY) * SectionCountX + Index(p[1], SectionCountX)

(* GetSectionX and GetSectionY clamp to the near edge instead. *)
GetSectionXY(i, count) == IF i < 0 THEN 0 ELSE Index(i, count)

Init ==
    /\ jobs = <<>> /\ EnterUsers = {} /\ session = {}
    /\ Section = [o \in Objects |-> IF o \in Users THEN Unset ELSE 0]
    /\ at \in [Objects -> SpawnPlaces]
    /\ GameSectionsOnlyUser = [s \in Sections |-> {}]
    /\ GameSectionsOnlyMonster = [s \in Sections |-> [o \in Objects |-> 0]]
    /\ pool = [m \in Monsters |-> "dead"]
    /\ State = [m \in Monsters |-> "IDLE"]
    /\ TargetUser = [m \in Monsters |-> None]
    /\ AttackTime = [m \in Monsters |-> 0]
    /\ IsSpawned = [m \in Monsters |-> TRUE]
    /\ down = FALSE /\ requests = 0
    /\ seen = [u \in Users |-> at[u]]
    /\ since = [m \in Monsters |-> 0]
    /\ cut = {}

-----------------------------------------------------------------------------
(* Requests: the handlers push a job with what they saw. *)
Asked == requests < MaxRequests /\ requests' = requests + 1

Push(job) ==
    /\ Asked
    /\ jobs' = Append(jobs, job)
    /\ UNCHANGED <<userVars, Section, at, GameSectionsOnlyMonster, pool, chaseVars>>

(* OnGameRoomEnter captures where the session is now. *)
OnGameRoomEnter(u) == Push([do |-> "enter", who |-> u, to |-> at[u]])

(* OnMovingData, in the room the session names, entered or left.            *)
OnMovingData(u, p) ==
    /\ u \in session
    /\ Push([do |-> "move", who |-> u, to |-> p])

(* OnEnterRoom, to chat: the user enters EnterUsers at once, on the packet  *)
(* thread, on no list and with the Section it had.  One whom a full room    *)
(* refuses has its session name the room all the same.                      *)
OnEnterRoom(u) ==
    /\ Asked
    /\ EnterUsers' \in {EnterUsers, EnterUsers \cup {u}}
    /\ session' = session \cup {u}
    /\ UNCHANGED <<jobs, GameSectionsOnlyUser, seen, Section, at,
                   GameSectionsOnlyMonster, pool, chaseVars>>

(* OnExitRoom and OnGameRoomExit: the user leaves EnterUsers at once, and   *)
(* stays in the lists, in the session, and with the monsters after it.      *)
OnGameRoomExit(u) ==
    /\ u \in session /\ u \in EnterUsers
    /\ Asked
    /\ EnterUsers' = EnterUsers \ {u}
    /\ UNCHANGED <<jobs, session, GameSectionsOnlyUser, seen, Section, at,
                   GameSectionsOnlyMonster, pool, chaseVars>>

(* The user enters another room, whether it left this one or not, to chat   *)
(* with the Section it has or into the game with one of that room; and jobs *)
(* of another room move it, also late ones of a room it was in before.      *)
EnterOtherRoom(u) ==
    /\ Asked
    /\ session' = session \ {u}
    /\ Section' \in {Section, [Section EXCEPT ![u] = Unset]}
    /\ UNCHANGED <<jobs, EnterUsers, GameSectionsOnlyUser, seen, at,
                   GameSectionsOnlyMonster, pool, chaseVars>>

MoveInOtherRoom(u, p) ==
    /\ Asked
    /\ at' = [at EXCEPT ![u] = p]
    /\ UNCHANGED <<jobs, userVars, Section, GameSectionsOnlyMonster, pool, chaseVars>>

-----------------------------------------------------------------------------
(* LeaveObjectSection of the monsters' list, which a user is never on.      *)
Left(list, o) == [list EXCEPT ![o] = IF @ > 0 THEN @ - 1 ELSE 0]

Runs(do) == jobs # <<>> /\ Head(jobs).do = do /\ jobs' = Tail(jobs)

(* The job of OnGameRoomEnter, in a room that is not full ...               *)
EnterGameRoom ==
    /\ Runs("enter")
    /\ LET u == Head(jobs).who
           s == GetSectionIndex(Head(jobs).to)
       IN  /\ EnterUsers' = EnterUsers \cup {u}
           /\ GameSectionsOnlyUser' = [GameSectionsOnlyUser EXCEPT ![s] = @ \cup {u}]
           /\ session' = session \cup {u}
           /\ Section' = [Section EXCEPT ![u] = s]
           /\ seen' = [seen EXCEPT ![u] = Head(jobs).to]
    /\ UNCHANGED <<at, GameSectionsOnlyMonster, pool, chaseVars, requests>>

(* ... and in one that is. *)
EnterFullRoom ==
    /\ Runs("enter")
    /\ UNCHANGED <<userVars, Section, at, GameSectionsOnlyMonster, pool, chaseVars,
                   requests>>

(* The section a move is compared with: the Section from when the user      *)
(* entered, which nothing updates, or else whatever is there.               *)
MovesFrom(u) == IF Section[u] = Unset THEN Sections ELSE {Section[u]}

(* Mutant: the user is listed where it was, once more. *)
MoveUserInRoomStays ==
    /\ Runs("move")
    /\ LET u == Head(jobs).who
       IN  /\ \E old \in MovesFrom(u) :
                  GameSectionsOnlyUser' = [GameSectionsOnlyUser EXCEPT ![old] = @ \cup {u}]
           /\ seen' = [seen EXCEPT ![u] = at[u]]
           /\ at' = [at EXCEPT ![u] = Head(jobs).to]
    /\ UNCHANGED <<EnterUsers, session, Section, GameSectionsOnlyMonster, pool,
                   chaseVars, requests>>

(* The job of OnMovingData.  MoveUserInRoom is given the location before the*)
(* move.                                                                    *)
MoveUserInRoom ==
    /\ Runs("move")
    /\ LET u == Head(jobs).who
           s == GetSectionIndex(at[u])
       IN  /\ \E old \in MovesFrom(u) :
                \/ /\ old = s
                   /\ UNCHANGED <<GameSectionsOnlyUser, GameSectionsOnlyMonster>>
                \/ /\ old # s
                   /\ GameSectionsOnlyMonster' =
                          [GameSectionsOnlyMonster EXCEPT ![old] = Left(@, u)]
                   /\ GameSectionsOnlyUser' =
                          [GameSectionsOnlyUser EXCEPT ![s] = @ \cup {u}]
           /\ seen' = [seen EXCEPT ![u] = at[u]]
           /\ at' = [at EXCEPT ![u] = Head(jobs).to]
    /\ UNCHANGED <<EnterUsers, session, Section, pool, chaseVars, requests>>

(* A Section never set may be beyond the sections: the vector read there    *)
(* ends the process, or holds nothing and lets MoveUserInRoom go on.        *)
MoveFromNowhere ==
    /\ jobs # <<>> /\ Head(jobs).do = "move" /\ Section[Head(jobs).who] = Unset
    /\ down' = TRUE
    /\ UNCHANGED <<mapVars, requests>>

-----------------------------------------------------------------------------
(* Mutant: a respawned monster looks for a new user, in the old state.      *)
SpawnMonsterTargetless(m, p) ==
    /\ pool[m] = "dead"
    /\ pool' = [pool EXCEPT ![m] = "entering"]
    /\ at' = [at EXCEPT ![m] = p]
    /\ TargetUser' = [TargetUser EXCEPT ![m] = None]
    /\ IsSpawned' = [IsSpawned EXCEPT ![m] = TRUE]
    /\ cut' = IF AttackTime[m] > 0 THEN cut \cup {m} ELSE cut
    /\ jobs' = Append(jobs, [do |-> "spawn", who |-> m, to |-> p])
    /\ UNCHANGED <<userVars, Section, GameSectionsOnlyMonster, State, AttackTime,
                   since, requests>>

(* SpawnMonster and MonsterData::Reset, which leaves TargetUser and         *)
(* AttackTime as they were when the monster died.                           *)
SpawnMonster(m, p) ==
    /\ pool[m] = "dead"
    /\ pool' = [pool EXCEPT ![m] = "entering"]
    /\ at' = [at EXCEPT ![m] = p]
    /\ State' = [State EXCEPT ![m] = "SPAWNED"]
    /\ IsSpawned' = [IsSpawned EXCEPT ![m] = TRUE]
    /\ cut' = IF AttackTime[m] > 0 THEN cut \cup {m} ELSE cut
    /\ jobs' = Append(jobs, [do |-> "spawn", who |-> m, to |-> p])
    /\ UNCHANGED <<userVars, Section, GameSectionsOnlyMonster, TargetUser,
                   AttackTime, since, requests>>

(* The entering job: listed, alive, and its Section where it is.            *)
EnterObjectInRoom ==
    /\ Runs("spawn")
    /\ LET m == Head(jobs).who
           s == GetSectionIndex(at[m])
       IN  /\ GameSectionsOnlyMonster' =
                  [GameSectionsOnlyMonster EXCEPT ![s][m] = @ + 1]
           /\ pool' = [pool EXCEPT ![m] = "alive"]
           /\ Section' = [Section EXCEPT ![m] = s]
    /\ UNCHANGED <<userVars, at, chaseVars, requests>>

(* The job of a user's attack that kills a monster: the sections keep it.   *)
OnMonsterDead(m) ==
    /\ pool[m] = "alive"
    /\ Asked
    /\ pool' = [pool EXCEPT ![m] = "dead"]
    /\ UNCHANGED <<jobs, userVars, Section, at, GameSectionsOnlyMonster, chaseVars>>

-----------------------------------------------------------------------------
Abs(i)    == IF i < 0 THEN -i ELSE i
Gap(p, q) == IF Abs(p[1] - q[1]) > Abs(p[2] - q[2]) THEN Abs(p[1] - q[1])
                                                    ELSE Abs(p[2] - q[2])

(* The ranges of MonsterData::Update: within ATTACK_RANGE, up to            *)
(* GIVE_UP_RANGE, farther.                                                  *)
Distances(p, q) == IF Gap(p, q) > 1 THEN {"far"} ELSE {"reach", "near", "far"}

(* The up to nine sections around the one of a location. *)
Around(p) ==
    LET x == GetSectionXY(p[1], SectionCountX)
        y == GetSectionXY(p[2], SectionCountY)
    IN  {j * SectionCountX + i : i \in (x - 1 .. x + 1) \cap (0 .. SectionCountX - 1),
                                 j \in (y - 1 .. y + 1) \cap (0 .. SectionCountY - 1)}

(* FindNearestUserInSight: whom it may return, besides nobody. *)
FindNearestUserInSight(m) ==
    {u \in UNION {GameSectionsOnlyUser[s] : s \in Around(at[m])} : Gap(at[u], at[m]) <= 1}

(* Where a step toward q may end: in this section or the next one. *)
Toward(i, j) == IF i < j THEN {i, i + 1} ELSE IF i > j THEN {i, i - 1} ELSE {i}
Steps(p, q)  == Toward(p[1], q[1]) \X Toward(p[2], q[2])

(* Mutant: the monster is never taken off the section it leaves, and its    *)
(* Section is not changed.                                                  *)
MoveObjectInRoomUnset(m, p) ==
    /\ GameSectionsOnlyMonster' = [GameSectionsOnlyMonster EXCEPT
                                     ![Section[m]] = Left(@, m),
                                     ![GetSectionIndex(p)][m] = @ + 1]
    /\ UNCHANGED Section

(* MoveObjectInRoom. *)
MoveObjectInRoom(m, p) ==
    LET s == GetSectionIndex(p)
    IN  \/ /\ s = Section[m]
           /\ UNCHANGED <<GameSectionsOnlyMonster, Section>>
        \/ /\ s # Section[m]
           /\ GameSectionsOnlyMonster' = [GameSectionsOnlyMonster EXCEPT
                                            ![Section[m]] = Left(@, m),
                                            ![s][m] = @ + 1]
           /\ Section' = [Section EXCEPT ![m] = s]

(* The chase of user u, seen at distance d.  Giving up compares the State   *)
(* instead of setting it.                                                   *)
Chase(m, u, d) ==
    \/ /\ d = "far"
       /\ TargetUser' = [TargetUser EXCEPT ![m] = None]
       /\ UNCHANGED <<Section, at, GameSectionsOnlyMonster>>
    \/ /\ d = "reach"
       /\ TargetUser' = [TargetUser EXCEPT ![m] = u]
       /\ UNCHANGED <<Section, at, GameSectionsOnlyMonster>>
    \/ /\ d = "near"
       /\ TargetUser' = [TargetUser EXCEPT ![m] = u]
       /\ \E p \in Steps(at[m], at[u]) :
              at' = [at EXCEPT ![m] = p] /\ MoveObjectInRoom(m, p)

(* Mutant: the time of an attack is not set back after the hit. *)
EndAttackUnset(m) ==
    /\ cut' = IF State[m] = "ATTACK" THEN cut \ {m} ELSE cut
    /\ UNCHANGED AttackTime

(* An attack whose time is over hits, or not, and starts from 0 next time.  *)
EndAttack(m) ==
    \/ /\ State[m] = "ATTACK"
       /\ AttackTime' = [AttackTime EXCEPT ![m] = 0]
       /\ cut' = cut \ {m}
    \/ State[m] # "ATTACK" /\ UNCHANGED <<AttackTime, cut>>

(* MonsterData::Update of a live monster, in a room with users. *)
MonsterUpdate(m) ==
    /\ pool[m] = "alive" /\ EnterUsers # {}
    /\ UNCHANGED <<jobs, userVars, pool, requests>>

SkipSpawned(m) ==
    /\ IsSpawned[m]
    /\ MonsterUpdate(m)
    /\ IsSpawned' = [IsSpawned EXCEPT ![m] = FALSE]
    /\ UNCHANGED <<Section, at, GameSectionsOnlyMonster, State, TargetUser,
                   AttackTime, since, cut>>

GoOnAttacking(m) ==
    /\ ~IsSpawned[m] /\ State[m] = "ATTACK" /\ AttackTime[m] + 1 < AttackUpdates
    /\ MonsterUpdate(m)
    /\ AttackTime' = [AttackTime EXCEPT ![m] = @ + 1]
    /\ since' = [since EXCEPT ![m] = @ + 1]
    /\ UNCHANGED <<Section, at, GameSectionsOnlyMonster, State, TargetUser,
                   IsSpawned, cut>>

Decides(m) ==
    /\ ~IsSpawned[m]
    /\ State[m] = "ATTACK" => AttackTime[m] + 1 >= AttackUpdates
    /\ MonsterUpdate(m)
    /\ EndAttack(m)
    /\ UNCHANGED IsSpawned

StateAfter(m) == IF State[m] = "ATTACK" THEN "IDLE" ELSE State[m]

(* No target, and nobody in sight. *)
FindNobody(m) ==
    /\ Decides(m)
    /\ TargetUser[m] = None
    /\ State' = [State EXCEPT ![m] = StateAfter(m)]
    /\ UNCHANGED <<Section, at, GameSectionsOnlyMonster, TargetUser, since>>

(* The target it has, or one it finds, which is never too far to chase.     *)
ChaseTarget(m) ==
    /\ Decides(m)
    /\ \E u \in IF TargetUser[m] = None THEN FindNearestUserInSight(m)
                                        ELSE {TargetUser[m]} :
       \E d \in Distances(at[m], at[u]) :
          /\ TargetUser[m] = None => d # "far"
          /\ Chase(m, u, d)
          /\ State' = [State EXCEPT ![m] = IF d = "reach" THEN "ATTACK"
                                                          ELSE StateAfter(m)]
          /\ since' = IF d = "reach" THEN [since EXCEPT ![m] = 0] ELSE since

-----------------------------------------------------------------------------
Handles(u) ==
    \/ OnGameRoomEnter(u) \/ OnGameRoomExit(u) \/ OnEnterRoom(u) \/ EnterOtherRoom(u)
    \/ \E p \in Places : OnMovingData(u, p) \/ MoveInOtherRoom(u, p)

RunsJob == EnterGameRoom \/ EnterFullRoom \/ MoveUserInRoom \/ EnterObjectInRoom

Updates(m) ==
    \/ \E p \in SpawnPlaces : SpawnMonster(m, p)
    \/ OnMonsterDead(m)
    \/ SkipSpawned(m) \/ GoOnAttacking(m) \/ FindNobody(m) \/ ChaseTarget(m)

Next ==
    /\ ~down
    /\ \/ /\ (\E u \in Users : Handles(u)) \/ RunsJob \/ \E m \in Monsters : Updates(m)
          /\ UNCHANGED down
       \/ MoveFromNowhere

Spec == Init /\ [][Next]_vars

-----------------------------------------------------------------------------
OnMap(p) == p \in (0 .. SectionCountX - 1) \X (0 .. SectionCountY - 1)

(* A live monster is listed in the section its location gives, which is the *)
(* one its Section names: users nearby look at a list it is on, unless it   *)
(* went beyond the near edge, and its next move takes it off the right one. *)
AliveListed ==
    \A m \in Monsters : pool[m] = "alive" =>
        /\ Section[m] = GetSectionIndex(at[m])
        /\ GameSectionsOnlyMonster[Section[m]][m] > 0

(* A user of the room whose last move was seen where it is, on the map, is  *)
(* looked at by every live monster of the sections around it, although a    *)
(* move lists the user where it was before, compares with where it entered, *)
(* and leaves it on every list it was on.  Not so for those who came to chat*)
(* (OnEnterRoom) or went to another room without leaving this one: they are *)
(* in the room with no Section of it, and maybe on no list.                 *)
Strays == {u \in EnterUsers : Section[u] = Unset}
SettledUsersFound ==
    \A u \in EnterUsers \ Strays, m \in Monsters :
        (pool[m] = "alive" /\ OnMap(at[u]) /\ seen[u] = at[u] /\ Gap(at[u], at[m]) <= 1)
            => u \in FindNearestUserInSight(m)

(* A monster that attacks has a target to look up, in each of its lives:    *)
(* giving up and respawning never part the two.                             *)
AttackHasTarget ==
    \A m \in Monsters : State[m] = "ATTACK" => TargetUser[m] # None

(* An attack hits ATTACK_TIME after its notice, save for a monster that was *)
(* killed during an attack and keeps that attack's time (Reset leaves it).  *)
AttackTimed ==
    \A m \in Monsters \ cut : State[m] = "ATTACK" => AttackTime[m] = since[m]
=============================================================================
