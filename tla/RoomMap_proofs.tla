---------------------------- MODULE RoomMap_proofs ----------------------------
(***************************************************************************)
(* Proofs about the map of a room, for any size of the map, any number of  *)
(* users and monsters, and any places they go to.                          *)
(***************************************************************************)
EXTENDS RoomMap, SequenceTheorems, TLAPS

Points == Int \X Int
Jobs   == [do : {"enter", "move"}, who : Users, to : Points]
              \cup [do : {"spawn"}, who : Monsters, to : Points]

ListsOK ==
    /\ GameSectionsOnlyUser \in [Sections -> SUBSET Users]
    /\ GameSectionsOnlyMonster \in [Sections -> [Objects -> Nat]]

ChaseOK ==
    /\ State \in [Monsters -> {"IDLE", "SPAWNED", "ATTACK"}]
    /\ TargetUser \in [Monsters -> Users \cup {None}]
    /\ AttackTime \in [Monsters -> Nat]
    /\ since \in [Monsters -> Nat]

TypeOK ==
    /\ jobs \in Seq(Jobs)
    /\ session \subseteq Users /\ EnterUsers \subseteq Users
    /\ Section \in [Objects -> Sections \cup {Unset}]
    /\ \A m \in Monsters : Section[m] \in Sections
    /\ at \in [Objects -> Points]
    /\ seen \in [Users -> Points]
    /\ pool \in [Monsters -> {"dead", "entering", "alive"}]
    /\ ListsOK /\ ChaseOK

(* A user with a Section of this room is listed there and where the last of *)
(* its jobs saw it.                                                         *)
UsersListed ==
    \A u \in Users : Section[u] # Unset =>
        /\ u \in GameSectionsOnlyUser[Section[u]]
        /\ u \in GameSectionsOnlyUser[GetSectionIndex(seen[u])]

(* A monster that does not attack has no time left over, save one in cut.   *)
TimeUsedUp == \A m \in Monsters \ cut : State[m] # "ATTACK" => AttackTime[m] = 0

ChaseInv == AttackHasTarget /\ AttackTimed /\ TimeUsedUp

Inv == TypeOK /\ UsersListed /\ AliveListed /\ ChaseInv

-----------------------------------------------------------------------------
(* GetSectionIndex never leaves the array of sections. *)
LEMMA InSections ==
    ASSUME NEW x \in 0 .. SectionCountX - 1, NEW y \in 0 .. SectionCountY - 1
    PROVE  y * SectionCountX + x \in Sections
<1>1. SectionCountX \in Nat /\ SectionCountY \in Nat /\ x \in Nat /\ y \in Nat
  BY SizeAssumption
<1>2. y * SectionCountX + x \in Nat
  BY <1>1
<1>3. (y + 1) * SectionCountX <= SectionCountY * SectionCountX
  BY <1>1, y + 1 <= SectionCountY, Z3
<1>4. y * SectionCountX + x + 1 <= SectionCountX * SectionCountY
  BY <1>1, <1>3, x + 1 <= SectionCountX, Z3
<1> QED BY <1>1, <1>2, <1>4 DEF Sections

LEMMA IndexInSections ==
    ASSUME NEW p \in Points
    PROVE  GetSectionIndex(p) \in Sections
<1>1. /\ Index(p[1], SectionCountX) \in 0 .. SectionCountX - 1
      /\ Index(p[2], SectionCountY) \in 0 .. SectionCountY - 1
  BY SizeAssumption DEF Index, Points
<1> QED BY <1>1, InSections DEF GetSectionIndex

(* The sections a monster looks at are sections of the room. *)
LEMMA AroundInSections ==
    ASSUME NEW p \in Points
    PROVE  Around(p) \subseteq Sections
BY InSections DEF Around

(* A user on the map, at most one section away, is in one of them, also     *)
(* when the monster has gone beyond the edge.                               *)
LEMMA NeighboursSeen ==
    ASSUME NEW p \in Points, NEW q \in Points, OnMap(p), Gap(p, q) <= 1
    PROVE  GetSectionIndex(p) \in Around(q)
<1>1. /\ p[1] \in 0 .. SectionCountX - 1 /\ p[2] \in 0 .. SectionCountY - 1
      /\ q[1] \in Int /\ q[2] \in Int
  BY DEF OnMap, Points
<1>2. /\ p[1] - q[1] \in -1 .. 1
      /\ p[2] - q[2] \in -1 .. 1
  BY <1>1 DEF Gap, Abs
<1>3. /\ p[1] \in GetSectionXY(q[1], SectionCountX) - 1 .. GetSectionXY(q[1], SectionCountX) + 1
      /\ p[2] \in GetSectionXY(q[2], SectionCountY) - 1 .. GetSectionXY(q[2], SectionCountY) + 1
  BY <1>1, <1>2, SizeAssumption DEF GetSectionXY, Index
<1>4. GetSectionIndex(p) = p[2] * SectionCountX + p[1]
  BY <1>1 DEF GetSectionIndex, Index
<1> QED BY <1>1, <1>3, <1>4 DEF Around

-----------------------------------------------------------------------------
(* Pushing a job and taking one. *)
LEMMA PushJob ==
    ASSUME NEW job \in Jobs, jobs \in Seq(Jobs), jobs' = Append(jobs, job)
    PROVE  jobs' \in Seq(Jobs)
BY AppendProperties

LEMMA TakeJob ==
    ASSUME jobs \in Seq(Jobs), NEW do, Runs(do)
    PROVE  jobs' \in Seq(Jobs) /\ Head(jobs) \in Jobs /\ Head(jobs).do = do
BY HeadTailProperties, EmptySeq DEF Runs

(* What a step that leaves the monsters alone preserves.                    *)
LEMMA SameAliveListed ==
    ASSUME AliveListed, UNCHANGED <<at, GameSectionsOnlyMonster>>,
           \A m \in Monsters : Section'[m] = Section[m],
           \A m \in Monsters : pool'[m] = "alive" => pool[m] = "alive"
    PROVE  AliveListed'
BY DEF AliveListed, GetSectionIndex, Index

LEMMA SameChase == ASSUME ChaseInv, UNCHANGED chaseVars PROVE ChaseInv'
BY DEF ChaseInv, AttackHasTarget, AttackTimed, TimeUsedUp, chaseVars

LEMMA InitInv == Init => Inv
<1> SUFFICES ASSUME Init PROVE Inv
  OBVIOUS
<1>1. SpawnPlaces \subseteq Points
  BY SpawnAssumption, SizeAssumption DEF Points
<1>2. 0 \in Sections
  BY InSections, SizeAssumption DEF Sections
<1>3. TypeOK
  <2>1. /\ Section \in [Objects -> Sections \cup {Unset}]
        /\ \A m \in Monsters : Section[m] \in Sections
    BY <1>2, IdAssumption DEF Init, Objects
  <2>2. at \in [Objects -> Points] /\ seen \in [Users -> Points]
    BY <1>1 DEF Init, Objects
  <2> QED BY <2>1, <2>2, EmptySeq DEF Init, TypeOK, ListsOK, ChaseOK
<1>4. UsersListed
  <2>1. \A u \in Users : Section[u] = Unset
    BY DEF Init, Objects
  <2> QED BY <2>1 DEF UsersListed
<1>5. AliveListed
  BY DEF Init, AliveListed
<1>6. ChaseInv
  BY DEF Init, ChaseInv, AttackHasTarget, AttackTimed, TimeUsedUp
<1> QED BY <1>3, <1>4, <1>5, <1>6 DEF Inv

-----------------------------------------------------------------------------
(* The handlers push a job ... *)
LEMMA PushStep ==
    ASSUME Inv, NEW u \in Users,
           OnGameRoomEnter(u) \/ \E p \in Places : OnMovingData(u, p)
    PROVE  Inv'
<1>1. ASSUME NEW job \in Jobs, Push(job)
      PROVE  Inv'
  <2>1. UNCHANGED <<userVars, Section, at, GameSectionsOnlyMonster, pool, chaseVars>>
    BY <1>1 DEF Push
  <2>2. jobs' \in Seq(Jobs)
    BY <1>1, PushJob DEF Push, Inv, TypeOK
  <2>3. TypeOK'
    BY <2>1, <2>2 DEF Inv, TypeOK, ListsOK, ChaseOK, userVars, chaseVars
  <2>4. UsersListed'
    BY <2>1 DEF Inv, UsersListed, userVars, GetSectionIndex, Index
  <2>5. AliveListed'
    BY <2>1, SameAliveListed DEF Inv
  <2> QED BY <2>1, <2>3, <2>4, <2>5, SameChase DEF Inv
<1>2. CASE OnGameRoomEnter(u)
  <2>1. [do |-> "enter", who |-> u, to |-> at[u]] \in Jobs
    BY DEF Inv, TypeOK, Jobs, Objects
  <2> QED BY <1>1, <1>2, <2>1 DEF OnGameRoomEnter
<1>3. ASSUME NEW p \in Places, OnMovingData(u, p)
      PROVE  Inv'
  <2>1. [do |-> "move", who |-> u, to |-> p] \in Jobs
    BY PlacesAssumption, SizeAssumption DEF Jobs, Points
  <2> QED BY <1>1, <1>3, <2>1 DEF OnMovingData
<1> QED BY <1>2, <1>3

(* ... or change who is in the room, where, and with which Section.         *)
LEMMA RoomStep ==
    ASSUME Inv, NEW u \in Users,
           \/ OnGameRoomExit(u) \/ OnEnterRoom(u) \/ EnterOtherRoom(u)
           \/ \E p \in Places : MoveInOtherRoom(u, p)
    PROVE  Inv'
<1>1. UNCHANGED <<jobs, GameSectionsOnlyUser, seen, GameSectionsOnlyMonster, pool, chaseVars>>
  BY DEF OnGameRoomExit, OnEnterRoom, EnterOtherRoom, MoveInOtherRoom, userVars
<1>2. EnterUsers' \subseteq Users /\ session' \subseteq Users
  BY DEF OnGameRoomExit, OnEnterRoom, EnterOtherRoom, MoveInOtherRoom, userVars, Inv, TypeOK
<1>3. Section' = Section \/ Section' = [Section EXCEPT ![u] = Unset]
  BY DEF OnGameRoomExit, OnEnterRoom, EnterOtherRoom, MoveInOtherRoom
<1>4. at' = at \/ \E p \in Points : at' = [at EXCEPT ![u] = p]
  BY PlacesAssumption, SizeAssumption
     DEF OnGameRoomExit, OnEnterRoom, EnterOtherRoom, MoveInOtherRoom, Points
<1>5. /\ Section' \in [Objects -> Sections \cup {Unset}]
      /\ \A o \in Objects : Section'[o] = Section[o] \/ (o = u /\ Section'[o] = Unset)
  BY <1>3 DEF Inv, TypeOK, Objects
<1>6. /\ at' \in [Objects -> Points]
      /\ \A o \in Objects : o # u => at'[o] = at[o]
  BY <1>4 DEF Inv, TypeOK, Objects
<1>7. \A m \in Monsters : m \in Objects /\ m # u /\ Section'[m] = Section[m] /\ at'[m] = at[m]
  BY <1>5, <1>6, IdAssumption DEF Objects
<1>8. TypeOK'
  BY <1>1, <1>2, <1>5, <1>6, <1>7 DEF Inv, TypeOK, ListsOK, ChaseOK, chaseVars
<1>9. UsersListed'
  BY <1>1, <1>5 DEF Inv, UsersListed, GetSectionIndex, Index, Objects
<1>10. AliveListed'
  BY <1>1, <1>7 DEF Inv, AliveListed, GetSectionIndex, Index
<1> QED BY <1>1, <1>8, <1>9, <1>10, SameChase DEF Inv

(* The job of an entry lists the user where its Section then says. *)
LEMMA EnterStep == ASSUME Inv, EnterGameRoom PROVE Inv'
<1> DEFINE u == Head(jobs).who
           p == Head(jobs).to
           s == GetSectionIndex(p)
<1>1. jobs' \in Seq(Jobs) /\ u \in Users /\ p \in Points
  <2>1. Runs("enter") /\ jobs \in Seq(Jobs)
    BY DEF EnterGameRoom, Inv, TypeOK
  <2> QED BY <2>1, TakeJob DEF Jobs
<1>2. s \in Sections
  BY <1>1, IndexInSections
<1>3. /\ EnterUsers' = EnterUsers \cup {u}
      /\ GameSectionsOnlyUser' = [GameSectionsOnlyUser EXCEPT ![s] = @ \cup {u}]
      /\ session' = session \cup {u}
      /\ Section' = [Section EXCEPT ![u] = s]
      /\ seen' = [seen EXCEPT ![u] = p]
      /\ UNCHANGED <<at, GameSectionsOnlyMonster, pool, chaseVars>>
  BY DEF EnterGameRoom
<1> HIDE DEF u, p, s
<1>4. TypeOK'
  BY <1>1, <1>2, <1>3 DEF Inv, TypeOK, ListsOK, ChaseOK, chaseVars, Objects
<1>5. \A v \in Users : Section'[v] # Unset =>
                          /\ v \in GameSectionsOnlyUser'[Section'[v]]
                          /\ v \in GameSectionsOnlyUser'[GetSectionIndex(seen'[v])]
  <2> SUFFICES ASSUME NEW v \in Users, Section'[v] # Unset
               PROVE  /\ v \in GameSectionsOnlyUser'[Section'[v]]
                      /\ v \in GameSectionsOnlyUser'[GetSectionIndex(seen'[v])]
    OBVIOUS
  <2>0. \A t \in Sections : GameSectionsOnlyUser[t] \subseteq GameSectionsOnlyUser'[t]
    BY <1>3, <1>1, <1>2 DEF Inv, TypeOK, ListsOK
  <2>1. CASE v = u
    <3>1. Section'[v] = s /\ seen'[v] = p /\ v \in GameSectionsOnlyUser'[s]
      BY <2>1, <1>1, <1>2, <1>3 DEF Inv, TypeOK, ListsOK, Objects
    <3> QED BY <3>1 DEF s
  <2>2. CASE v # u
    <3>1. Section'[v] = Section[v] /\ seen'[v] = seen[v]
      BY <2>2, <1>1, <1>3 DEF Inv, TypeOK, Objects
    <3>2. Section[v] \in Sections /\ GetSectionIndex(seen[v]) \in Sections
      BY <3>1, IndexInSections DEF Inv, TypeOK, Objects
    <3> QED BY <2>0, <3>1, <3>2 DEF Inv, UsersListed
  <2> QED BY <2>1, <2>2
<1>6. UsersListed'
  BY <1>5 DEF UsersListed, GetSectionIndex, Index
<1>7. AliveListed'
  BY <1>1, <1>3, IdAssumption, SameAliveListed DEF Inv, TypeOK, Objects
<1> QED BY <1>3, <1>4, <1>6, <1>7, SameChase DEF Inv

(* The job of an entry into a full room changes nothing.                    *)
LEMMA FullStep == ASSUME Inv, EnterFullRoom PROVE Inv'
<1>1. /\ jobs' \in Seq(Jobs)
      /\ UNCHANGED <<userVars, Section, at, GameSectionsOnlyMonster, pool, chaseVars>>
  <2>1. Runs("enter") /\ jobs \in Seq(Jobs)
    BY DEF EnterFullRoom, Inv, TypeOK
  <2> QED BY <2>1, TakeJob DEF EnterFullRoom
<1>2. TypeOK'
  BY <1>1 DEF Inv, TypeOK, ListsOK, ChaseOK, userVars, chaseVars
<1>3. UsersListed'
  BY <1>1 DEF Inv, UsersListed, userVars, GetSectionIndex, Index
<1>4. AliveListed'
  BY <1>1, SameAliveListed DEF Inv
<1> QED BY <1>1, <1>2, <1>3, <1>4, SameChase DEF Inv

(* The job of a move.  A user that is not listed anew where it was before   *)
(* the move is still listed there since it entered.                         *)
LEMMA MoveStep == ASSUME Inv, MoveUserInRoom PROVE Inv'
<1> DEFINE u == Head(jobs).who
           p == Head(jobs).to
           s == GetSectionIndex(at[u])
<1>1. /\ jobs' \in Seq(Jobs) /\ u \in Users /\ p \in Points
  <2>1. Runs("move") /\ jobs \in Seq(Jobs)
    BY DEF MoveUserInRoom, Inv, TypeOK
  <2>2. /\ jobs' \in Seq(Jobs) /\ Head(jobs) \in Jobs /\ Head(jobs).do = "move"
    BY <2>1, TakeJob
  <2> QED BY <2>2 DEF Jobs
<1>2. at[u] \in Points /\ s \in Sections /\ Section[u] \in Sections \cup {Unset}
  BY <1>1, IndexInSections DEF Inv, TypeOK, Objects
<1>o. PICK old \in MovesFrom(u) :
        \/ /\ old = s
           /\ UNCHANGED <<GameSectionsOnlyUser, GameSectionsOnlyMonster>>
        \/ /\ old # s
           /\ GameSectionsOnlyMonster' = [GameSectionsOnlyMonster EXCEPT ![old] = Left(@, u)]
           /\ GameSectionsOnlyUser' = [GameSectionsOnlyUser EXCEPT ![s] = @ \cup {u}]
  BY DEF MoveUserInRoom
<1>3. /\ old \in Sections /\ (Section[u] # Unset => old = Section[u])
      /\ seen' = [seen EXCEPT ![u] = at[u]]
      /\ at' = [at EXCEPT ![u] = p]
      /\ UNCHANGED <<EnterUsers, session, Section, pool, chaseVars, requests>>
  BY <1>2, <1>o DEF MoveUserInRoom, MovesFrom
<1> HIDE DEF u, p, s
<1>4. /\ GameSectionsOnlyMonster' \in [Sections -> [Objects -> Nat]]
      /\ \A t \in Sections, m \in Monsters :
             GameSectionsOnlyMonster'[t][m] = GameSectionsOnlyMonster[t][m]
  <2>1. ASSUME NEW list \in [Objects -> Nat]
        PROVE  /\ Left(list, u) \in [Objects -> Nat]
               /\ \A m \in Monsters : Left(list, u)[m] = list[m]
    BY <1>1, IdAssumption DEF Left, Objects
  <2>2. /\ GameSectionsOnlyMonster \in [Sections -> [Objects -> Nat]]
        /\ GameSectionsOnlyMonster[old] \in [Objects -> Nat]
    BY <1>3 DEF Inv, TypeOK, ListsOK
  <2> DEFINE list == Left(GameSectionsOnlyMonster[old], u)
  <2>3. list \in [Objects -> Nat]
        /\ \A m \in Monsters : list[m] = GameSectionsOnlyMonster[old][m]
    BY <2>1, <2>2
  <2>4. \/ UNCHANGED GameSectionsOnlyMonster
        \/ GameSectionsOnlyMonster' = [GameSectionsOnlyMonster EXCEPT ![old] = list]
    BY <1>o
  <2> HIDE DEF list
  <2> QED BY <1>3, <2>2, <2>3, <2>4
<1>5. /\ GameSectionsOnlyUser' \in [Sections -> SUBSET Users]
      /\ \A t \in Sections : GameSectionsOnlyUser[t] \subseteq GameSectionsOnlyUser'[t]
      /\ Section[u] # Unset => u \in GameSectionsOnlyUser'[s]
  <2>1. /\ GameSectionsOnlyUser \in [Sections -> SUBSET Users]
        /\ Section[u] # Unset => u \in GameSectionsOnlyUser[Section[u]]
    BY <1>1 DEF Inv, TypeOK, ListsOK, UsersListed
  <2> QED BY <1>1, <1>2, <1>o, <1>3, <2>1
<1>6. TypeOK'
  BY <1>1, <1>2, <1>3, <1>4, <1>5 DEF Inv, TypeOK, ListsOK, ChaseOK, chaseVars, Objects
<1>7. \A v \in Users : Section[v] # Unset =>
                          /\ v \in GameSectionsOnlyUser'[Section[v]]
                          /\ v \in GameSectionsOnlyUser'[GetSectionIndex(seen'[v])]
  <2> SUFFICES ASSUME NEW v \in Users, Section[v] # Unset
               PROVE  /\ v \in GameSectionsOnlyUser'[Section[v]]
                      /\ v \in GameSectionsOnlyUser'[GetSectionIndex(seen'[v])]
    OBVIOUS
  <2>1. Section[v] \in Sections /\ GetSectionIndex(seen[v]) \in Sections
    BY IndexInSections DEF Inv, TypeOK, Objects
  <2>2. v \in GameSectionsOnlyUser'[Section[v]]
    BY <1>5, <2>1 DEF Inv, UsersListed
  <2>3. CASE v = u
    <3>1. seen'[v] = at[u]
      BY <2>3, <1>1, <1>3 DEF Inv, TypeOK
    <3> QED BY <2>2, <2>3, <3>1, <1>5 DEF s
  <2>4. CASE v # u
    <3>1. seen'[v] = seen[v]
      BY <2>1, <2>4, <1>3 DEF Inv, TypeOK
    <3> QED BY <1>5, <2>1, <2>2, <3>1 DEF Inv, UsersListed
  <2> QED BY <2>3, <2>4
<1>8. UsersListed'
  BY <1>3, <1>7 DEF UsersListed, GetSectionIndex, Index
<1>9. AliveListed'
  <2> SUFFICES ASSUME NEW m \in Monsters, pool[m] = "alive"
               PROVE  /\ Section[m] = GetSectionIndex(at'[m])
                      /\ GameSectionsOnlyMonster'[Section[m]][m] > 0
    BY <1>3 DEF AliveListed, GetSectionIndex, Index
  <2>1. at'[m] = at[m] /\ Section[m] \in Sections
    BY <1>1, <1>3, IdAssumption DEF Inv, TypeOK, Objects
  <2> QED BY <1>4, <2>1 DEF Inv, AliveListed
<1> QED BY <1>3, <1>6, <1>8, <1>9, SameChase DEF Inv

-----------------------------------------------------------------------------
(* A monster is spawned: it attacks nobody, and what is left of the time of *)
(* its last attack is in cut.                                               *)
LEMMA SpawnStep ==
    ASSUME Inv, NEW m \in Monsters, NEW p \in SpawnPlaces, SpawnMonster(m, p)
    PROVE  Inv'
<1>1. p \in Points
  BY SpawnAssumption, SizeAssumption DEF Points
<1>2. [do |-> "spawn", who |-> m, to |-> p] \in Jobs
  BY <1>1 DEF Jobs
<1>3. /\ pool[m] = "dead"
      /\ pool' = [pool EXCEPT ![m] = "entering"]
      /\ at' = [at EXCEPT ![m] = p]
      /\ State' = [State EXCEPT ![m] = "SPAWNED"]
      /\ cut' = (IF AttackTime[m] > 0 THEN cut \cup {m} ELSE cut)
      /\ jobs' = Append(jobs, [do |-> "spawn", who |-> m, to |-> p])
      /\ UNCHANGED <<userVars, Section, GameSectionsOnlyMonster, TargetUser,
                     AttackTime, since, requests>>
  BY DEF SpawnMonster
<1>4. jobs' \in Seq(Jobs)
  BY <1>2, <1>3, PushJob DEF Inv, TypeOK
<1>5. TypeOK'
  BY <1>1, <1>3, <1>4 DEF Inv, TypeOK, ListsOK, ChaseOK, userVars, Objects
<1>6. UsersListed'
  BY <1>3, <1>4 DEF Inv, UsersListed, userVars, GetSectionIndex, Index
<1>7. AliveListed'
  BY <1>3, IdAssumption DEF Inv, TypeOK, AliveListed, GetSectionIndex, Index, Objects
<1>8. ChaseInv'
  BY <1>3 DEF Inv, TypeOK, ChaseOK, ChaseInv, AttackHasTarget, AttackTimed, TimeUsedUp
<1> QED BY <1>5, <1>6, <1>7, <1>8 DEF Inv

(* The entering job lists a monster where it is. *)
LEMMA EnterObjectStep == ASSUME Inv, EnterObjectInRoom PROVE Inv'
<1> DEFINE m == Head(jobs).who
           s == GetSectionIndex(at[m])
<1>1. jobs' \in Seq(Jobs) /\ m \in Monsters
  <2>1. Runs("spawn") /\ jobs \in Seq(Jobs)
    BY DEF EnterObjectInRoom, Inv, TypeOK
  <2> QED BY <2>1, TakeJob DEF Jobs
<1>2. s \in Sections
  BY <1>1, IndexInSections DEF Inv, TypeOK, Objects
<1>3. /\ GameSectionsOnlyMonster' = [GameSectionsOnlyMonster EXCEPT ![s][m] = @ + 1]
      /\ pool' = [pool EXCEPT ![m] = "alive"]
      /\ Section' = [Section EXCEPT ![m] = s]
      /\ UNCHANGED <<userVars, at, chaseVars, requests>>
  BY DEF EnterObjectInRoom
<1> HIDE DEF m
<1>4. /\ GameSectionsOnlyMonster' \in [Sections -> [Objects -> Nat]]
      /\ GameSectionsOnlyMonster'[s][m] > 0
      /\ \A t \in Sections, n \in Monsters \ {m} :
             GameSectionsOnlyMonster'[t][n] = GameSectionsOnlyMonster[t][n]
  BY <1>1, <1>2, <1>3 DEF Inv, TypeOK, ListsOK, Objects
<1>5. TypeOK'
  BY <1>1, <1>2, <1>3, <1>4 DEF Inv, TypeOK, ListsOK, ChaseOK, userVars, chaseVars, Objects
<1>6. UsersListed'
  <2>1. \A u \in Users : Section'[u] = Section[u]
    BY <1>1, <1>3, IdAssumption DEF Inv, TypeOK, Objects
  <2> QED BY <1>1, <1>3, <2>1 DEF Inv, TypeOK, UsersListed, userVars, GetSectionIndex, Index
<1>7. AliveListed'
  <2> SUFFICES ASSUME NEW n \in Monsters, pool'[n] = "alive"
               PROVE  /\ Section'[n] = GetSectionIndex(at[n])
                      /\ GameSectionsOnlyMonster'[Section'[n]][n] > 0
    BY <1>3 DEF AliveListed, GetSectionIndex, Index
  <2>1. CASE n = m
    BY <2>1, <1>1, <1>3, <1>4 DEF Inv, TypeOK, Objects
  <2>2. CASE n # m
    BY <2>2, <1>1, <1>3, <1>4 DEF Inv, TypeOK, AliveListed, Objects
  <2> QED BY <2>1, <2>2
<1> QED BY <1>3, <1>5, <1>6, <1>7, SameChase DEF Inv

(* A death changes neither the lists nor the chase. *)
LEMMA DeadStep == ASSUME Inv, NEW m \in Monsters, OnMonsterDead(m) PROVE Inv'
<1>1. /\ pool' = [pool EXCEPT ![m] = "dead"]
      /\ UNCHANGED <<jobs, userVars, Section, at, GameSectionsOnlyMonster, chaseVars>>
  BY DEF OnMonsterDead
<1>2. TypeOK'
  BY <1>1 DEF Inv, TypeOK, ListsOK, ChaseOK, userVars, chaseVars
<1>3. UsersListed'
  BY <1>1 DEF Inv, UsersListed, userVars, GetSectionIndex, Index
<1>4. AliveListed'
  BY <1>1, SameAliveListed DEF Inv, TypeOK
<1> QED BY <1>1, <1>2, <1>3, <1>4, SameChase DEF Inv

-----------------------------------------------------------------------------
(* MonsterData::Update.  A monster that does not move ... *)
LEMMA StandStill ==
    ASSUME Inv, ChaseOK', ChaseInv',
           UNCHANGED <<jobs, userVars, pool, Section, at, GameSectionsOnlyMonster>>
    PROVE  Inv'
<1>1. TypeOK'
  BY DEF Inv, TypeOK, ListsOK, userVars
<1>2. UsersListed'
  BY DEF Inv, UsersListed, userVars, GetSectionIndex, Index
<1>3. AliveListed'
  BY SameAliveListed DEF Inv
<1> QED BY <1>1, <1>2, <1>3 DEF Inv

(* ... and one that does: MoveObjectInRoom takes it off the list it is on   *)
(* and puts it on the one of where it goes, which may be the same.          *)
LEMMA Moves ==
    ASSUME Inv, ChaseOK', ChaseInv', NEW m \in Monsters, NEW p \in Points,
           at' = [at EXCEPT ![m] = p], MoveObjectInRoom(m, p),
           UNCHANGED <<jobs, userVars, pool>>
    PROVE  Inv'
<1> DEFINE s == GetSectionIndex(p)
<1>1. s \in Sections /\ Section[m] \in Sections /\ m \in Objects
  BY IndexInSections DEF Inv, TypeOK, Objects
<1>2. CASE s = Section[m] /\ UNCHANGED <<GameSectionsOnlyMonster, Section>>
  <2>1. TypeOK'
    BY <1>1, <1>2 DEF Inv, TypeOK, ListsOK, userVars, Objects
  <2>2. UsersListed'
    BY <1>2 DEF Inv, UsersListed, userVars, GetSectionIndex, Index
  <2>3. AliveListed'
    <3> SUFFICES ASSUME NEW n \in Monsters, pool[n] = "alive"
                 PROVE  /\ Section[n] = GetSectionIndex(at'[n])
                        /\ GameSectionsOnlyMonster[Section[n]][n] > 0
      BY <1>2 DEF AliveListed, GetSectionIndex, Index
    <3>1. at'[n] = IF n = m THEN p ELSE at[n]
      BY DEF Inv, TypeOK, Objects
    <3> QED BY <1>2, <3>1 DEF Inv, AliveListed
  <2> QED BY <2>1, <2>2, <2>3 DEF Inv
<1>3. CASE /\ s # Section[m]
           /\ GameSectionsOnlyMonster' = [GameSectionsOnlyMonster EXCEPT
                                            ![Section[m]] = Left(@, m),
                                            ![s][m] = @ + 1]
           /\ Section' = [Section EXCEPT ![m] = s]
  <2> DEFINE list == Left(GameSectionsOnlyMonster[Section[m]], m)
  <2>0. /\ GameSectionsOnlyMonster \in [Sections -> [Objects -> Nat]]
        /\ GameSectionsOnlyMonster[Section[m]] \in [Objects -> Nat]
        /\ GameSectionsOnlyMonster[s] \in [Objects -> Nat]
    BY <1>1 DEF Inv, TypeOK, ListsOK
  <2>1. /\ list \in [Objects -> Nat]
        /\ \A n \in Monsters \ {m} : list[n] = GameSectionsOnlyMonster[Section[m]][n]
    BY <1>1, <2>0 DEF Left, Objects
  <2>2. GameSectionsOnlyMonster' = [t \in Sections |->
            IF t = s THEN [GameSectionsOnlyMonster[s] EXCEPT ![m] = @ + 1]
            ELSE IF t = Section[m] THEN list ELSE GameSectionsOnlyMonster[t]]
    BY <1>1, <1>3, <2>0
  <2> HIDE DEF list, s
  <2>3. /\ GameSectionsOnlyMonster' \in [Sections -> [Objects -> Nat]]
        /\ GameSectionsOnlyMonster'[s][m] > 0
        /\ \A t \in Sections, n \in Monsters \ {m} :
               GameSectionsOnlyMonster'[t][n] = GameSectionsOnlyMonster[t][n]
    BY <1>1, <2>0, <2>1, <2>2 DEF Objects
  <2>4. /\ \A o \in Objects : Section'[o] = (IF o = m THEN s ELSE Section[o])
        /\ \A o \in Objects : at'[o] = (IF o = m THEN p ELSE at[o])
    BY <1>3 DEF Inv, TypeOK
  <2>5. TypeOK'
    BY <1>1, <1>3, <2>3 DEF Inv, TypeOK, ListsOK, userVars, Objects
  <2>6. UsersListed'
    <3>1. \A u \in Users : Section'[u] = Section[u]
      BY <2>4, IdAssumption DEF Objects
    <3> QED BY <3>1 DEF Inv, TypeOK, UsersListed, userVars, GetSectionIndex, Index
  <2>7. AliveListed'
    <3> SUFFICES ASSUME NEW n \in Monsters, pool[n] = "alive"
                 PROVE  /\ Section'[n] = GetSectionIndex(at'[n])
                        /\ GameSectionsOnlyMonster'[Section'[n]][n] > 0
      BY DEF AliveListed, GetSectionIndex, Index
    <3>1. CASE n = m
      BY <3>1, <2>3, <2>4 DEF s, Objects
    <3>2. CASE n # m
      <4>1. Section'[n] = Section[n] /\ at'[n] = at[n] /\ Section[n] \in Sections
        BY <3>2, <2>4 DEF Inv, TypeOK, Objects
      <4>2. /\ Section[n] = GetSectionIndex(at[n])
            /\ GameSectionsOnlyMonster[Section[n]][n] > 0
        BY DEF Inv, AliveListed
      <4> QED BY <3>2, <4>1, <4>2, <2>3
    <3> QED BY <3>1, <3>2
  <2> QED BY <2>5, <2>6, <2>7 DEF Inv
<1> QED BY <1>2, <1>3 DEF MoveObjectInRoom

LEMMA WaitsStep ==
    ASSUME Inv, NEW m \in Monsters, SkipSpawned(m) \/ GoOnAttacking(m) \/ FindNobody(m)
    PROVE  Inv'
<1>1. UNCHANGED <<jobs, userVars, pool, Section, at, GameSectionsOnlyMonster>>
  BY DEF SkipSpawned, GoOnAttacking, FindNobody, Decides, MonsterUpdate
<1>2. CASE SkipSpawned(m)
  BY <1>1, <1>2, StandStill
     DEF SkipSpawned, Inv, TypeOK, ChaseOK, ChaseInv, AttackHasTarget, AttackTimed, TimeUsedUp
<1>3. CASE GoOnAttacking(m)
  BY <1>1, <1>3, StandStill
     DEF GoOnAttacking, Inv, TypeOK, ChaseOK, ChaseInv, AttackHasTarget, AttackTimed, TimeUsedUp
<1>4. CASE FindNobody(m)
  BY <1>1, <1>4, StandStill
     DEF FindNobody, Decides, EndAttack, StateAfter, Inv, TypeOK, ChaseOK, ChaseInv,
         AttackHasTarget, AttackTimed, TimeUsedUp
<1> QED BY <1>2, <1>3, <1>4

(* A monster sees users only, and stays among the points. *)
LEMMA SightAndSteps ==
    ASSUME TypeOK, NEW m \in Monsters
    PROVE  /\ FindNearestUserInSight(m) \subseteq Users
           /\ \A u \in Users : Steps(at[m], at[u]) \subseteq Points
<1>1. at[m] \in Points /\ \A u \in Users : at[u] \in Points
  BY DEF TypeOK, Objects
<1>2. \A s \in Around(at[m]) : GameSectionsOnlyUser[s] \subseteq Users
  BY <1>1, AroundInSections DEF TypeOK, ListsOK
<1> QED BY <1>1, <1>2 DEF FindNearestUserInSight, Steps, Toward, Points

LEMMA ChaseStep == ASSUME Inv, NEW m \in Monsters, ChaseTarget(m) PROVE Inv'
<1>1. /\ EndAttack(m)
      /\ UNCHANGED <<jobs, userVars, pool, IsSpawned>>
  BY DEF ChaseTarget, Decides, MonsterUpdate
<1> DEFINE Step(u, d) ==
        /\ Chase(m, u, d)
        /\ State' = [State EXCEPT ![m] = IF d = "reach" THEN "ATTACK" ELSE StateAfter(m)]
        /\ since' = IF d = "reach" THEN [since EXCEPT ![m] = 0] ELSE since
<1>2. PICK u \in IF TargetUser[m] = None THEN FindNearestUserInSight(m) ELSE {TargetUser[m]} :
        \E d \in Distances(at[m], at[u]) : Step(u, d)
  BY DEF ChaseTarget
<1>3. PICK d \in Distances(at[m], at[u]) : Step(u, d)
  BY <1>2
<1>4. u \in Users
  BY SightAndSteps DEF Inv, TypeOK, ChaseOK
<1>5. TargetUser' = [TargetUser EXCEPT ![m] = IF d = "far" THEN None ELSE u]
  BY <1>3 DEF Chase
<1>6. ChaseOK'
  BY <1>1, <1>3, <1>4, <1>5 DEF EndAttack, StateAfter, Inv, TypeOK, ChaseOK
<1>7. ChaseInv'
  <2>1. AttackHasTarget'
    BY <1>3, <1>4, <1>5, IdAssumption
       DEF StateAfter, Inv, TypeOK, ChaseOK, ChaseInv, AttackHasTarget
  <2>2. AttackTimed' /\ TimeUsedUp'
    BY <1>1, <1>3
       DEF EndAttack, StateAfter, Inv, TypeOK, ChaseOK, ChaseInv, AttackTimed, TimeUsedUp
  <2> QED BY <2>1, <2>2 DEF ChaseInv
<1>8. CASE UNCHANGED <<Section, at, GameSectionsOnlyMonster>>
  BY <1>1, <1>6, <1>7, <1>8, StandStill
<1>9. ASSUME NEW p \in Steps(at[m], at[u]), at' = [at EXCEPT ![m] = p], MoveObjectInRoom(m, p)
      PROVE  Inv'
  <2>1. p \in Points
    BY <1>4, SightAndSteps DEF Inv
  <2> QED BY <1>1, <1>6, <1>7, <1>9, <2>1, Moves
<1> QED BY <1>3, <1>8, <1>9 DEF Chase

-----------------------------------------------------------------------------
(* The invariant of the room's map: its parts are named above. *)
THEOREM MapInvariant == Spec => []Inv
<1>1. Inv /\ UNCHANGED vars => Inv'
  <2> SUFFICES ASSUME Inv, UNCHANGED vars PROVE Inv'
    OBVIOUS
  <2>1. ChaseOK' /\ ChaseInv'
    BY SameChase DEF vars, mapVars, chaseVars, Inv, TypeOK, ChaseOK
  <2> QED BY <2>1, StandStill DEF vars, mapVars
<1>2. ASSUME Inv, NEW u \in Users, Handles(u) PROVE Inv'
  BY <1>2, PushStep, RoomStep DEF Handles
<1>3. ASSUME Inv, RunsJob PROVE Inv'
  BY <1>3, EnterStep, FullStep, MoveStep, EnterObjectStep DEF RunsJob
<1>4. ASSUME Inv, NEW m \in Monsters, Updates(m) PROVE Inv'
  BY <1>4, SpawnStep, DeadStep, WaitsStep, ChaseStep DEF Updates
<1>5. ASSUME Inv, MoveFromNowhere PROVE Inv'
  <2>1. ChaseOK' /\ ChaseInv'
    BY <1>5, SameChase DEF MoveFromNowhere, mapVars, chaseVars, Inv, TypeOK, ChaseOK
  <2> QED BY <1>5, <2>1, StandStill DEF MoveFromNowhere, mapVars
<1>6. Inv /\ [Next]_vars => Inv'
  BY <1>1, <1>2, <1>3, <1>4, <1>5 DEF Next
<1> QED BY InitInv, <1>6, PTL DEF Spec

(* A live monster is in the list of the section it is in, which is the one  *)
(* its Section names, wherever it was spawned and whomever it chased.       *)
THEOREM MonstersListed == Spec => []AliveListed
<1>1. Inv => AliveListed
  BY DEF Inv
<1> QED BY <1>1, MapInvariant, PTL

(* A monster in the state ATTACK has a target to look up. *)
THEOREM AttackersHaveTargets == Spec => []AttackHasTarget
<1>1. Inv => AttackHasTarget
  BY DEF Inv, ChaseInv
<1> QED BY <1>1, MapInvariant, PTL

(* An attack has lasted as long as its time says, but for one whose monster *)
(* was killed while it attacked.                                            *)
THEOREM AttacksAreTimed == Spec => []AttackTimed
<1>1. Inv => AttackTimed
  BY DEF Inv, ChaseInv
<1> QED BY <1>1, MapInvariant, PTL

(* Every live monster near a user whose moves are done looks at a list the  *)
(* user is on, although the lists say where users were before they moved:   *)
(* every user but those who never entered the game room, or left it for     *)
(* another room, and are in EnterUsers all the same.                        *)
THEOREM SettledUsersAreFound == Spec => []SettledUsersFound
<1>1. Inv => SettledUsersFound
  <2> SUFFICES ASSUME Inv, NEW u \in EnterUsers, NEW m \in Monsters,
                      Section[u] # Unset, OnMap(at[u]), seen[u] = at[u], Gap(at[u], at[m]) <= 1
               PROVE  u \in FindNearestUserInSight(m)
    BY DEF SettledUsersFound, Strays
  <2>1. u \in Users /\ at[u] \in Points /\ at[m] \in Points
    BY DEF Inv, TypeOK, Objects
  <2>2. u \in GameSectionsOnlyUser[GetSectionIndex(at[u])]
    BY <2>1 DEF Inv, UsersListed
  <2>3. GetSectionIndex(at[u]) \in Around(at[m])
    BY <2>1, NeighboursSeen
  <2> QED BY <2>2, <2>3 DEF FindNearestUserInSight
<1> QED BY <1>1, MapInvariant, PTL
=============================================================================
