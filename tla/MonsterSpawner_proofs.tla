------------------------ MODULE MonsterSpawner_proofs ------------------------
(***************************************************************************)
(* Proofs about MonsterSpawner, for a spawner of any size, any time to the *)
(* respawn, any number of hits and any buffer for its packets.             *)
(***************************************************************************)
EXTENDS MonsterSpawner, SequenceTheorems, FiniteSetTheorems, WellFoundedInduction,
        TLAPS

Distinct(seq) == \A i, j \in DOMAIN seq : seq[i] = seq[j] => i = j

(* The three places a monster can be in hold it once, and all of them.      *)
Places ==
    /\ Distinct(EmptyMonster) /\ Distinct(jobs) /\ Distinct(AliveMonsterArray)
    /\ Values(EmptyMonster) \cap Values(jobs) = {}
    /\ Values(EmptyMonster) \cap Values(AliveMonsterArray) = {}
    /\ Values(jobs) \cap Values(AliveMonsterArray) = {}
    /\ Values(EmptyMonster) \cup Values(jobs) \cup Values(AliveMonsterArray) = Pool
    /\ Len(EmptyMonster) + Len(jobs) + Len(AliveMonsterArray) = MaxCount

(* The respawn queue in parts: b[k] is where those end that died before the *)
(* k-th last Update, so that the deaths of one interval are next to each    *)
(* other and have the same time left.  A respawn without time left is due   *)
(* like one with a single update to go.                                     *)
ToGo(time) == IF time = 0 THEN 1 ELSE time

Parts(b) ==
    /\ b \in [0 .. RespawnTime -> 0 .. MaxCount]
    /\ b[0] = Len(RespawnQueue) /\ b[RespawnTime] = 0
    /\ \A k \in 1 .. RespawnTime : b[k - 1] = b[k] + deaths[k]
    /\ \A j, k \in 0 .. RespawnTime : j <= k => b[k] <= b[j]
    /\ \A i \in 1 .. Len(RespawnQueue) :
           LET t == ToGo(RespawnQueue[i])
           IN  b[RespawnTime + 1 - t] < i /\ i <= b[RespawnTime - t]

QueueInParts == \E b \in [0 .. RespawnTime -> 0 .. MaxCount] : Parts(b)

Inv == TypeOK /\ Places /\ CountsAgree /\ IndexAgrees /\ QueueInParts

USE MaxCountAssumption, RespawnTimeAssumption, HitsAssumption DEF Pool

(* The initial states satisfy the invariant: all monsters are in the pool,  *)
(* and died, as it were, before all updates.                                *)
LEMMA InitInv == Init => Inv
<1> SUFFICES ASSUME Init PROVE Inv
    OBVIOUS
<1>1. /\ EmptyMonster \in Seq(Pool) /\ Len(EmptyMonster) = MaxCount
      /\ Values(EmptyMonster) = Pool /\ Distinct(EmptyMonster)
    BY SeqDef DEF Init, Values, Distinct
<1>2. /\ jobs \in Seq(Pool) /\ Len(jobs) = 0 /\ Values(jobs) = {} /\ Distinct(jobs)
      /\ AliveMonsterArray \in Seq(Pool) /\ Len(AliveMonsterArray) = 0
      /\ Values(AliveMonsterArray) = {} /\ Distinct(AliveMonsterArray)
      /\ DOMAIN AliveMonster = {} /\ DOMAIN AliveMonsterArray = {}
    BY DEF Init, Values, Distinct
<1>3. /\ RespawnQueue \in Seq(0 .. RespawnTime) /\ Len(RespawnQueue) = MaxCount
      /\ \A i \in 1 .. MaxCount : RespawnQueue[i] = 0
    BY SeqDef DEF Init
<1>4. TypeOK
    BY <1>1, <1>2, <1>3 DEF Init, TypeOK
<1>5. Places /\ CountsAgree /\ IndexAgrees
    BY <1>1, <1>2, <1>3 DEF Init, Places, CountsAgree, IndexAgrees
<1>6. Parts([k \in 0 .. RespawnTime |-> IF k = RespawnTime THEN 0 ELSE MaxCount])
  <2> DEFINE b == [k \in 0 .. RespawnTime |-> IF k = RespawnTime THEN 0 ELSE MaxCount]
  <2>1. \A k \in 1 .. RespawnTime : b[k - 1] = b[k] + deaths[k]
      BY DEF Init
  <2>2. \A i \in 1 .. Len(RespawnQueue) : ToGo(RespawnQueue[i]) = 1
      BY <1>3 DEF ToGo
  <2> QED
      BY <1>3, <2>1, <2>2 DEF Parts
<1> QED
    BY <1>4, <1>5, <1>6 DEF Inv, QueueInParts

(* What is left of a sequence without its first or its last elements. *)
LEMMA Dropped ==
    ASSUME NEW S, NEW s \in Seq(S), NEW n \in 0 .. Len(s)
    PROVE  LET t == SubSeq(s, n + 1, Len(s))
           IN  /\ t \in Seq(S) /\ Len(t) = Len(s) - n
               /\ \A i \in 1 .. Len(t) : t[i] = s[i + n]
<1>1. \A i \in n + 1 .. Len(s) : s[i] \in S
    OBVIOUS
<1>2. Len(s) \in Nat /\ n + 1 \in Int
    OBVIOUS
<1> DEFINE t == SubSeq(s, n + 1, Len(s))
<1>3. /\ t \in Seq(S)
      /\ Len(t) = IF n + 1 <= Len(s) THEN Len(s) - (n + 1) + 1 ELSE 0
      /\ \A i \in 1 .. Len(s) - (n + 1) + 1 : t[i] = s[(n + 1) + i - 1]
    BY <1>1, <1>2, SubSeqProperties
<1> HIDE DEF t
<1>4. Len(t) = Len(s) - n
    BY <1>2, <1>3
<1>5. ASSUME NEW i \in 1 .. Len(t) PROVE t[i] = s[i + n]
  <2>1. i \in 1 .. Len(s) - (n + 1) + 1 /\ (n + 1) + i - 1 = i + n
      BY <1>2, <1>4
  <2> QED
      BY <1>3, <2>1
<1> QED
    BY <1>3, <1>4, <1>5 DEF t

LEMMA Shortened ==
    ASSUME NEW S, NEW s \in Seq(S), NEW n \in 0 .. Len(s)
    PROVE  LET t == SubSeq(s, 1, n)
           IN  /\ t \in Seq(S) /\ Len(t) = n
               /\ \A i \in 1 .. n : t[i] = s[i]
<1>1. \A i \in 1 .. n : s[i] \in S
    OBVIOUS
<1> DEFINE t == SubSeq(s, 1, n)
<1>2. /\ t \in Seq(S)
      /\ Len(t) = IF 1 <= n THEN n - 1 + 1 ELSE 0
      /\ \A i \in 1 .. n - 1 + 1 : t[i] = s[1 + i - 1]
    BY <1>1, SubSeqProperties
<1> HIDE DEF t
<1>3. Len(t) = n /\ \A i \in 1 .. n : t[i] = s[i]
    BY <1>2
<1> QED
    BY <1>2, <1>3 DEF t

(* What is not touched stays in its parts. *)
LEMMA SameParts ==
    ASSUME QueueInParts, UNCHANGED <<RespawnQueue, deaths>> PROVE QueueInParts'
BY DEF QueueInParts, Parts

-----------------------------------------------------------------------------
(* Update.  What is due are the respawns of the first part.                 *)
Left == [k \in DOMAIN RespawnQueue |-> Older(RespawnQueue[k])]
Due == {k \in DOMAIN Left : \A j \in 1 .. k : Left[j] = 0}

LEMMA LeftType ==
    ASSUME TypeOK
    PROVE  /\ Left \in Seq(0 .. RespawnTime) /\ Len(Left) = Len(RespawnQueue)
           /\ \A k \in 1 .. Len(Left) :
                  /\ ToGo(RespawnQueue[k]) \in 1 .. RespawnTime
                  /\ Left[k] = ToGo(RespawnQueue[k]) - 1
<1>1. Len(RespawnQueue) \in Nat /\ DOMAIN RespawnQueue = 1 .. Len(RespawnQueue)
    BY DEF TypeOK
<1>2. \A k \in 1 .. Len(RespawnQueue) : RespawnQueue[k] \in 0 .. RespawnTime
    BY DEF TypeOK
<1>3. \A k \in 1 .. Len(RespawnQueue) : Left[k] \in 0 .. RespawnTime
    BY <1>1, <1>2 DEF Left, Older
<1>4. Left \in [1 .. Len(RespawnQueue) -> 0 .. RespawnTime]
    BY <1>1, <1>3 DEF Left
<1> QED
    BY <1>1, <1>2, <1>4, SeqDef DEF Left, Older, ToGo

LEMMA DueIsFirstPart ==
    ASSUME TypeOK, NEW b, Parts(b)
    PROVE  /\ Due = 1 .. deaths[RespawnTime]
           /\ Cardinality(Due) = deaths[RespawnTime]
           /\ deaths[RespawnTime] = b[RespawnTime - 1]
           /\ deaths[RespawnTime] \in 0 .. Len(RespawnQueue)
<1> DEFINE n == deaths[RespawnTime]
<1>1. n = b[RespawnTime - 1] /\ n \in 0 .. Len(RespawnQueue)
  <2>1. b[RespawnTime - 1] = b[RespawnTime] + n /\ b[RespawnTime] = 0
      BY DEF Parts
  <2>2. b[RespawnTime - 1] <= b[0] /\ b[RespawnTime - 1] \in 0 .. MaxCount
      BY DEF Parts
  <2> QED
      BY <2>1, <2>2 DEF Parts, TypeOK
<1>2. \A k \in 1 .. Len(Left) : Left[k] = 0 <=> k <= n
  <2> TAKE k \in 1 .. Len(Left)
  <2> DEFINE t == ToGo(RespawnQueue[k])
  <2>1. t \in 1 .. RespawnTime /\ Left[k] = t - 1 /\ k \in 1 .. Len(RespawnQueue)
      BY LeftType
  <2>2. b[RespawnTime + 1 - t] < k /\ k <= b[RespawnTime - t]
      BY <2>1 DEF Parts
  <2> HIDE DEF t
  <2>3. /\ RespawnTime + 1 - t \in 0 .. RespawnTime
        /\ RespawnTime - t \in 0 .. RespawnTime
        /\ RespawnTime - 1 \in 0 .. RespawnTime
        /\ t > 1 => RespawnTime + 1 - t <= RespawnTime - 1
      BY <2>1
  <2>4. t > 1 => b[RespawnTime - 1] <= b[RespawnTime + 1 - t]
      BY <2>3 DEF Parts
  <2>5. /\ b[RespawnTime + 1 - t] \in Nat /\ b[RespawnTime - 1] \in Nat
        /\ b[RespawnTime - t] \in Nat /\ Len(Left) \in Nat
      BY <2>3, LeftType DEF Parts
  <2> QED
      BY <1>1, <2>1, <2>2, <2>4, <2>5
<1> HIDE DEF n
<1>3. Due = 1 .. n
  <2>1. DOMAIN Left = 1 .. Len(Left) /\ Len(Left) \in Nat /\ n \in 0 .. Len(Left)
      BY <1>1, LeftType
  <2>2. \A k \in 1 .. n : k \in 1 .. Len(Left) /\ \A j \in 1 .. k : Left[j] = 0
      BY <1>2, <2>1
  <2>3. \A k \in Due : k \in 1 .. Len(Left) /\ Left[k] = 0
      BY <2>1 DEF Due
  <2>4. Due \subseteq 1 .. n
      BY <1>2, <2>1, <2>3
  <2>5. 1 .. n \subseteq Due
      BY <2>1, <2>2 DEF Due
  <2> QED
      BY <2>4, <2>5
<1>4. Cardinality(Due) = n
    BY <1>1, <1>3, FS_Interval
<1> QED
    BY <1>1, <1>3, <1>4 DEF n

(* What Update leaves of the queue. *)
LEMMA DueErased ==
    ASSUME TypeOK, NEW n \in 0 .. Len(RespawnQueue),
           RespawnQueue' = SubSeq(Left, n + 1, Len(Left))
    PROVE  /\ RespawnQueue' \in Seq(0 .. RespawnTime)
           /\ Len(RespawnQueue') = Len(RespawnQueue) - n
           /\ \A i \in 1 .. Len(RespawnQueue') : RespawnQueue'[i] = Left[i + n]
<1> DEFINE S == 0 .. RespawnTime
           L == Left
<1>1. L \in Seq(S) /\ n \in 0 .. Len(L) /\ Len(L) = Len(RespawnQueue)
    BY LeftType
<1> HIDE DEF S, L
<1>2. LET t == SubSeq(L, n + 1, Len(L))
      IN  /\ t \in Seq(S) /\ Len(t) = Len(L) - n
          /\ \A i \in 1 .. Len(t) : t[i] = L[i + n]
    BY <1>1, Dropped
<1> QED
    BY <1>1, <1>2 DEF S, L

(* The queue after an Update is in the same parts, one update older. *)
LEMMA PartsGrowOlder ==
    ASSUME TypeOK, NEW b, Parts(b), NEW n, n = deaths[RespawnTime],
           Len(RespawnQueue') = Len(RespawnQueue) - n,
           \A i \in 1 .. Len(RespawnQueue') : RespawnQueue'[i] = Left[i + n],
           deaths' = AgedDeaths
    PROVE  QueueInParts'
<1> DEFINE c == [k \in 0 .. RespawnTime |-> IF k = 0 THEN b[0] - n ELSE b[k - 1] - n]
<1>1. n = b[RespawnTime - 1] /\ n \in 0 .. Len(RespawnQueue)
    BY DueIsFirstPart
<1>2. /\ b \in [0 .. RespawnTime -> 0 .. MaxCount] /\ b[0] = Len(RespawnQueue)
      /\ \A j, k \in 0 .. RespawnTime : j <= k => b[k] <= b[j]
    BY DEF Parts
<1>3. /\ Len(RespawnQueue') = Len(RespawnQueue) - n /\ Len(RespawnQueue) \in Nat
      /\ n \in Nat
  <2>1. Len(RespawnQueue) \in Nat
      BY DEF TypeOK
  <2> QED
      BY <1>1, <2>1
<1>4. c \in [0 .. RespawnTime -> 0 .. MaxCount]
  <2>1. \A k \in 0 .. RespawnTime - 1 : b[k] - n \in 0 .. MaxCount
      BY <1>1, <1>2
  <2> QED
      BY <2>1
<1>5. c[0] = Len(RespawnQueue') /\ c[RespawnTime] = 0
    BY <1>1, <1>2, <1>3
<1>6. \A k \in 1 .. RespawnTime : c[k - 1] = c[k] + deaths'[k]
  <2> TAKE k \in 1 .. RespawnTime
  <2>1. deaths'[k] = IF k = 1 THEN 0 ELSE deaths[k - 1]
      BY DEF AgedDeaths, TypeOK
  <2>2. k # 1 => b[k - 2] = b[k - 1] + deaths[k - 1]
    <3>1. k # 1 => k - 1 \in 1 .. RespawnTime /\ (k - 1) - 1 = k - 2
        OBVIOUS
    <3> QED
        BY <3>1 DEF Parts
  <2>3. deaths \in [1 .. RespawnTime -> 0 .. MaxCount]
      BY DEF TypeOK
  <2>4. CASE k = 1
      BY <1>1, <1>2, <2>1, <2>4
  <2>5. CASE k # 1
    <3>1. c[k - 1] = b[k - 2] - n /\ c[k] = b[k - 1] - n
        BY <2>5
    <3>2. /\ b[k - 2] \in Nat /\ b[k - 1] \in Nat /\ n \in Nat
          /\ deaths[k - 1] \in Nat
        BY <1>1, <1>2, <2>3, <2>5
    <3> HIDE DEF c
    <3> QED
        BY <2>1, <2>2, <2>5, <3>1, <3>2
  <2> QED
      BY <2>4, <2>5
<1>7. \A j, k \in 0 .. RespawnTime : j <= k => c[k] <= c[j]
  <2> TAKE j, k \in 0 .. RespawnTime
  <2>1. \A i \in 0 .. RespawnTime : b[i] \in Nat
      BY <1>2
  <2>2. n \in Nat
      BY <1>1
  <2> QED
      BY <1>2, <2>1, <2>2
<1>8. \A i \in 1 .. Len(RespawnQueue') :
          LET t == ToGo(RespawnQueue'[i])
          IN  c[RespawnTime + 1 - t] < i /\ i <= c[RespawnTime - t]
  <2> TAKE i \in 1 .. Len(RespawnQueue')
  <2> DEFINE u == ToGo(RespawnQueue[i + n])
             t == ToGo(RespawnQueue'[i])
  <2>1. i + n \in 1 .. Len(RespawnQueue)
      BY <1>3
  <2>2. u \in 1 .. RespawnTime /\ RespawnQueue'[i] = u - 1
      BY <2>1, LeftType
  <2>3. b[RespawnTime + 1 - u] < i + n /\ i + n <= b[RespawnTime - u]
      BY <2>1 DEF Parts
  <2>4. u # 1
      BY <1>1, <2>3
  <2> HIDE DEF u
  <2>5. t = u - 1
    <3>1. u - 1 # 0 /\ ToGo(u - 1) = u - 1
        BY <2>2, <2>4 DEF ToGo
    <3> QED
        BY <2>2, <3>1
  <2> HIDE DEF t
  <2>6. /\ c[RespawnTime + 1 - t] = b[RespawnTime + 1 - u] - n
        /\ c[RespawnTime - t] = b[RespawnTime - u] - n
    <3>1. /\ RespawnTime + 1 - t \in 1 .. RespawnTime
          /\ RespawnTime - t \in 1 .. RespawnTime
          /\ (RespawnTime + 1 - t) - 1 = RespawnTime + 1 - u
          /\ (RespawnTime - t) - 1 = RespawnTime - u
        BY <2>2, <2>4, <2>5
    <3> QED
        BY <3>1
  <2>7. b[RespawnTime + 1 - u] \in Nat /\ b[RespawnTime - u] \in Nat /\ n \in Nat
    <3>1. RespawnTime + 1 - u \in 0 .. RespawnTime /\ RespawnTime - u \in 0 .. RespawnTime
        BY <2>2
    <3> QED
        BY <1>1, <1>2, <3>1
  <2> HIDE DEF c
  <2>8. c[RespawnTime + 1 - t] < i /\ i <= c[RespawnTime - t]
      BY <2>3, <2>6, <2>7
  <2> QED
      BY <2>8 DEF t
<1> HIDE DEF c
<1>9. PICK d : d = c
    OBVIOUS
<1>10. Parts(d)'
    BY <1>4, <1>5, <1>6, <1>7, <1>8, <1>9 DEF Parts
<1> QED
    BY <1>4, <1>9, <1>10 DEF QueueInParts

(* A death makes the last part of the queue one longer. *)
LEMMA DeadParts ==
    ASSUME TypeOK, QueueInParts, Len(RespawnQueue) + 1 <= MaxCount,
           Len(RespawnQueue') = Len(RespawnQueue) + 1,
           \A k \in 1 .. Len(RespawnQueue) : RespawnQueue'[k] = RespawnQueue[k],
           RespawnQueue'[Len(RespawnQueue) + 1] = RespawnTime,
           deaths' = [deaths EXCEPT ![1] = @ + 1]
    PROVE  QueueInParts' /\ deaths' \in [1 .. RespawnTime -> 0 .. MaxCount]
<1> DEFINE n == Len(RespawnQueue)
<1>1. PICK b : Parts(b)
    BY DEF QueueInParts
<1>2. /\ b \in [0 .. RespawnTime -> 0 .. MaxCount] /\ b[0] = n
      /\ b[RespawnTime] = 0
      /\ \A k \in 1 .. RespawnTime : b[k - 1] = b[k] + deaths[k]
      /\ \A j, k \in 0 .. RespawnTime : j <= k => b[k] <= b[j]
    BY <1>1 DEF Parts
<1>3. n \in Nat /\ deaths \in [1 .. RespawnTime -> 0 .. MaxCount]
    BY DEF TypeOK
<1> HIDE DEF n
<1>4. PICK c : c = [b EXCEPT ![0] = n + 1]
    OBVIOUS
<1>5. /\ c \in [0 .. RespawnTime -> 0 .. MaxCount] /\ c[0] = n + 1
      /\ \A k \in 1 .. RespawnTime : c[k] = b[k]
    BY <1>2, <1>3, <1>4 DEF n
<1>6. /\ \A k \in 1 .. RespawnTime : deaths'[k] = IF k = 1 THEN deaths[1] + 1
                                                         ELSE deaths[k]
      /\ DOMAIN deaths' = 1 .. RespawnTime
      /\ deaths' = [k \in 1 .. RespawnTime |-> deaths'[k]]
    BY <1>3
<1>7. \A k \in 1 .. RespawnTime : c[k - 1] = c[k] + deaths'[k]
  <2> TAKE k \in 1 .. RespawnTime
  <2>1. b[k - 1] = b[k] + deaths[k] /\ b[k] \in Nat /\ deaths[k] \in Nat
      BY <1>2, <1>3
  <2>2. c[k] = b[k] /\ deaths'[k] = IF k = 1 THEN deaths[k] + 1 ELSE deaths[k]
      BY <1>5, <1>6
  <2>3. c[k - 1] = IF k = 1 THEN b[k - 1] + 1 ELSE b[k - 1]
    <3>1. CASE k = 1
        BY <1>2, <1>5, <3>1
    <3>2. CASE k # 1
      <4>1. k - 1 \in 1 .. RespawnTime
          BY <3>2
      <4> QED
          BY <1>5, <3>2, <4>1
    <3> QED
        BY <3>1, <3>2
  <2> QED
      BY <2>1, <2>2, <2>3
<1>8. \A j, k \in 0 .. RespawnTime : j <= k => c[k] <= c[j]
  <2> TAKE j, k \in 0 .. RespawnTime
  <2>1. /\ b[j] \in Nat /\ b[k] \in Nat /\ b[k] <= n
        /\ j <= k => b[k] <= b[j]
      BY <1>2
  <2> QED
      BY <1>3, <1>5, <2>1
<1>9. \A i \in 1 .. n + 1 : LET t == ToGo(RespawnQueue'[i])
                            IN  c[RespawnTime + 1 - t] < i /\ i <= c[RespawnTime - t]
  <2> TAKE i \in 1 .. n + 1
  <2> DEFINE t == ToGo(RespawnQueue'[i])
  <2>1. CASE i = n + 1
    <3>1. t = RespawnTime
        BY <2>1 DEF ToGo, n
    <3>2. 1 \in 0 .. RespawnTime /\ c[1] = b[1] /\ b[1] <= n /\ b[1] \in Nat
        BY <1>2, <1>5
    <3> HIDE DEF t
    <3>3. RespawnTime + 1 - t = 1 /\ RespawnTime - t = 0
        BY <3>1
    <3>4. c[RespawnTime + 1 - t] < i /\ i <= c[RespawnTime - t]
        BY <1>3, <1>5, <2>1, <3>2, <3>3
    <3> QED
        BY <3>4 DEF t
  <2>2. CASE i \in 1 .. n
    <3>1. t = ToGo(RespawnQueue[i]) /\ t \in 1 .. RespawnTime
        BY <2>2, LeftType DEF n
    <3>2. b[RespawnTime + 1 - t] < i /\ i <= b[RespawnTime - t]
        BY <1>1, <2>2, <3>1 DEF Parts, n
    <3> HIDE DEF t
    <3>3. /\ RespawnTime + 1 - t \in 1 .. RespawnTime
          /\ RespawnTime - t \in 0 .. RespawnTime
        BY <3>1
    <3>4. c[RespawnTime + 1 - t] = b[RespawnTime + 1 - t]
        BY <1>5, <3>3
    <3>5. /\ c[RespawnTime - t] \in Nat /\ b[RespawnTime - t] \in Nat
          /\ b[RespawnTime - t] <= c[RespawnTime - t]
      <4>1. \A k \in 0 .. RespawnTime :
                c[k] \in Nat /\ b[k] \in Nat /\ b[k] <= c[k]
        <5> TAKE k \in 0 .. RespawnTime
        <5>1. c[k] \in Nat /\ b[k] \in Nat
            BY <1>2, <1>5
        <5>2. CASE k = 0
            BY <1>2, <1>3, <1>5, <5>2
        <5>3. CASE k # 0
            BY <1>5, <5>1, <5>3
        <5> QED
            BY <5>1, <5>2, <5>3
      <4> QED
          BY <3>3, <4>1
    <3>6. c[RespawnTime + 1 - t] < i /\ i <= c[RespawnTime - t]
        BY <2>2, <3>2, <3>4, <3>5
    <3> QED
        BY <3>6 DEF t
  <2> QED
      BY <1>3, <2>1, <2>2
<1>10. Parts(c)'
    BY <1>2, <1>5, <1>7, <1>8, <1>9 DEF Parts, n
<1>11. \A k \in 1 .. RespawnTime : deaths'[k] \in 0 .. MaxCount
  <2> TAKE k \in 1 .. RespawnTime
  <2>1. c[k - 1] = c[k] + deaths'[k] /\ c[k - 1] \in 0 .. MaxCount /\ c[k] \in Nat
      BY <1>5, <1>7
  <2>2. deaths'[k] \in Nat
      BY <1>3, <1>6
  <2> QED
      BY <2>1, <2>2
<1> QED
    BY <1>5, <1>6, <1>10, <1>11 DEF QueueInParts

-----------------------------------------------------------------------------
(* What a sequence made of two holds, and that it holds it once. *)
LEMMA ConcatHolds ==
    ASSUME NEW S, NEW s \in Seq(S), NEW t \in Seq(S)
    PROVE  /\ Values(s \o t) = Values(s) \cup Values(t)
           /\ Distinct(s) /\ Distinct(t) /\ Values(s) \cap Values(t) = {}
                  => Distinct(s \o t)
<1> DEFINE u == s \o t
<1>1. /\ u \in Seq(S) /\ Len(u) = Len(s) + Len(t)
      /\ \A i \in 1 .. Len(s) + Len(t) :
             u[i] = IF i <= Len(s) THEN s[i] ELSE t[i - Len(s)]
    BY ConcatProperties
<1> HIDE DEF u
<1>2. /\ Len(s) \in Nat /\ Len(t) \in Nat
      /\ DOMAIN s = 1 .. Len(s) /\ DOMAIN t = 1 .. Len(t)
      /\ DOMAIN u = 1 .. Len(s) + Len(t)
    BY <1>1
<1>3. \A i \in DOMAIN u : \/ i \in DOMAIN s /\ u[i] = s[i]
                          \/ i - Len(s) \in DOMAIN t /\ u[i] = t[i - Len(s)]
    BY <1>1, <1>2
<1>4. /\ \A i \in DOMAIN s : i \in DOMAIN u /\ u[i] = s[i]
      /\ \A i \in DOMAIN t : i + Len(s) \in DOMAIN u /\ u[i + Len(s)] = t[i]
    BY <1>1, <1>2
<1>5. Values(u) = Values(s) \cup Values(t)
  <2>1. Values(u) \subseteq Values(s) \cup Values(t)
      BY <1>3 DEF Values
  <2>2. Values(s) \cup Values(t) \subseteq Values(u)
      BY <1>4 DEF Values
  <2> QED
      BY <2>1, <2>2
<1>6. ASSUME Distinct(s), Distinct(t), Values(s) \cap Values(t) = {}
      PROVE  Distinct(u)
  <2> SUFFICES ASSUME NEW i \in DOMAIN u, NEW j \in DOMAIN u, u[i] = u[j]
               PROVE  i = j
      BY DEF Distinct
  <2>1. \A x \in DOMAIN s, y \in DOMAIN t : s[x] # t[y]
      BY <1>6 DEF Values
  <2>2. CASE i \in DOMAIN s /\ j \in DOMAIN s
      BY <1>1, <1>2, <1>6, <2>2 DEF Distinct
  <2>3. CASE i \notin DOMAIN s /\ j \notin DOMAIN s
    <3>1. i - Len(s) \in DOMAIN t /\ j - Len(s) \in DOMAIN t
          /\ t[i - Len(s)] = t[j - Len(s)]
        BY <1>3, <2>3
    <3>2. i - Len(s) = j - Len(s)
        BY <1>6, <3>1 DEF Distinct
    <3> QED
        BY <1>2, <3>2
  <2>4. (i \in DOMAIN s) <=> (j \in DOMAIN s)
      BY <1>1, <1>2, <1>3, <2>1
  <2> QED
      BY <2>2, <2>3, <2>4
<1> QED
    BY <1>5, <1>6 DEF u

(* A sequence without repetition has as many values as places. *)
LEMMA Counted ==
    ASSUME NEW S, NEW s \in Seq(S), Distinct(s)
    PROVE  Cardinality(Values(s)) = Len(s)
<1>1. DOMAIN s = 1 .. Len(s) /\ Len(s) \in Nat
    BY LenProperties
<1> DEFINE f == [i \in 1 .. Len(s) |-> s[i]]
<1>2. f \in Bijection(1 .. Len(s), Values(s))
  <2>1. f \in [1 .. Len(s) -> Values(s)]
      BY <1>1 DEF Values
  <2>2. \A i, j \in 1 .. Len(s) : f[i] = f[j] => i = j
      BY <1>1 DEF Distinct
  <2>3. \A v \in Values(s) : \E i \in 1 .. Len(s) : f[i] = v
      BY <1>1 DEF Values
  <2> HIDE DEF f
  <2> QED
      BY <2>1, <2>2, <2>3 DEF Bijection, Injection, Surjection, IsInjective
<1>3. ExistsBijection(1 .. Len(s), Values(s))
    BY <1>2 DEF ExistsBijection
<1> QED
    BY <1>1, <1>3, FS_CountingElements

(* So many of the dead are about to enter. *)
SentIn(n) ==
    \E S \in SUBSET Values(EmptyMonster) :
        /\ Cardinality(S) = n
        /\ Values(EmptyMonster') = Values(EmptyMonster) \ S
        /\ Values(jobs') = Values(jobs) \cup S

(* Spawning moves the top of the stack of the dead to the entering jobs. *)
LEMMA SpawnStep ==
    ASSUME TypeOK, Places, NEW n \in 0 .. Len(EmptyMonster), SpawnMonsters(n),
           AliveMonsterArray' = AliveMonsterArray
    PROVE  /\ EmptyMonster' \in Seq(Pool) /\ jobs' \in Seq(Pool)
           /\ Len(EmptyMonster') = Len(EmptyMonster) - n
           /\ health' \in [Pool -> 0 .. Hits]
           /\ Places'
           /\ SentIn(n)
<1> DEFINE len  == Len(EmptyMonster)
           rest == len - n
           spawned == [k \in 1 .. n |-> EmptyMonster[len + 1 - k]]
<1>1. /\ len \in Nat /\ DOMAIN EmptyMonster = 1 .. len
      /\ \A i \in 1 .. len : EmptyMonster[i] \in Pool
      /\ rest \in 0 .. len /\ n \in Nat
  <2>1. len \in Nat
      BY DEF TypeOK
  <2>2. DOMAIN EmptyMonster = 1 .. len /\ \A i \in 1 .. len : EmptyMonster[i] \in Pool
    <3>1. EmptyMonster \in Seq(Pool)
        BY DEF TypeOK
    <3> QED
        BY <3>1, LenProperties, ElementOfSeq
  <2>3. n \in 0 .. len
      OBVIOUS
  <2> HIDE DEF len
  <2> QED
      BY <2>1, <2>2, <2>3
<1>2. /\ EmptyMonster' = SubSeq(EmptyMonster, 1, rest)
      /\ health' = [m \in Pool |-> IF m \in Values(spawned) THEN Hits ELSE health[m]]
      /\ jobs' = jobs \o spawned
    BY DEF SpawnMonsters
<1>3. health' \in [Pool -> 0 .. Hits]
    BY <1>2 DEF TypeOK
<1>4. spawned \in Seq(Pool) /\ Len(spawned) = n
  <2>1. spawned \in [1 .. n -> Pool]
      BY <1>1
  <2> QED
      BY <1>1, <2>1, SeqDef
<1>5. /\ DOMAIN spawned = 1 .. n
      /\ \A k \in 1 .. n : len + 1 - k \in rest + 1 .. len
                           /\ spawned[k] = EmptyMonster[len + 1 - k]
      /\ \A i \in rest + 1 .. len : len + 1 - i \in 1 .. n
                                   /\ spawned[len + 1 - i] = EmptyMonster[i]
    BY <1>1
<1> HIDE DEF spawned, rest, len
<1>6. /\ EmptyMonster' \in Seq(Pool) /\ Len(EmptyMonster') = rest
      /\ \A i \in 1 .. rest : EmptyMonster'[i] = EmptyMonster[i]
    BY <1>1, <1>2, Shortened DEF TypeOK, len
<1>7. DOMAIN EmptyMonster' = 1 .. rest /\ rest = len - n
    BY <1>6 DEF rest
<1>8. Distinct(EmptyMonster') /\ Distinct(spawned)
  <2>1. Distinct(EmptyMonster')
    <3>1. \A i \in 1 .. rest : i \in DOMAIN EmptyMonster
        BY <1>1
    <3>2. Distinct(EmptyMonster)
        BY DEF Places
    <3> QED
        BY <1>6, <1>7, <3>1, <3>2 DEF Distinct
  <2>2. ASSUME NEW i \in 1 .. n, NEW j \in 1 .. n, spawned[i] = spawned[j]
        PROVE  i = j
    <3>1. /\ len + 1 - i \in 1 .. len /\ len + 1 - j \in 1 .. len
          /\ EmptyMonster[len + 1 - i] = EmptyMonster[len + 1 - j]
        BY <1>1, <1>5, <2>2
    <3>2. len + 1 - i = len + 1 - j
        BY <1>1, <3>1 DEF Distinct, Places
    <3> QED
        BY <1>1, <3>2
  <2> QED
      BY <1>5, <2>1, <2>2 DEF Distinct
<1>9. Values(EmptyMonster') \cap Values(spawned) = {}
  <2>1. \A i \in 1 .. rest, j \in 1 .. n : EmptyMonster'[i] # spawned[j]
    <3> TAKE i \in 1 .. rest, j \in 1 .. n
    <3>1. i \in 1 .. len /\ len + 1 - j \in 1 .. len /\ i # len + 1 - j
        BY <1>1, <1>5
    <3>2. EmptyMonster[i] # EmptyMonster[len + 1 - j]
        BY <1>1, <3>1 DEF Distinct, Places
    <3> QED
        BY <1>5, <1>6, <3>2
  <2> QED
      BY <1>5, <1>7, <2>1 DEF Values
<1>10. Values(EmptyMonster) = Values(EmptyMonster') \cup Values(spawned)
  <2>1. \A i \in 1 .. len : \/ i \in 1 .. rest
                            \/ i \in rest + 1 .. len
      BY <1>1
  <2>2. Values(EmptyMonster) \subseteq Values(EmptyMonster') \cup Values(spawned)
      BY <1>1, <1>5, <1>6, <1>7, <2>1 DEF Values
  <2>3. Values(EmptyMonster') \cup Values(spawned) \subseteq Values(EmptyMonster)
    <3>1. /\ \A i \in 1 .. rest : i \in DOMAIN EmptyMonster
          /\ \A i \in rest + 1 .. len : i \in DOMAIN EmptyMonster
        BY <1>1
    <3>2. Values(EmptyMonster') \subseteq Values(EmptyMonster)
        BY <1>6, <1>7, <3>1 DEF Values
    <3>3. Values(spawned) \subseteq Values(EmptyMonster)
        BY <1>5, <3>1 DEF Values
    <3> QED
        BY <3>2, <3>3
  <2> QED
      BY <2>2, <2>3
<1>11. /\ jobs' \in Seq(Pool) /\ Len(jobs') = Len(jobs) + n
       /\ Values(jobs') = Values(jobs) \cup Values(spawned)
       /\ Distinct(jobs')
  <2>1. jobs \in Seq(Pool)
      BY DEF TypeOK
  <2>2. Distinct(jobs) /\ Values(jobs) \cap Values(spawned) = {}
      BY <1>10 DEF Places
  <2>3. \A u, v \in Seq(Pool) : u \o v \in Seq(Pool) /\ Len(u \o v) = Len(u) + Len(v)
      BY ConcatProperties
  <2>4. \A u, v \in Seq(Pool) :
            /\ Values(u \o v) = Values(u) \cup Values(v)
            /\ Distinct(u) /\ Distinct(v) /\ Values(u) \cap Values(v) = {}
                   => Distinct(u \o v)
      BY ConcatHolds
  <2>5. jobs' = jobs \o spawned /\ spawned \in Seq(Pool) /\ Len(spawned) = n
      BY <1>2, <1>4
  <2>6. jobs' \in Seq(Pool) /\ Len(jobs') = Len(jobs) + n
      BY <2>1, <2>3, <2>5
  <2>7. Values(jobs') = Values(jobs) \cup Values(spawned)
      BY <2>1, <2>4, <2>5
  <2>8. Distinct(jobs')
      BY <1>8, <2>1, <2>2, <2>4, <2>5
  <2> QED
      BY <2>6, <2>7, <2>8
<1>12. Places'
  <2>1. Len(EmptyMonster') + Len(jobs') + Len(AliveMonsterArray') = MaxCount
    <3>1. Len(jobs) \in Nat /\ Len(AliveMonsterArray) \in Nat
        BY DEF TypeOK
    <3>2. len + Len(jobs) + Len(AliveMonsterArray) = MaxCount
        BY DEF Places, len
    <3>3. /\ Len(EmptyMonster') = len - n /\ Len(jobs') = Len(jobs) + n
          /\ Len(AliveMonsterArray') = Len(AliveMonsterArray)
        BY <1>6, <1>7, <1>11
    <3> QED
        BY <1>1, <3>1, <3>2, <3>3
  <2> QED
      BY <1>8, <1>9, <1>10, <1>11, <2>1 DEF Places
<1>13. SentIn(n)
  <2>1. Cardinality(Values(spawned)) = n
      BY <1>4, <1>8, Counted
  <2>2. Values(EmptyMonster') = Values(EmptyMonster) \ Values(spawned)
      BY <1>9, <1>10
  <2> QED
      BY <1>10, <1>11, <2>1, <2>2 DEF SentIn
<1> QED
    BY <1>3, <1>6, <1>7, <1>11, <1>12, <1>13 DEF len

(* Update spawns the first part of the queue and keeps the invariant. *)
LEMMA UpdateStep ==
    ASSUME Inv, Update
    PROVE  /\ Inv' /\ CurrentCount' = CurrentCount + deaths[RespawnTime]
           /\ SentIn(deaths[RespawnTime])
<1> DEFINE n == deaths[RespawnTime]
<1>1. TypeOK /\ Places /\ CountsAgree /\ IndexAgrees
    BY DEF Inv
<1>2. PICK b : Parts(b)
    BY DEF Inv, QueueInParts
<1>3. /\ Cardinality(Due) = n /\ n \in 0 .. Len(RespawnQueue)
      /\ n = b[RespawnTime - 1]
    BY <1>1, <1>2, DueIsFirstPart
<1>4. (IF RespawnQueue = <<>> THEN MaxCount - CurrentCount ELSE 0) = 0
    BY <1>1 DEF CountsAgree, TypeOK
<1>5. /\ SpawnMonsters(0 + Cardinality(Due))
      /\ RespawnQueue' = SubSeq(Left, Cardinality(Due) + 1, Len(Left))
      /\ deaths' = AgedDeaths
      /\ UNCHANGED <<aliveVars, listed>>
    BY <1>4 DEF Update, Due, Left
<1>6. SpawnMonsters(n) /\ RespawnQueue' = SubSeq(Left, n + 1, Len(Left))
  <2>1. 0 + Cardinality(Due) = n
      BY <1>3
  <2> QED
      BY <1>3, <1>5, <2>1
<1>7. UNCHANGED <<AliveMonster, AliveMonsterArray, listed>>
    BY <1>5 DEF aliveVars
<1>8. n \in 0 .. Len(EmptyMonster) /\ n \in 0 .. MaxCount
    BY <1>1, <1>3 DEF CountsAgree, TypeOK
<1>9. /\ EmptyMonster' \in Seq(Pool) /\ jobs' \in Seq(Pool)
      /\ Len(EmptyMonster') = Len(EmptyMonster) - n
      /\ health' \in [Pool -> 0 .. Hits]
      /\ Places'
      /\ SentIn(n)
    BY <1>1, <1>6, <1>7, <1>8, SpawnStep
<1>10. /\ RespawnQueue' \in Seq(0 .. RespawnTime)
       /\ Len(RespawnQueue') = Len(RespawnQueue) - n
       /\ QueueInParts'
  <2>1. n \in 0 .. Len(RespawnQueue)
      BY <1>3
  <2> HIDE DEF n
  <2>2. /\ RespawnQueue' \in Seq(0 .. RespawnTime)
        /\ Len(RespawnQueue') = Len(RespawnQueue) - n
        /\ \A i \in 1 .. Len(RespawnQueue') : RespawnQueue'[i] = Left[i + n]
      BY <1>1, <1>6, <2>1, DueErased
  <2>3. n = deaths[RespawnTime]
      BY DEF n
  <2> QED
      BY <1>1, <1>2, <1>5, <2>2, <2>3, PartsGrowOlder
<1>11. CurrentCount' = CurrentCount + n
    BY <1>6 DEF SpawnMonsters
<1>12. CountsAgree' /\ CurrentCount' \in 0 .. MaxCount
  <2>1. /\ CurrentCount \in Nat /\ Len(RespawnQueue) \in Nat
        /\ Len(RespawnQueue') \in Nat /\ n \in Nat
      BY <1>1, <1>8, <1>10 DEF TypeOK
  <2>2. /\ Len(RespawnQueue) = Len(EmptyMonster)
        /\ CurrentCount + Len(RespawnQueue) = MaxCount
      BY <1>1 DEF CountsAgree
  <2> HIDE DEF n
  <2>3. /\ Len(RespawnQueue') = Len(EmptyMonster')
        /\ CurrentCount' + Len(RespawnQueue') = MaxCount
        /\ CurrentCount' \in 0 .. MaxCount
    <3>1. /\ Len(EmptyMonster') = Len(RespawnQueue) - n
          /\ Len(RespawnQueue') = Len(RespawnQueue) - n
          /\ CurrentCount' = CurrentCount + n
        BY <1>9, <1>10, <1>11, <2>2
    <3> QED
        BY <2>1, <2>2, <3>1
  <2> QED
      BY <2>3 DEF CountsAgree
<1>13. deaths' \in [1 .. RespawnTime -> 0 .. MaxCount]
    BY <1>1, <1>5 DEF AgedDeaths, TypeOK
<1>14. TypeOK' /\ IndexAgrees'
    BY <1>1, <1>7, <1>9, <1>10, <1>12, <1>13 DEF TypeOK, IndexAgrees
<1> QED
    BY <1>9, <1>10, <1>11, <1>12, <1>14 DEF Inv

-----------------------------------------------------------------------------
(* What is held after one is added at the end, taken from the front, or     *)
(* taken from anywhere with the last put in its place.                      *)
LEMMA AppendHolds ==
    ASSUME NEW S, NEW s \in Seq(S), NEW e \in S
    PROVE  /\ Values(Append(s, e)) = Values(s) \cup {e}
           /\ Distinct(s) /\ e \notin Values(s) => Distinct(Append(s, e))
<1> DEFINE u == Append(s, e)
<1>1. /\ u \in Seq(S) /\ Len(u) = Len(s) + 1 /\ u[Len(s) + 1] = e
      /\ \A i \in 1 .. Len(s) : u[i] = s[i]
    BY AppendProperties
<1> HIDE DEF u
<1>2. Len(s) \in Nat /\ DOMAIN s = 1 .. Len(s) /\ DOMAIN u = 1 .. Len(s) + 1
    BY <1>1
<1>3. /\ \A i \in DOMAIN u : i \in DOMAIN s \/ i = Len(s) + 1
      /\ \A i \in DOMAIN s : i \in DOMAIN u
      /\ Len(s) + 1 \in DOMAIN u
    BY <1>2
<1>4. Values(u) = Values(s) \cup {e}
    BY <1>1, <1>2, <1>3 DEF Values
<1>5. Distinct(s) /\ e \notin Values(s) => Distinct(u)
    BY <1>1, <1>2, <1>3 DEF Values, Distinct
<1> QED
    BY <1>4, <1>5 DEF u

LEMMA TailHolds ==
    ASSUME NEW S, NEW s \in Seq(S), s # <<>>
    PROVE  /\ Values(s) = Values(Tail(s)) \cup {Head(s)}
           /\ Distinct(s) => Distinct(Tail(s)) /\ Head(s) \notin Values(Tail(s))
<1>1. /\ Tail(s) \in Seq(S) /\ Len(Tail(s)) = Len(s) - 1
      /\ \A i \in 1 .. Len(Tail(s)) : Tail(s)[i] = s[i + 1]
    BY HeadTailProperties
<1>2. Head(s) = s[1] /\ Len(s) \in Nat \ {0} /\ DOMAIN s = 1 .. Len(s)
    BY EmptySeq
<1>3. DOMAIN Tail(s) = 1 .. Len(s) - 1
    BY <1>1
<1>4. /\ 1 \in DOMAIN s
      /\ \A i \in DOMAIN Tail(s) : i + 1 \in DOMAIN s /\ i + 1 # 1
                                   /\ Tail(s)[i] = s[i + 1]
      /\ \A i \in DOMAIN s : i # 1 => i - 1 \in DOMAIN Tail(s)
                                     /\ Tail(s)[i - 1] = s[i]
    BY <1>1, <1>2, <1>3
<1>5. Values(s) = Values(Tail(s)) \cup {Head(s)}
  <2>1. Values(s) \subseteq Values(Tail(s)) \cup {Head(s)}
      BY <1>2, <1>4 DEF Values
  <2>2. Values(Tail(s)) \cup {Head(s)} \subseteq Values(s)
      BY <1>2, <1>4 DEF Values
  <2> QED
      BY <2>1, <2>2
<1>6. ASSUME Distinct(s) PROVE Distinct(Tail(s)) /\ Head(s) \notin Values(Tail(s))
  <2>1. ASSUME NEW i \in DOMAIN Tail(s), NEW j \in DOMAIN Tail(s),
               Tail(s)[i] = Tail(s)[j]
        PROVE  i = j
    <3>1. i + 1 = j + 1
        BY <1>4, <1>6, <2>1 DEF Distinct
    <3> QED
        BY <1>3, <3>1
  <2>2. \A i \in DOMAIN Tail(s) : Tail(s)[i] # Head(s)
      BY <1>2, <1>4, <1>6 DEF Distinct
  <2> QED
      BY <2>1, <2>2 DEF Distinct, Values
<1> QED
    BY <1>5, <1>6

LEMMA RemoveHolds ==
    ASSUME NEW S, NEW s \in Seq(S), NEW i \in 1 .. Len(s), Distinct(s),
           NEW t \in Seq(S), Len(t) = Len(s) - 1,
           \A j \in 1 .. Len(s) - 1 : t[j] = IF j = i THEN s[Len(s)] ELSE s[j]
    PROVE  Values(t) = Values(s) \ {s[i]} /\ Distinct(t)
<1> DEFINE n == Len(s)
<1>1. n \in Nat /\ i \in 1 .. n /\ n \in 1 .. n /\ DOMAIN s = 1 .. n
  <2>1. n \in Nat /\ DOMAIN s = 1 .. n /\ i \in 1 .. n
      BY LenProperties
  <2> HIDE DEF n
  <2> QED
      BY <2>1
<1>2. DOMAIN t = 1 .. n - 1
    BY LenProperties
<1> HIDE DEF n
<1>3. \A j \in 1 .. n - 1 : j \in 1 .. n /\ j # n
                            /\ t[j] = IF j = i THEN s[n] ELSE s[j]
    BY <1>1 DEF n
<1>4. Distinct(t)
    BY <1>1, <1>2, <1>3 DEF Distinct
<1>5. Values(t) = Values(s) \ {s[i]}
  <2>1. \A j \in 1 .. n - 1 : t[j] # s[i] /\ \E k \in 1 .. n : t[j] = s[k]
      BY <1>1, <1>3 DEF Distinct
  <2>2. ASSUME NEW k \in 1 .. n, k # i PROVE \E j \in 1 .. n - 1 : t[j] = s[k]
    <3>1. CASE k = n
      <4>1. i \in 1 .. n - 1
          BY <1>1, <2>2, <3>1
      <4> QED
          BY <1>3, <3>1, <4>1
    <3>2. CASE k # n
      <4>1. k \in 1 .. n - 1
          BY <1>1, <3>2
      <4> QED
          BY <1>3, <2>2, <4>1
    <3> QED
        BY <3>1, <3>2
  <2>3. Values(t) \subseteq Values(s) \ {s[i]}
      BY <1>1, <1>2, <2>1 DEF Values
  <2>4. Values(s) \ {s[i]} \subseteq Values(t)
      BY <1>1, <1>2, <2>2 DEF Values
  <2> QED
      BY <2>3, <2>4
<1> QED
    BY <1>4, <1>5

(* The entering job takes the first that waits to the alive. *)
LEMMA EnterStep ==
    ASSUME Inv, EnterMonster
    PROVE  /\ Inv'
           /\ \E m \in Values(jobs) :
                  /\ Values(jobs') = Values(jobs) \ {m}
                  /\ Values(AliveMonsterArray') = Values(AliveMonsterArray) \cup {m}
<1> DEFINE m == Head(jobs)
           n == Len(AliveMonsterArray)
<1>1. TypeOK /\ Places /\ CountsAgree /\ IndexAgrees /\ QueueInParts
    BY DEF Inv
<1>2. /\ jobs \in Seq(Pool) /\ jobs # <<>> /\ AliveMonsterArray \in Seq(Pool)
      /\ listed' = listed \cup {m} /\ jobs' = Tail(jobs)
      /\ AliveMonsterArray' = Append(AliveMonsterArray, m)
      /\ AliveMonster' = [x \in DOMAIN AliveMonster \cup {m} |->
                               IF x \in DOMAIN AliveMonster THEN AliveMonster[x]
                               ELSE n + 1]
      /\ UNCHANGED <<EmptyMonster, RespawnQueue, CurrentCount, health, deaths>>
    BY <1>1 DEF EnterMonster, TypeOK, poolVars
<1>3. /\ m \in Pool /\ jobs' \in Seq(Pool) /\ Len(jobs') = Len(jobs) - 1
      /\ Values(jobs) = Values(jobs') \cup {m}
      /\ Distinct(jobs') /\ m \notin Values(jobs')
    BY <1>1, <1>2, HeadTailProperties, TailHolds DEF Places
<1> HIDE DEF m
<1>4. m \notin Values(AliveMonsterArray) /\ m \notin Values(EmptyMonster)
    BY <1>1, <1>3 DEF Places
<1>5. /\ AliveMonsterArray' \in Seq(Pool) /\ Len(AliveMonsterArray') = n + 1
      /\ \A i \in 1 .. n : AliveMonsterArray'[i] = AliveMonsterArray[i]
      /\ AliveMonsterArray'[n + 1] = m
      /\ Values(AliveMonsterArray') = Values(AliveMonsterArray) \cup {m}
      /\ Distinct(AliveMonsterArray')
    BY <1>1, <1>2, <1>3, <1>4, AppendProperties, AppendHolds DEF Places
<1>6. n \in Nat /\ Len(jobs) \in Nat \ {0} /\ Len(EmptyMonster) \in Nat
    BY <1>1, <1>2, EmptySeq DEF TypeOK
<1>7. Places'
  <2>1. Len(EmptyMonster') + Len(jobs') + Len(AliveMonsterArray') = MaxCount
    <3>1. /\ Len(EmptyMonster) + Len(jobs) + n = MaxCount
          /\ Len(EmptyMonster') = Len(EmptyMonster)
        BY <1>1, <1>2 DEF Places
    <3>2. Len(jobs') = Len(jobs) - 1 /\ Len(AliveMonsterArray') = n + 1
        BY <1>3, <1>5
    <3> HIDE DEF n
    <3> QED
        BY <1>6, <3>1, <3>2
  <2> QED
      BY <1>1, <1>2, <1>3, <1>4, <1>5, <2>1 DEF Places
<1>8. DOMAIN AliveMonster = Values(AliveMonsterArray)
    BY <1>1 DEF IndexAgrees
<1>9. /\ DOMAIN AliveMonster' = DOMAIN AliveMonster \cup {m}
      /\ \A x \in DOMAIN AliveMonster : AliveMonster'[x] = AliveMonster[x]
      /\ AliveMonster'[m] = n + 1
    BY <1>2, <1>4, <1>8
<1>10. IndexAgrees'
  <2>1. /\ DOMAIN AliveMonsterArray = 1 .. n
        /\ DOMAIN AliveMonsterArray' = 1 .. n + 1
        /\ \A i \in 1 .. n + 1 : i \in 1 .. n \/ i = n + 1
    <3>1. AliveMonsterArray \in Seq(Pool)
        BY <1>2
    <3> QED
        BY <1>5, <1>6, <3>1
  <2>2. \A i \in 1 .. n : /\ AliveMonsterArray[i] \in DOMAIN AliveMonster
                          /\ AliveMonster[AliveMonsterArray[i]] = i
      BY <1>1, <1>8, <2>1 DEF IndexAgrees, Values
  <2> HIDE DEF n
  <2>3. \A i \in 1 .. n + 1 : AliveMonster'[AliveMonsterArray'[i]] = i
      BY <1>5, <1>9, <2>1, <2>2
  <2> QED
      BY <1>5, <1>8, <1>9, <2>1, <2>3 DEF IndexAgrees
<1>11. TypeOK'
  <2>1. n + 1 \in 1 .. MaxCount
    <3>1. n + Len(jobs) + Len(EmptyMonster) = MaxCount
        BY <1>1, <1>6 DEF Places
    <3> HIDE DEF n
    <3> QED
        BY <1>6, <3>1
  <2>2. /\ DOMAIN AliveMonster' \subseteq Pool
        /\ \A x \in DOMAIN AliveMonster' : AliveMonster'[x] \in 1 .. MaxCount
      BY <1>1, <1>3, <1>9, <2>1 DEF TypeOK
  <2>3. listed' \subseteq Pool
      BY <1>1, <1>2, <1>3 DEF TypeOK
  <2> QED
      BY <1>1, <1>2, <1>3, <1>5, <2>2, <2>3 DEF TypeOK
<1>12. CountsAgree'
    BY <1>1, <1>2 DEF CountsAgree
<1>13. QueueInParts'
    BY <1>1, <1>2, SameParts
<1> QED
    BY <1>3, <1>5, <1>7, <1>10, <1>11, <1>12, <1>13 DEF Inv

(* One that was alive is dead. *)
Died(m) == /\ m \in Values(AliveMonsterArray)
           /\ Values(AliveMonsterArray') = Values(AliveMonsterArray) \ {m}
           /\ Values(EmptyMonster') = Values(EmptyMonster) \cup {m}
           /\ deaths' = [deaths EXCEPT ![1] = @ + 1]

(* A death gives the monster back to the pool and queues its respawn. *)
LEMMA DeadStep ==
    ASSUME Inv, NEW m \in Pool, OnMonsterDead(m), UNCHANGED <<jobs, listed>>,
           health' \in [Pool -> 0 .. Hits]
    PROVE  Inv' /\ (Died(m) \/ UNCHANGED <<EmptyMonster, AliveMonsterArray, deaths>>)
<1>1. TypeOK /\ Places /\ CountsAgree /\ IndexAgrees /\ QueueInParts
    BY DEF Inv
<1>2. CASE UNCHANGED <<poolVars, aliveVars, deaths>>
  <2>1. UNCHANGED <<EmptyMonster, RespawnQueue, CurrentCount, AliveMonster,
                    AliveMonsterArray, jobs, listed, deaths>>
      BY <1>2 DEF poolVars, aliveVars
  <2>2. TypeOK'
      BY <1>1, <2>1 DEF TypeOK
  <2>3. Places' /\ CountsAgree' /\ IndexAgrees'
      BY <1>1, <2>1 DEF Places, CountsAgree, IndexAgrees
  <2>4. Inv'
      BY <1>1, <2>1, <2>2, <2>3, SameParts DEF Inv
  <2> QED
      BY <2>1, <2>4
<1>3. CASE m \in DOMAIN AliveMonster /\ ~UNCHANGED <<poolVars, aliveVars, deaths>>
  <2> DEFINE A == AliveMonsterArray
             n == Len(A)
             i == AliveMonster[m]
  <2>1. /\ A' = SubSeq([A EXCEPT ![i] = A[n]], 1, n - 1)
        /\ AliveMonster' = [x \in DOMAIN AliveMonster \ {m} |->
                                IF x = A[n] THEN i ELSE AliveMonster[x]]
        /\ EmptyMonster' = Append(EmptyMonster, m)
        /\ RespawnQueue' = Append(RespawnQueue, RespawnTime)
        /\ CurrentCount' = CurrentCount - 1
        /\ deaths' = [deaths EXCEPT ![1] = @ + 1]
      BY <1>3 DEF OnMonsterDead
  <2>2. /\ EmptyMonster \in Seq(Pool) /\ A \in Seq(Pool) /\ jobs \in Seq(Pool)
        /\ RespawnQueue \in Seq(0 .. RespawnTime) /\ CurrentCount \in 0 .. MaxCount
        /\ Len(EmptyMonster) \in Nat /\ n \in Nat /\ Len(jobs) \in Nat
        /\ Len(RespawnQueue) \in Nat
        /\ deaths \in [1 .. RespawnTime -> 0 .. MaxCount]
    <3>1. /\ EmptyMonster \in Seq(Pool) /\ A \in Seq(Pool) /\ jobs \in Seq(Pool)
          /\ RespawnQueue \in Seq(0 .. RespawnTime) /\ CurrentCount \in 0 .. MaxCount
          /\ deaths \in [1 .. RespawnTime -> 0 .. MaxCount]
        BY <1>1 DEF TypeOK
    <3>2. \A u \in Seq(Pool) : Len(u) \in Nat
        BY LenProperties
    <3>3. \A u \in Seq(0 .. RespawnTime) : Len(u) \in Nat
        BY LenProperties
    <3> QED
        BY <3>1, <3>2, <3>3
  <2>3. /\ DOMAIN A = 1 .. n /\ DOMAIN AliveMonster = Values(A)
        /\ \A j \in 1 .. n : AliveMonster[A[j]] = j /\ A[j] \in DOMAIN AliveMonster
    <3>1. DOMAIN A = 1 .. n
        BY <2>2, LenProperties
    <3> QED
        BY <1>1, <3>1 DEF IndexAgrees, Values
  <2>4. i \in 1 .. n /\ A[i] = m
      BY <1>3, <2>3 DEF Values
  <2> HIDE DEF i, n
  <2>5. /\ A' \in Seq(Pool) /\ Len(A') = n - 1
        /\ \A j \in 1 .. n - 1 : A'[j] = IF j = i THEN A[n] ELSE A[j]
        /\ Values(A') = Values(A) \ {m}
        /\ Distinct(A')
    <3>1. A \in Seq(Pool) /\ i \in 1 .. Len(A) /\ Distinct(A)
        BY <1>1, <2>2, <2>4 DEF Places, n
    <3>2. A' = SubSeq([A EXCEPT ![i] = A[Len(A)]], 1, Len(A) - 1)
        BY <2>1 DEF n
    <3>3. PICK u : u = [A EXCEPT ![i] = A[n]]
        OBVIOUS
    <3>4. A[n] \in Pool /\ DOMAIN A = 1 .. n /\ n \in Nat /\ A \in [1 .. n -> Pool]
      <4>1. n \in 1 .. n
          BY <2>2, <2>4
      <4> QED
          BY <2>2, <2>3, <4>1, LenProperties, ElementOfSeq DEF n
    <3>5. u \in [1 .. n -> Pool]
        BY <3>3, <3>4
    <3>6. u \in Seq(Pool) /\ Len(u) = n
        BY <3>4, <3>5, SeqDef
    <3>7. /\ A' \in Seq(Pool) /\ Len(A') = n - 1
          /\ \A j \in 1 .. n - 1 : A'[j] = u[j]
      <4>1. n - 1 \in 0 .. Len(u) /\ A' = SubSeq(u, 1, n - 1)
          BY <2>2, <2>4, <3>2, <3>3, <3>6 DEF n
      <4> QED
          BY <3>6, <4>1, Shortened
    <3>8. \A j \in 1 .. n - 1 : A'[j] = IF j = i THEN A[n] ELSE A[j]
      <4>1. \A j \in 1 .. n - 1 : j \in 1 .. n
          BY <3>4
      <4> QED
          BY <3>3, <3>4, <3>7, <4>1
    <3>9. Values(A') = Values(A) \ {A[i]} /\ Distinct(A')
        BY <3>1, <3>7, <3>8, RemoveHolds DEF n
    <3> QED
        BY <2>4, <3>7, <3>8, <3>9
  <2>6. m \notin Values(EmptyMonster) /\ m \in Values(A)
      BY <1>1, <1>3, <2>3 DEF Places
  <2>7. /\ EmptyMonster' \in Seq(Pool) /\ Len(EmptyMonster') = Len(EmptyMonster) + 1
        /\ Values(EmptyMonster') = Values(EmptyMonster) \cup {m}
        /\ Distinct(EmptyMonster')
      BY <1>1, <2>1, <2>2, <2>6, AppendProperties, AppendHolds DEF Places
  <2>8. Places'
    <3>1. Len(EmptyMonster) + Len(jobs) + n = MaxCount
        BY <1>1 DEF Places, n
    <3>2. Len(EmptyMonster') + Len(jobs') + Len(A') = MaxCount
      <4>1. /\ Len(EmptyMonster') = Len(EmptyMonster) + 1 /\ jobs' = jobs
            /\ Len(A') = n - 1
          BY <2>5, <2>7
      <4>2. Len(EmptyMonster) \in Nat /\ Len(jobs) \in Nat /\ n \in Nat
          BY <2>2
      <4> QED
          BY <3>1, <4>1, <4>2
    <3> QED
        BY <1>1, <2>5, <2>6, <2>7, <3>2 DEF Places
  <2>9. IndexAgrees'
    <3>1. DOMAIN AliveMonster' = Values(A')
        BY <2>1, <2>3, <2>5
    <3>2. DOMAIN A' = 1 .. n - 1
        BY <2>2, <2>5
    <3>3. ASSUME NEW j \in 1 .. n - 1 PROVE AliveMonster'[A'[j]] = j
      <4>1. j \in 1 .. n /\ j # n /\ n \in 1 .. n
          BY <2>2
      <4>2. A'[j] \in DOMAIN AliveMonster \ {m}
          BY <2>3, <2>5, <3>2 DEF Values
      <4>3. AliveMonster'[A'[j]] = IF A'[j] = A[n] THEN i ELSE AliveMonster[A'[j]]
          BY <2>1, <4>2
      <4>4. CASE j = i
          BY <2>5, <4>3, <4>4
      <4>5. CASE j # i
        <5>1. A'[j] = A[j] /\ AliveMonster[A[j]] = j /\ A[j] # A[n]
            BY <2>3, <2>5, <4>1, <4>5
        <5> QED
            BY <4>3, <5>1
      <4> QED
          BY <4>4, <4>5
    <3> QED
        BY <3>1, <3>2, <3>3 DEF IndexAgrees
  <2>10. CurrentCount # 0
    <3>1. n \in Nat \ {0} /\ Len(EmptyMonster) < MaxCount
      <4>1. Len(EmptyMonster) + Len(jobs) + n = MaxCount
          BY <1>1 DEF Places, n
      <4>2. n \in Nat /\ i \in 1 .. n
          BY <2>2, <2>4
      <4>3. Len(EmptyMonster) \in Nat /\ Len(jobs) \in Nat
          BY <2>2
      <4> QED
          BY <4>1, <4>2, <4>3
    <3>2. CurrentCount + Len(EmptyMonster) = MaxCount /\ Len(EmptyMonster) \in Nat
        BY <1>1, <2>2 DEF CountsAgree
    <3> QED
        BY <3>1, <3>2
  <2>11. /\ RespawnQueue' \in Seq(0 .. RespawnTime)
         /\ Len(RespawnQueue') = Len(RespawnQueue) + 1
         /\ \A k \in 1 .. Len(RespawnQueue) : RespawnQueue'[k] = RespawnQueue[k]
         /\ RespawnQueue'[Len(RespawnQueue) + 1] = RespawnTime
    <3>1. RespawnTime \in 0 .. RespawnTime
        OBVIOUS
    <3> DEFINE S == 0 .. RespawnTime
    <3>2. RespawnTime \in S /\ RespawnQueue \in Seq(S)
        BY <2>2, <3>1
    <3> HIDE DEF S
    <3>3. /\ RespawnQueue' \in Seq(S)
          /\ Len(RespawnQueue') = Len(RespawnQueue) + 1
          /\ \A k \in 1 .. Len(RespawnQueue) : RespawnQueue'[k] = RespawnQueue[k]
          /\ RespawnQueue'[Len(RespawnQueue) + 1] = RespawnTime
        BY <2>1, <3>2, AppendProperties
    <3> QED
        BY <3>3 DEF S
  <2>12. CountsAgree' /\ CurrentCount' \in 0 .. MaxCount
    <3>1. /\ Len(RespawnQueue) = Len(EmptyMonster)
          /\ CurrentCount + Len(RespawnQueue) = MaxCount
        BY <1>1 DEF CountsAgree
    <3>2. /\ Len(RespawnQueue') = Len(EmptyMonster')
          /\ CurrentCount' + Len(RespawnQueue') = MaxCount
          /\ CurrentCount' \in 0 .. MaxCount
      <4>1. /\ Len(RespawnQueue') = Len(RespawnQueue) + 1
            /\ Len(EmptyMonster') = Len(EmptyMonster) + 1
            /\ CurrentCount' = CurrentCount - 1
          BY <2>1, <2>7, <2>11
      <4>2. CurrentCount \in 0 .. MaxCount /\ Len(RespawnQueue) \in Nat
          BY <2>2
      <4>3. CurrentCount' \in 0 .. MaxCount
          BY <2>10, <4>1, <4>2
      <4>4. CurrentCount' + Len(RespawnQueue') = CurrentCount + Len(RespawnQueue)
          BY <4>1, <4>2
      <4> QED
          BY <3>1, <4>1, <4>3, <4>4
    <3> QED
        BY <3>2 DEF CountsAgree
  <2>13. QueueInParts' /\ deaths' \in [1 .. RespawnTime -> 0 .. MaxCount]
    <3>1. Len(RespawnQueue) + 1 <= MaxCount
      <4>1. CurrentCount + Len(RespawnQueue) = MaxCount
          BY <1>1 DEF CountsAgree
      <4> QED
          BY <2>2, <2>10, <4>1
    <3> QED
        BY <1>1, <2>1, <2>11, <3>1, DeadParts
  <2>14. TypeOK'
    <3>1. DOMAIN AliveMonster' \subseteq Pool
        BY <1>1, <2>1 DEF TypeOK
    <3>2. \A x \in DOMAIN AliveMonster' : AliveMonster'[x] \in 1 .. MaxCount
      <4>1. AliveMonster[m] \in 1 .. MaxCount
          BY <1>1, <1>3 DEF TypeOK
      <4> QED
          BY <1>1, <2>1, <4>1 DEF TypeOK, i
    <3> QED
        BY <1>1, <2>5, <2>7, <2>11, <2>12, <2>13, <3>1, <3>2 DEF TypeOK
  <2>15. Died(m)
      BY <2>1, <2>5, <2>6, <2>7 DEF Died
  <2> QED
      BY <2>8, <2>9, <2>12, <2>13, <2>14, <2>15 DEF Inv
<1> QED
    BY <1>2, <1>3 DEF OnMonsterDead

(* A hit that does not kill touches nothing but the health. *)
LEMMA DamagedStep ==
    ASSUME Inv, NEW m \in Pool, OnDamaged(m)
    PROVE  Inv' /\ (Died(m) \/ UNCHANGED <<EmptyMonster, AliveMonsterArray, deaths>>)
<1>1. health' = [health EXCEPT ![m] = Older(@)] /\ UNCHANGED <<jobs, listed>>
    BY DEF OnDamaged
<1>2. health' \in [Pool -> 0 .. Hits]
  <2>1. health \in [Pool -> 0 .. Hits]
      BY DEF Inv, TypeOK
  <2>2. Older(health[m]) \in 0 .. Hits
      BY <2>1 DEF Older
  <2> QED
      BY <1>1, <2>1, <2>2
<1>3. CASE OnMonsterDead(m)
    BY <1>1, <1>2, <1>3, DeadStep
<1>4. CASE UNCHANGED <<poolVars, aliveVars, deaths>>
  <2>1. UNCHANGED <<EmptyMonster, RespawnQueue, CurrentCount, AliveMonster,
                    AliveMonsterArray, jobs, listed, deaths>>
      BY <1>1, <1>4 DEF poolVars, aliveVars
  <2>2. TypeOK'
      BY <1>2, <2>1 DEF Inv, TypeOK
  <2>3. Places' /\ CountsAgree' /\ IndexAgrees'
      BY <2>1 DEF Inv, Places, CountsAgree, IndexAgrees
  <2>4. Inv'
      BY <2>1, <2>2, <2>3, SameParts DEF Inv
  <2> QED
      BY <2>1, <2>4
<1> QED
    BY <1>3, <1>4 DEF OnDamaged

-----------------------------------------------------------------------------
(* Every step keeps the invariant. *)
LEMMA Step == Inv /\ [Next]_vars => Inv'
<1> SUFFICES ASSUME Inv, [Next]_vars PROVE Inv'
    OBVIOUS
<1>1. CASE UNCHANGED vars
  <2>1. UNCHANGED <<EmptyMonster, RespawnQueue, CurrentCount, AliveMonster,
                    AliveMonsterArray, jobs, health, listed, deaths>>
      BY <1>1 DEF vars, poolVars, aliveVars
  <2>2. TypeOK'
      BY <2>1 DEF Inv, TypeOK
  <2>3. Places' /\ CountsAgree' /\ IndexAgrees'
      BY <2>1 DEF Inv, Places, CountsAgree, IndexAgrees
  <2> QED
      BY <2>1, <2>2, <2>3, SameParts DEF Inv
<1>2. CASE Update
    BY <1>2, UpdateStep
<1>3. CASE EnterMonster
    BY <1>3, EnterStep
<1>4. ASSUME NEW m \in Pool, OnDamaged(m) PROVE Inv'
    BY <1>4, DamagedStep
<1> QED
    BY <1>1, <1>2, <1>3, <1>4 DEF Next

-----------------------------------------------------------------------------
(* Every non-empty set of numbers has a least one. *)
LEMMA Least ==
    ASSUME NEW T \in SUBSET Nat, T # {}
    PROVE  \E x \in T : \A y \in T : x <= y
<1> DEFINE R == {ss \in Nat \X Nat : ss[1] < ss[2]}
<1>1. IsWellFoundedOn(R, Nat)
    BY NatLessThanWellFounded DEF OpToRel
<1> HIDE DEF R
<1>2. \E x \in T : \A y \in T : <<y, x>> \notin R
    BY <1>1, WFMin
<1>3. \A x, y \in Nat : y < x => <<y, x>> \in R
    BY DEF R
<1>4. PICK x \in T : \A y \in T : <<y, x>> \notin R
    BY <1>2
<1>5. ASSUME NEW y \in T PROVE x <= y
  <2>1. x \in Nat /\ y \in Nat /\ ~(y < x)
      BY <1>3, <1>4
  <2> QED
      BY <2>1
<1> QED
    BY <1>5

(* So a set of numbers up to n that has n, and with each number the one     *)
(* below, has all of them.                                                  *)
LEMMA DownTo ==
    ASSUME NEW n \in Nat, NEW T, n \in T,
           \A k \in 0 .. n - 1 : k + 1 \in T => k \in T
    PROVE  \A k \in 0 .. n : k \in T
<1> SUFFICES ASSUME NEW k \in 0 .. n, k \notin T PROVE FALSE
    OBVIOUS
<1> DEFINE Missing == {m \in 0 .. n : n - m \notin T}
<1>1. Missing \in SUBSET Nat
    OBVIOUS
<1>2. n - k \in Missing
  <2>1. n - k \in 0 .. n /\ n - (n - k) = k
      OBVIOUS
  <2> QED
      BY <2>1
<1>3. PICK m \in Missing : \A j \in Missing : m <= j
  <2>1. Missing # {}
      BY <1>2
  <2> HIDE DEF Missing
  <2> QED
      BY <1>1, <2>1, Least
<1>4. m \in 0 .. n /\ n - m \notin T
    OBVIOUS
<1>5. m # 0
    BY <1>4
<1>6. m - 1 \notin Missing
    BY <1>3, <1>4
<1>7. n - (m - 1) \in T
  <2>1. m - 1 \in 0 .. n
      BY <1>4, <1>5
  <2> QED
      BY <1>6, <2>1
<1>8. n - m \in 0 .. n - 1 /\ n - (m - 1) = (n - m) + 1
    BY <1>4, <1>5
<1> QED
    BY <1>4, <1>7, <1>8

-----------------------------------------------------------------------------
USE BufferSizeAssumption

(* The alive monsters are an array of the pool, and no more than it has. *)
ArrayFits ==
    AliveMonsterArray \in Seq(Pool) /\ Len(AliveMonsterArray) <= MaxCount

(* What one call of SetMonstersPacket writes, and where it goes on. *)
LEMMA OnePacket ==
    ASSUME ArrayFits, NEW start \in 0 .. 2 * MaxCount, NEW free \in Nat
    PROVE  LET p == SetMonstersPacket(start, free)
               n == Len(AliveMonsterArray)
           IN  /\ p.done <=> start + free >= n
               /\ p.sent \in Seq(Pool)
               /\ \A i \in 1 .. Len(p.sent) : /\ p.sent[i] = AliveMonsterArray[start + i]
                                              /\ start + i <= n
               /\ p.done => 2 * Len(p.sent) >= n - start
               /\ p.done /\ start <= n => Len(p.sent) = n - start
               /\ ~p.done => /\ Len(p.sent) = free
                             /\ p.SendStartIndex = start + 2 * free
                             /\ p.SendStartIndex <= 2 * MaxCount
<1> DEFINE A == AliveMonsterArray
           n == Len(A)
           p == SetMonstersPacket(start, free)
           Right(q) == /\ q.done <=> start + free >= n
                       /\ q.sent \in Seq(Pool)
                       /\ \A i \in 1 .. Len(q.sent) : q.sent[i] = A[start + i] /\ start + i <= n
                       /\ q.done => 2 * Len(q.sent) >= n - start
                       /\ q.done /\ start <= n => Len(q.sent) = n - start
                       /\ ~q.done => /\ Len(q.sent) = free
                                     /\ q.SendStartIndex = start + 2 * free
                                     /\ q.SendStartIndex <= 2 * MaxCount
<1> SUFFICES Right(p)
    OBVIOUS
<1>1. A \in Seq(Pool) /\ n \in Nat /\ n <= MaxCount
    BY DEF ArrayFits
<1> HIDE DEF A
<1>2. CASE start + free >= n
  <2> DEFINE t == SubSeq(A, start + 1, n)
  <2>1. p = [sent |-> t, done |-> TRUE, SendStartIndex |-> start]
      BY <1>2 DEF SetMonstersPacket, A
  <2> HIDE DEF p
  <2>4. p.sent = t /\ p.done = TRUE
      BY <2>1
  <2>2. CASE start <= n
    <3>1. start \in 0 .. n
        BY <1>1, <2>2
    <3>2. /\ t \in Seq(Pool) /\ Len(t) = n - start
          /\ \A i \in 1 .. Len(t) : t[i] = A[i + start]
        BY <1>1, <3>1, Dropped
    <3> HIDE DEF t
    <3>3. \A i \in 1 .. Len(t) : t[i] = A[start + i] /\ start + i <= n
        BY <1>1, <3>1, <3>2
    <3>4. 2 * Len(t) >= n - start
        BY <1>1, <3>1, <3>2
    <3> HIDE DEF n
    <3> QED
        BY <1>2, <2>4, <3>2, <3>3, <3>4
  <2>3. CASE start > n
    <3>1. t = <<>>
        BY <1>1, <2>3
    <3> HIDE DEF t
    <3>2. t \in Seq(Pool) /\ Len(t) = 0 /\ 2 * Len(t) >= n - start
        BY <1>1, <2>3, <3>1
    <3> HIDE DEF n
    <3>3. ~(start <= n)
        BY <1>1, <2>3
    <3> QED
        BY <1>2, <2>4, <3>2, <3>1, <3>3
  <2> QED
      BY <1>1, <2>2, <2>3
<1>3. CASE ~(start + free >= n)
  <2> DEFINE t == SubSeq(A, start + 1, start + free)
  <2>1. p = [sent |-> t, done |-> FALSE, SendStartIndex |-> start + 2 * free]
      BY <1>3 DEF SetMonstersPacket, A
  <2> HIDE DEF p
  <2>8. p.sent = t /\ p.done = FALSE /\ p.SendStartIndex = start + 2 * free
      BY <2>1
  <2>2. \A i \in start + 1 .. start + free : A[i] \in Pool
      BY <1>1, <1>3
  <2>3. start + 1 \in Int /\ start + free \in Int
      OBVIOUS
  <2>4. /\ t \in Seq(Pool)
        /\ Len(t) = IF start + 1 <= start + free
                    THEN (start + free) - (start + 1) + 1 ELSE 0
        /\ \A i \in 1 .. (start + free) - (start + 1) + 1 : t[i] = A[(start + 1) + i - 1]
      BY <1>1, <2>2, <2>3, SubSeqProperties
  <2> HIDE DEF t
  <2>5. Len(t) = free
      BY <2>4
  <2>6. \A i \in 1 .. Len(t) : t[i] = A[start + i] /\ start + i <= n
    <3> SUFFICES ASSUME NEW i \in 1 .. Len(t) PROVE t[i] = A[start + i] /\ start + i <= n
        OBVIOUS
    <3>1. i \in 1 .. (start + free) - (start + 1) + 1 /\ (start + 1) + i - 1 = start + i
        BY <2>5
    <3>2. t[i] = A[start + i]
        BY <2>4, <3>1
    <3>3. start + i <= n
        BY <1>1, <1>3, <2>5
    <3> QED
        BY <3>2, <3>3
  <2>7. start + 2 * free <= 2 * MaxCount
      BY <1>1, <1>3
  <2> HIDE DEF n
  <2> QED
      BY <1>3, <2>4, <2>5, <2>6, <2>7, <2>8
<1> QED
    BY <1>2, <1>3

-----------------------------------------------------------------------------
(* A function that is what SentFrom is to be, from n on. *)
ScansFrom(n, f) ==
    /\ f \in [n .. 2 * MaxCount -> Seq(Pool)]
    /\ \A s \in n .. 2 * MaxCount :
           f[s] = AndOn(SetMonstersPacket(s, BufferSize), f)

(* What one call and the rest write is made of the pool; and the rest is    *)
(* asked for further on only.                                               *)
LEMMA OneStep ==
    ASSUME ArrayFits, NEW s \in 0 .. 2 * MaxCount, NEW f, NEW g,
           \A t \in s + 1 .. 2 * MaxCount : f[t] = g[t] /\ f[t] \in Seq(Pool)
    PROVE  LET p == SetMonstersPacket(s, BufferSize)
           IN  AndOn(p, f) = AndOn(p, g) /\ AndOn(p, f) \in Seq(Pool)
<1> DEFINE p == SetMonstersPacket(s, BufferSize)
<1>1. /\ p.sent \in Seq(Pool)
      /\ ~p.done => p.SendStartIndex = s + 2 * BufferSize
                    /\ p.SendStartIndex <= 2 * MaxCount
  <2>1. BufferSize \in Nat
      OBVIOUS
  <2> QED
      BY <2>1, OnePacket
<1> HIDE DEF p
<1>2. ~p.done => p.SendStartIndex \in s + 1 .. 2 * MaxCount
    BY <1>1
<1> DEFINE Same == AndOn(p, f) = AndOn(p, g) /\ AndOn(p, f) \in Seq(Pool)
<1>3. ASSUME p.done PROVE Same
    BY <1>1, <1>3 DEF AndOn
<1>4. ASSUME ~p.done PROVE Same
  <2> DEFINE t == p.SendStartIndex
  <2>1. f[t] = g[t] /\ f[t] \in Seq(Pool)
      BY <1>2, <1>4
  <2> HIDE DEF t
  <2>2. p.sent \o f[t] \in Seq(Pool)
      BY <1>1, <2>1, ConcatProperties
  <2>3. AndOn(p, f) = p.sent \o f[t] /\ AndOn(p, g) = p.sent \o g[t]
      BY <1>4 DEF AndOn, t
  <2> QED
      BY <2>1, <2>2, <2>3
<1> HIDE DEF Same
<1>5. Same
    BY <1>3, <1>4
<1> QED
    BY <1>5 DEF Same, p

(* One can begin a place earlier ... *)
LEMMA ScanEarlier ==
    ASSUME ArrayFits, NEW n \in 0 .. 2 * MaxCount, NEW f, ScansFrom(n + 1, f)
    PROVE  \E g : ScansFrom(n, g)
<1> DEFINE first == AndOn(SetMonstersPacket(n, BufferSize), f)
<1> HIDE DEF first
<1> DEFINE g == [s \in n .. 2 * MaxCount |-> IF s = n THEN first ELSE f[s]]
<1>1. /\ \A t \in n + 1 .. 2 * MaxCount : f[t] \in Seq(Pool)
      /\ \A t \in n + 1 .. 2 * MaxCount :
             f[t] = AndOn(SetMonstersPacket(t, BufferSize), f)
    BY DEF ScansFrom
<1>2. \A t \in n + 1 .. 2 * MaxCount : f[t] = g[t]
    OBVIOUS
<1>3. first \in Seq(Pool)
    BY <1>1, OneStep DEF first
<1>4. g[n] = first
    OBVIOUS
<1>5. g \in [n .. 2 * MaxCount -> Seq(Pool)]
    BY <1>1, <1>3
<1> HIDE DEF g
<1>6. ASSUME NEW s \in n .. 2 * MaxCount
      PROVE  g[s] = AndOn(SetMonstersPacket(s, BufferSize), g)
  <2>1. s \in 0 .. 2 * MaxCount /\ \A t \in s + 1 .. 2 * MaxCount : t \in n + 1 .. 2 * MaxCount
      OBVIOUS
  <2>2. \A t \in s + 1 .. 2 * MaxCount : f[t] = g[t] /\ f[t] \in Seq(Pool)
      BY <1>1, <1>2, <2>1
  <2>3. AndOn(SetMonstersPacket(s, BufferSize), f)
            = AndOn(SetMonstersPacket(s, BufferSize), g)
      BY <2>1, <2>2, OneStep
  <2>4. CASE s = n
      BY <1>4, <2>3, <2>4 DEF first
  <2>5. CASE s # n
      BY <1>1, <1>2, <2>3, <2>5
  <2> QED
      BY <2>4, <2>5
<1> QED
    BY <1>5, <1>6 DEF ScansFrom

(* ... and so begin at the first: there is such a function, and SentFrom is *)
(* one.                                                                     *)
LEMMA ScanDefined == ArrayFits => ScansFrom(0, SentFrom)
<1> SUFFICES ASSUME ArrayFits PROVE ScansFrom(0, SentFrom)
    OBVIOUS
<1> DEFINE last == 2 * MaxCount + 1
           Good == {n \in 0 .. last : \E f : ScansFrom(n, f)}
<1>1. last \in Nat
    OBVIOUS
<1>2. last \in Good
  <2> DEFINE none == [s \in last .. 2 * MaxCount |-> <<>>]
  <2>1. last .. 2 * MaxCount = {}
      OBVIOUS
  <2>2. ScansFrom(last, none)
      BY <2>1 DEF ScansFrom
  <2> QED
      BY <1>1, <2>2
<1>3. \A n \in 0 .. last - 1 : n + 1 \in Good => n \in Good
  <2> SUFFICES ASSUME NEW n \in 0 .. last - 1, n + 1 \in Good PROVE n \in Good
      OBVIOUS
  <2>1. PICK f : ScansFrom(n + 1, f)
      OBVIOUS
  <2>2. n \in 0 .. 2 * MaxCount
      OBVIOUS
  <2>3. \E g : ScansFrom(n, g)
      BY <2>1, <2>2, ScanEarlier
  <2> QED
      BY <2>3
<1>4. 0 \in Good
  <2> HIDE DEF last, Good
  <2>1. \A n \in 0 .. last : n \in Good
      BY <1>1, <1>2, <1>3, DownTo
  <2> QED
      BY <1>1, <2>1
<1>5. PICK f : ScansFrom(0, f)
    BY <1>4
<1>6. f = [s \in 0 .. 2 * MaxCount |-> AndOn(SetMonstersPacket(s, BufferSize), f)]
    BY <1>5 DEF ScansFrom
<1>7. SentFrom = [s \in 0 .. 2 * MaxCount |->
                      AndOn(SetMonstersPacket(s, BufferSize), SentFrom)]
    BY <1>6 DEF SentFrom
<1>8. \A s \in 0 .. 2 * MaxCount : SentFrom[s] \in Seq(Pool)
  <2> DEFINE Typed == {n \in 0 .. last : \A t \in n .. 2 * MaxCount : SentFrom[t] \in Seq(Pool)}
  <2>1. last \in Typed
      OBVIOUS
  <2>2. \A n \in 0 .. last - 1 : n + 1 \in Typed => n \in Typed
    <3> SUFFICES ASSUME NEW n \in 0 .. last - 1, n + 1 \in Typed PROVE n \in Typed
        OBVIOUS
    <3>1. n \in 0 .. 2 * MaxCount
        OBVIOUS
    <3>2. \A t \in n + 1 .. 2 * MaxCount : SentFrom[t] \in Seq(Pool)
        OBVIOUS
    <3>3. AndOn(SetMonstersPacket(n, BufferSize), SentFrom) \in Seq(Pool)
        BY <3>1, <3>2, OneStep
    <3>4. SentFrom[n] \in Seq(Pool)
        BY <1>7, <3>1, <3>3
    <3> QED
        BY <3>1, <3>2, <3>4
  <2>3. 0 \in Typed
    <3> HIDE DEF last, Typed
    <3>1. \A n \in 0 .. last : n \in Typed
        BY <1>1, <2>1, <2>2, DownTo
    <3> QED
        BY <1>1, <3>1
  <2> QED
      BY <2>3
<1>9. SentFrom \in [0 .. 2 * MaxCount -> Seq(Pool)]
    BY <1>7, <1>8
<1>10. \A s \in 0 .. 2 * MaxCount :
           SentFrom[s] = AndOn(SetMonstersPacket(s, BufferSize), SentFrom)
    BY <1>7
<1> QED
    BY <1>9, <1>10 DEF ScansFrom
-----------------------------------------------------------------------------
(* What is sent from start on: monsters of the array after it, none twice   *)
(* and in their order, and at least half of them.                           *)
Picks(start, sent) ==
    /\ sent \in Seq(Pool)
    /\ 2 * Len(sent) >= Len(AliveMonsterArray) - start
    /\ \E at \in [1 .. Len(sent) -> start + 1 .. Len(AliveMonsterArray)] :
           /\ \A i \in 1 .. Len(sent) : sent[i] = AliveMonsterArray[at[i]]
           /\ \A i, j \in 1 .. Len(sent) : i < j => at[i] < at[j]

LEMMA PicksOn ==
    ASSUME ArrayFits, NEW start \in 0 .. 2 * MaxCount, NEW free \in Nat,
           NEW p, p = SetMonstersPacket(start, free), NEW from,
           ~p.done => Picks(p.SendStartIndex, from[p.SendStartIndex])
    PROVE  Picks(start, AndOn(p, from))
<1> DEFINE A == AliveMonsterArray
           n == Len(A)
<1>1. A \in Seq(Pool) /\ n \in Nat
    BY DEF ArrayFits
<1>2. /\ p.sent \in Seq(Pool)
      /\ \A i \in 1 .. Len(p.sent) : /\ p.sent[i] = A[start + i]
                                     /\ start + i <= n
      /\ p.done => 2 * Len(p.sent) >= n - start
      /\ ~p.done => Len(p.sent) = free /\ p.SendStartIndex = start + 2 * free
    BY OnePacket
<1> HIDE DEF A
<1>3. ASSUME p.done PROVE Picks(start, p.sent)
  <2> DEFINE at == [i \in 1 .. Len(p.sent) |-> start + i]
  <2>1. at \in [1 .. Len(p.sent) -> start + 1 .. n]
      BY <1>1, <1>2
  <2>2. \A i \in 1 .. Len(p.sent) : p.sent[i] = A[at[i]]
      BY <1>2
  <2>3. \A i, j \in 1 .. Len(p.sent) : i < j => at[i] < at[j]
      BY <1>2
  <2> HIDE DEF at
  <2>4. \E f \in [1 .. Len(p.sent) -> start + 1 .. n] :
            /\ \A i \in 1 .. Len(p.sent) : p.sent[i] = A[f[i]]
            /\ \A i, j \in 1 .. Len(p.sent) : i < j => f[i] < f[j]
      BY <2>1, <2>2, <2>3
  <2>5. p.sent \in Seq(Pool) /\ 2 * Len(p.sent) >= n - start
      BY <1>2, <1>3
  <2> QED
      BY <2>4, <2>5 DEF Picks, A
<1>4. ASSUME ~p.done PROVE Picks(start, p.sent \o from[p.SendStartIndex])
  <2> DEFINE next == start + 2 * free
             rest == from[p.SendStartIndex]
             all  == p.sent \o rest
  <2> HIDE DEF rest
  <2>1. p.SendStartIndex = next /\ Len(p.sent) = free
      BY <1>2, <1>4
  <2>2. Picks(next, rest)
      BY <1>4, <2>1 DEF rest
  <2> HIDE DEF next
  <2>3. rest \in Seq(Pool) /\ Len(rest) \in Nat /\ 2 * Len(rest) >= n - next
      BY <2>2 DEF Picks, A
  <2>4. PICK at \in [1 .. Len(rest) -> next + 1 .. n] :
            /\ \A i \in 1 .. Len(rest) : rest[i] = A[at[i]]
            /\ \A i, j \in 1 .. Len(rest) : i < j => at[i] < at[j]
      BY <2>2 DEF Picks, A
  <2>5. /\ all \in Seq(Pool) /\ Len(all) = free + Len(rest)
        /\ \A i \in 1 .. Len(all) : all[i] = IF i <= free THEN p.sent[i] ELSE rest[i - free]
    <3>1. \A u, v \in Seq(Pool) :
              /\ u \o v \in Seq(Pool) /\ Len(u \o v) = Len(u) + Len(v)
              /\ \A i \in 1 .. Len(u) + Len(v) :
                     (u \o v)[i] = IF i <= Len(u) THEN u[i] ELSE v[i - Len(u)]
        BY ConcatProperties
    <3>2. p.sent \in Seq(Pool) /\ rest \in Seq(Pool)
        BY <1>2, <2>3
    <3>3. /\ all \in Seq(Pool) /\ Len(all) = Len(p.sent) + Len(rest)
          /\ \A i \in 1 .. Len(p.sent) + Len(rest) :
                 all[i] = IF i <= Len(p.sent) THEN p.sent[i] ELSE rest[i - Len(p.sent)]
        BY <3>1, <3>2
    <3> HIDE DEF all
    <3> QED
        BY <2>1, <3>3
  <2> HIDE DEF all
  <2> DEFINE to == [i \in 1 .. Len(all) |-> IF i <= free THEN start + i ELSE at[i - free]]
  <2>6. \A i \in 1 .. free : start + i \in start + 1 .. n /\ start + i < next + 1
      BY <1>1, <1>2, <2>1 DEF next
  <2>7. \A i \in 1 .. Len(all) : /\ i <= free => i \in 1 .. free
                                 /\ i > free => i - free \in 1 .. Len(rest)
      BY <2>3, <2>5
  <2>8. \A i \in 1 .. Len(rest) : at[i] \in Int /\ next + 1 <= at[i] /\ at[i] <= n
    <3>1. next \in Int /\ n \in Int
        BY <1>1 DEF next
    <3> QED
        BY <2>4, <3>1
  <2>9. ASSUME NEW i \in 1 .. Len(all)
        PROVE  to[i] \in start + 1 .. n /\ all[i] = A[to[i]]
    <3>1. CASE i <= free
      <4>1. to[i] = start + i /\ all[i] = p.sent[i] /\ i \in 1 .. free
          BY <2>5, <2>7, <3>1
      <4>2. p.sent[i] = A[start + i]
          BY <1>2, <2>1, <4>1
      <4> QED
          BY <2>6, <4>1, <4>2
    <3>2. CASE i > free
      <4>1. to[i] = at[i - free] /\ all[i] = rest[i - free] /\ i - free \in 1 .. Len(rest)
          BY <2>5, <2>7, <3>2
      <4>2. rest[i - free] = A[at[i - free]]
          BY <2>4, <4>1
      <4>3. at[i - free] \in start + 1 .. n
          BY <1>1, <2>8, <4>1 DEF next
      <4> QED
          BY <4>1, <4>2, <4>3
    <3> QED
        BY <3>1, <3>2
  <2>10. ASSUME NEW i \in 1 .. Len(all), NEW j \in 1 .. Len(all), i < j
         PROVE  to[i] < to[j]
    <3>1. CASE j <= free
        BY <2>10, <3>1
    <3>2. CASE i <= free /\ j > free
      <4>1. to[i] = start + i /\ start + i < next + 1
        <5>1. i \in 1 .. free
            BY <2>7, <3>2
        <5> QED
            BY <2>6, <3>2, <5>1
      <4>2. to[j] = at[j - free] /\ next + 1 <= at[j - free] /\ at[j - free] \in Int
          BY <2>7, <2>8, <3>2
      <4>3. next \in Int
          BY DEF next
      <4> QED
          BY <4>1, <4>2, <4>3
    <3>3. CASE i > free
      <4>1. to[i] = at[i - free] /\ to[j] = at[j - free]
          BY <2>10, <3>3
      <4>2. i - free \in 1 .. Len(rest) /\ j - free \in 1 .. Len(rest) /\ i - free < j - free
          BY <2>7, <2>10, <3>3
      <4> QED
          BY <2>4, <4>1, <4>2
    <3> QED
        BY <3>1, <3>2, <3>3
  <2>11. 2 * Len(all) >= n - start
      BY <1>1, <2>3, <2>5 DEF next
  <2>12. to \in [1 .. Len(all) -> start + 1 .. n]
      BY <2>9
  <2> HIDE DEF to
  <2>13. Picks(start, all)
      BY <2>5, <2>9, <2>10, <2>11, <2>12 DEF Picks, A
  <2> QED
      BY <2>13 DEF all, rest
<1> QED
    BY <1>3, <1>4 DEF AndOn

(* What the loop sends with an empty buffer, wherever it begins. *)
LEMMA ScanPicks ==
    ASSUME ArrayFits PROVE \A s \in 0 .. 2 * MaxCount : Picks(s, SentFrom[s])
<1> DEFINE last == 2 * MaxCount + 1
           Good == {n \in 0 .. last : \A s \in n .. 2 * MaxCount : Picks(s, SentFrom[s])}
<1>1. last \in Nat /\ last \in Good
    OBVIOUS
<1>2. \A n \in 0 .. last - 1 : n + 1 \in Good => n \in Good
  <2> SUFFICES ASSUME NEW n \in 0 .. last - 1, n + 1 \in Good PROVE n \in Good
      OBVIOUS
  <2>1. n \in 0 .. 2 * MaxCount /\ BufferSize \in Nat
      OBVIOUS
  <2>2. \A s \in n + 1 .. 2 * MaxCount : Picks(s, SentFrom[s])
      OBVIOUS
  <2> DEFINE p == SetMonstersPacket(n, BufferSize)
  <2>3. ~p.done => p.SendStartIndex = n + 2 * BufferSize
                   /\ p.SendStartIndex <= 2 * MaxCount
      BY <2>1, OnePacket
  <2>4. SentFrom[n] = AndOn(p, SentFrom)
      BY <2>1, ScanDefined DEF ScansFrom
  <2> HIDE DEF p
  <2>5. ~p.done => Picks(p.SendStartIndex, SentFrom[p.SendStartIndex])
      BY <2>1, <2>2, <2>3
  <2>6. Picks(n, AndOn(p, SentFrom))
      BY <2>1, <2>5, PicksOn DEF p
  <2> QED
      BY <2>1, <2>2, <2>4, <2>6
<1>3. 0 \in Good
  <2> HIDE DEF last, Good
  <2>1. \A n \in 0 .. last : n \in Good
      BY <1>1, <1>2, DownTo
  <2> QED
      BY <1>1, <2>1
<1> QED
    BY <1>3

(* PacketsCover for any array without repetition. *)
LEMMA SentCovers ==
    ASSUME ArrayFits, Distinct(AliveMonsterArray) PROVE PacketsCover
<1> SUFFICES ASSUME NEW room \in 0 .. BufferSize
             PROVE  LET sent == MonstersSent(room)
                        n    == Len(AliveMonsterArray)
                    IN  /\ Cardinality(Values(sent)) = Len(sent)
                        /\ Values(sent) \subseteq Values(AliveMonsterArray)
                        /\ 2 * Len(sent) >= n
                        /\ (n <= room \/ (room = 0 /\ n <= BufferSize)) => Len(sent) = n
    BY DEF PacketsCover
<1> DEFINE A == AliveMonsterArray
           n == Len(A)
           sent == MonstersSent(room)
           p == SetMonstersPacket(0, room)
<1>1. A \in Seq(Pool) /\ n \in Nat
    BY DEF ArrayFits
<1>2. /\ p.sent \in Seq(Pool)
      /\ p.done <=> room >= n
      /\ p.done => Len(p.sent) = n
      /\ ~p.done => /\ Len(p.sent) = room
                    /\ p.SendStartIndex = 2 * room
                    /\ p.SendStartIndex \in 0 .. 2 * MaxCount
  <2>1. 0 \in 0 .. 2 * MaxCount /\ room \in Nat
      OBVIOUS
  <2>2. /\ p.done <=> 0 + room >= n
        /\ p.sent \in Seq(Pool)
        /\ p.done /\ 0 <= n => Len(p.sent) = n - 0
        /\ ~p.done => /\ Len(p.sent) = room
                      /\ p.SendStartIndex = 0 + 2 * room
                      /\ p.SendStartIndex <= 2 * MaxCount
      BY <2>1, OnePacket
  <2> HIDE DEF p, A
  <2> QED
      BY <1>1, <2>1, <2>2
<1>3. sent = AndOn(p, SentFrom)
    BY DEF MonstersSent
<1>4. Picks(0, sent)
  <2>1. ~p.done => Picks(p.SendStartIndex, SentFrom[p.SendStartIndex])
      BY <1>2, ScanPicks
  <2>2. 0 \in 0 .. 2 * MaxCount /\ room \in Nat
      OBVIOUS
  <2> QED
      BY <1>3, <2>1, <2>2, PicksOn
<1>5. room = 0 /\ n <= BufferSize => Len(sent) = n
  <2> SUFFICES ASSUME room = 0, n <= BufferSize PROVE Len(sent) = n
      OBVIOUS
  <2>1. CASE p.done
      BY <1>2, <1>3, <2>1 DEF AndOn
  <2>2. CASE ~p.done
    <3> DEFINE q == SetMonstersPacket(0, BufferSize)
    <3>1. 0 \in 0 .. 2 * MaxCount /\ BufferSize \in Nat
        OBVIOUS
    <3>2. /\ q.done <=> 0 + BufferSize >= n
          /\ q.sent \in Seq(Pool)
          /\ q.done /\ 0 <= n => Len(q.sent) = n - 0
        BY <3>1, OnePacket
    <3>3. SentFrom[0] = AndOn(q, SentFrom)
        BY <3>1, ScanDefined DEF ScansFrom
    <3> HIDE DEF q, p, A
    <3>4. q.done /\ Len(q.sent) = n
        BY <1>1, <3>1, <3>2
    <3>5. SentFrom[0] = q.sent
        BY <3>3, <3>4 DEF AndOn
    <3>6. p.sent \in Seq(Pool) /\ Len(p.sent) = 0 /\ p.SendStartIndex = 0
        BY <1>2, <2>2
    <3>7. sent = p.sent \o q.sent
        BY <1>3, <2>2, <3>5, <3>6 DEF AndOn
    <3>8. \A u, v \in Seq(Pool) : Len(u \o v) = Len(u) + Len(v)
        BY ConcatProperties
    <3>9. Len(p.sent \o q.sent) = Len(p.sent) + Len(q.sent)
        BY <3>2, <3>6, <3>8
    <3>10. Len(sent) = 0 + n
        BY <3>4, <3>6, <3>7, <3>9
    <3> QED
        BY <1>1, <3>10
  <2> QED
      BY <2>1, <2>2
<1>6. n <= room => Len(sent) = n
    BY <1>2, <1>3 DEF AndOn
<1> HIDE DEF sent, A
<1>7. PICK at \in [1 .. Len(sent) -> 1 .. n] :
          /\ \A i \in 1 .. Len(sent) : sent[i] = A[at[i]]
          /\ \A i, j \in 1 .. Len(sent) : i < j => at[i] < at[j]
    BY <1>4 DEF Picks, A
<1>8. sent \in Seq(Pool) /\ Len(sent) \in Nat /\ 2 * Len(sent) >= n
    BY <1>1, <1>4 DEF Picks, A
<1>9. Values(sent) \subseteq Values(A)
  <2>1. DOMAIN sent = 1 .. Len(sent) /\ DOMAIN A = 1 .. n
      BY <1>1, <1>8
  <2> QED
      BY <1>7, <2>1 DEF Values
<1>10. Cardinality(Values(sent)) = Len(sent)
  <2>1. DOMAIN sent = 1 .. Len(sent) /\ DOMAIN A = 1 .. n
      BY <1>1, <1>8
  <2>2. \A i, j \in 1 .. Len(sent) : sent[i] = sent[j] => i = j
    <3> SUFFICES ASSUME NEW i \in 1 .. Len(sent), NEW j \in 1 .. Len(sent),
                        sent[i] = sent[j], i # j
                 PROVE  FALSE
        OBVIOUS
    <3>1. at[i] \in 1 .. n /\ at[j] \in 1 .. n /\ A[at[i]] = A[at[j]]
        BY <1>7
    <3>2. at[i] = at[j]
        BY <2>1, <3>1 DEF Distinct, A
    <3>3. i < j \/ j < i
        BY <1>8
    <3> QED
        BY <1>7, <3>1, <3>2, <3>3
  <2> QED
      BY <1>8, <2>1, <2>2, Counted DEF Distinct
<1> QED
    BY <1>5, <1>6, <1>8, <1>9, <1>10 DEF sent, A

-----------------------------------------------------------------------------
(* The invariant of the spawner: the places of the monsters, and what the   *)
(* respawn queue holds.                                                     *)
THEOREM SpawnerInvariant == Spec => []Inv
<1>1. Init => Inv
    BY InitInv
<1>2. Inv /\ [Next]_vars => Inv'
    BY Step
<1> QED
    BY <1>1, <1>2, PTL DEF Spec

(* Every variable keeps its type; the indices stay within the array.        *)
THEOREM TypeCorrect == Spec => []TypeOK
<1>1. Inv => TypeOK
    BY DEF Inv
<1> QED
    BY <1>1, SpawnerInvariant, PTL

(* Every monster of the pool is free, about to be entered, or alive, and    *)
(* that once: SpawnMonster and OnMonsterDead neither double nor lose one.   *)
THEOREM NoMonsterLost == Spec => []PoolAccounted
<1>1. Inv => PoolAccounted
  <2> SUFFICES ASSUME Inv PROVE PoolAccounted
      OBVIOUS
  <2>1. /\ EmptyMonster \in Seq(Pool) /\ jobs \in Seq(Pool)
        /\ AliveMonsterArray \in Seq(Pool)
      BY DEF Inv, TypeOK
  <2> DEFINE some == EmptyMonster \o jobs
  <2>2. /\ some \in Seq(Pool) /\ Len(some) = Len(EmptyMonster) + Len(jobs)
        /\ Values(some) = Values(EmptyMonster) \cup Values(jobs)
      BY <2>1, ConcatProperties, ConcatHolds
  <2> HIDE DEF some
  <2>3. /\ Len(some \o AliveMonsterArray) = Len(some) + Len(AliveMonsterArray)
        /\ Values(some \o AliveMonsterArray)
               = Values(some) \cup Values(AliveMonsterArray)
    <3>1. some \in Seq(Pool) /\ AliveMonsterArray \in Seq(Pool)
        BY <2>1, <2>2
    <3> QED
        BY <3>1, ConcatProperties, ConcatHolds
  <2> QED
      BY <2>2, <2>3 DEF Inv, Places, PoolAccounted, some
<1> QED
    BY <1>1, SpawnerInvariant, PTL

(* There is a free monster for every respawn that is queued: SpawnMonster   *)
(* never pops an empty stack.                                               *)
THEOREM NeverAnEmptyPool == Spec => []CountsAgree
<1>1. Inv => CountsAgree
    BY DEF Inv
<1> QED
    BY <1>1, SpawnerInvariant, PTL

(* However many monsters die, and in whatever order, AliveMonster knows     *)
(* where each of those alive is.                                            *)
THEOREM IndexFollows == Spec => []IndexAgrees
<1>1. Inv => IndexAgrees
    BY DEF Inv
<1> QED
    BY <1>1, SpawnerInvariant, PTL

(* Update looks at the front of the queue only, and spawns for all that is  *)
(* due and nothing else: as many as died RespawnTime updates before.        *)
THEOREM NoRespawnLate == Spec => RespawnsOnTime
<1>1. Inv /\ [Next]_vars
          => [Update => CurrentCount' = CurrentCount + deaths[RespawnTime]]_vars
    BY UpdateStep
<1> QED
    BY <1>1, SpawnerInvariant, PTL DEF Spec, RespawnsOnTime

(* However many calls of SetMonstersPacket it takes, and wherever each goes *)
(* on, ChatRoom::Update sends no monster of a spawner twice, at least half  *)
(* of those alive, and all of them when they fit.                           *)
THEOREM PacketsReachHalf == Spec => []PacketsCover
<1>1. Inv => PacketsCover
  <2> SUFFICES ASSUME Inv PROVE PacketsCover
      OBVIOUS
  <2>1. AliveMonsterArray \in Seq(Pool) /\ Distinct(AliveMonsterArray)
      BY DEF Inv, TypeOK, Places
  <2>2. Len(AliveMonsterArray) <= MaxCount
    <3>1. Len(EmptyMonster) \in Nat /\ Len(jobs) \in Nat /\ Len(AliveMonsterArray) \in Nat
        BY DEF Inv, TypeOK
    <3>2. Len(EmptyMonster) + Len(jobs) + Len(AliveMonsterArray) = MaxCount
        BY DEF Inv, Places
    <3> QED
        BY <3>1, <3>2
  <2> QED
      BY <2>1, <2>2, SentCovers DEF ArrayFits
<1> QED
    BY <1>1, SpawnerInvariant, PTL

-----------------------------------------------------------------------------
(* The pool counts its monsters as the spawner does. *)
LEMMA SameCount == \A S : Roster!Cardinality(S) = Cardinality(S)
BY DEF Cardinality, Roster!Cardinality

(* The spawner starts as a pool of monsters that are all dead. *)
LEMMA RefinesInit == Init => Roster!Init
<1> SUFFICES ASSUME Init PROVE Roster!Init
    OBVIOUS
<1>1. Values(EmptyMonster) = Pool
    BY DEF Init, Values
<1>2. Values(jobs) = {} /\ Values(AliveMonsterArray) = {}
    BY DEF Init, Values
<1>3. Cardinality(Pool) = MaxCount
    BY FS_Interval
<1> QED
    BY <1>1, <1>2, <1>3, SameCount DEF Init, Roster!Init

(* Every step of the spawner is a step of the pool, or none. *)
LEMMA RefinesNext == Inv /\ [Next]_vars => [Roster!Next]_(Roster!vars)
<1> SUFFICES ASSUME Inv, [Next]_vars PROVE [Roster!Next]_(Roster!vars)
    OBVIOUS
<1>1. CASE Update
  <2>1. SentIn(deaths[RespawnTime])
      BY <1>1, UpdateStep
  <2>2. deaths' = [k \in 1 .. RespawnTime |-> IF k = 1 THEN 0 ELSE deaths[k - 1]]
      BY <1>1 DEF Update, AgedDeaths, Inv, TypeOK
  <2>3. AliveMonsterArray' = AliveMonsterArray
      BY <1>1 DEF Update, aliveVars
  <2>4. Roster!Update
      BY <2>1, <2>2, <2>3, SameCount DEF Roster!Update, SentIn
  <2> QED
      BY <2>4 DEF Roster!Next
<1>2. CASE EnterMonster
  <2>1. UNCHANGED <<EmptyMonster, deaths>>
      BY <1>2 DEF EnterMonster, poolVars
  <2>2. Roster!Enter
      BY <1>2, <2>1, EnterStep DEF Roster!Enter
  <2> QED
      BY <2>2 DEF Roster!Next
<1>3. ASSUME NEW m \in Pool, OnDamaged(m)
      PROVE  [Roster!Next]_(Roster!vars)
  <2>1. jobs' = jobs
      BY <1>3 DEF OnDamaged
  <2>2. Died(m) \/ UNCHANGED <<EmptyMonster, AliveMonsterArray, deaths>>
      BY <1>3, DamagedStep
  <2>3. CASE Died(m)
    <3>1. Roster!Die
        BY <2>1, <2>3 DEF Died, Roster!Die
    <3> QED
        BY <3>1 DEF Roster!Next
  <2>4. CASE UNCHANGED <<EmptyMonster, AliveMonsterArray, deaths>>
      BY <2>1, <2>4 DEF Roster!vars
  <2> QED
      BY <2>2, <2>3, <2>4
<1>4. CASE UNCHANGED vars
    BY <1>4 DEF vars, poolVars, aliveVars, Roster!vars
<1> QED
    BY <1>1, <1>2, <1>3, <1>4 DEF Next

(* The spawner is a pool of monsters that are dead, entering or alive, in   *)
(* that circle, and come back RespawnTime updates after they died: for any  *)
(* number of monsters, whatever happens to them (MonsterSpawner::Update,    *)
(* SpawnMonster, OnMonsterDead).                                            *)
THEOREM ImplementsPool == Spec => PoolSpec
BY SpawnerInvariant, RefinesInit, RefinesNext, PTL DEF Spec, PoolSpec, Roster!Spec
=============================================================================
