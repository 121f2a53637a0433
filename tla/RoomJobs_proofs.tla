--------------------------- MODULE RoomJobs_proofs ---------------------------
(***************************************************************************)
(* Proofs about RoomJobs, for any number of rooms, threads and jobs.       *)
(***************************************************************************)
EXTENDS RoomJobs, SequenceTheorems, TLAPS

(* Only the worker that runs a room's batch has anything in its             *)
(* JobProcessQueue, and a job that runs was counted in pos.                 *)
BatchOwned ==
    \A r \in Rooms :
      /\ \/ JobProcessQueue[r] = <<>>
         \/ \E w \in Workers : wpc[w] \in {"run", "exec"} /\ wroom[w] = r
      /\ \A w \in Workers : wpc[w] = "exec" /\ wroom[w] = r => pos[r] >= 1

Inv == /\ TypeOK
       /\ GuardHasHolder
       /\ OneHolder
       /\ BatchOwned
       /\ NoStrandedJob

USE NRoomsAssumption, MaxJobsAssumption, ThreadsAssumption

(* The initial states satisfy the invariant. *)
LEMMA InitInv == Init => Inv
<1> SUFFICES ASSUME Init PROVE Inv
    OBVIOUS
<1> 0 \in Rooms
    BY DEF Rooms
<1>1. TypeOK
    BY DEF Init, TypeOK
<1>2. GuardHasHolder /\ OneHolder
    BY DEF Init, GuardHasHolder, OneHolder, Won, Queued, Draining
<1>3. BatchOwned /\ NoStrandedJob
    BY DEF Init, BatchOwned, NoStrandedJob
<1> QED
    BY <1>1, <1>2, <1>3 DEF Inv

(* PushJob, whoever calls it, keeps the types. *)
LEMMA PushJobType ==
    ASSUME TypeOK, NEW t \in Threads, NEW r \in Rooms,
           NEW kind \in {"packet", "update", "spawn"}, NEW room \in Rooms,
           PushJob(t, r, kind, room),
           tickPc' \in {"room", "update", "push"}, tickRoom' \in Rooms
    PROVE  TypeOK'
<1> DEFINE job == [id |-> issued + 1, kind |-> kind, room |-> room]
<1>1. job \in Job
    BY DEF PushJob, TypeOK, Job
<1>2. InputJobQueue' \in [Rooms -> Seq(Job)]
  <2>1. InputJobQueue[r] \in Seq(Job)
      BY DEF TypeOK
  <2>2. Append(InputJobQueue[r], job) \in Seq(Job)
      BY <1>1, <2>1
  <2> QED
      BY <2>2 DEF PushJob, TypeOK
<1>3. post' \in [Threads -> {"none", "pushed", "won"}] /\ target' \in [Threads -> Rooms]
    BY DEF PushJob, TypeOK
<1>4. issued' \in 0 .. MaxJobs
    BY DEF PushJob, TypeOK
<1>5. UNCHANGED <<JobProcessQueue, pos, RoomAccessGuard, JobQueue, wpc, wroom,
                  ThreadsRun, spawnRoom, ran>>
    BY DEF PushJob, workerVars
<1> QED
    BY <1>2, <1>3, <1>4, <1>5 DEF TypeOK

-----------------------------------------------------------------------------
(* Every step keeps the types. *)
LEMMA TypeStep == Inv /\ [Next]_vars => TypeOK'
<1> SUFFICES ASSUME Inv, [Next]_vars PROVE TypeOK'
    OBVIOUS
<1> USE DEF Inv
<1> Ticker \in Threads /\ Posters \subseteq Threads /\ Workers \subseteq Threads
    BY DEF Threads
<1>1. ASSUME NEW t \in Threads, TryGetAccess(t) PROVE TypeOK'
    BY <1>1 DEF TryGetAccess, TypeOK, jobVars, workerVars, tickVars
<1>2. ASSUME NEW t \in Threads, Enqueue(t) PROVE TypeOK'
  <2>1. target[t] \in Rooms
      BY DEF TypeOK
  <2>2. JobQueue' \in Seq(Rooms)
      BY <1>2, <2>1 DEF Enqueue, TypeOK
  <2>3. wpc' \in [Workers -> {"top", "lock", "parked", "drain", "run", "exec", "exit"}]
      BY <1>2 DEF Enqueue, NotifyOne, TypeOK
  <2> QED
      BY <1>2, <2>2, <2>3 DEF Enqueue, TypeOK, jobVars, tickVars
<1>3. ASSUME NEW t \in Posters, PacketJob(t) PROVE TypeOK'
  <2>1. PICK r \in Rooms : PushJob(t, r, "packet", r)
      BY <1>3 DEF PacketJob
  <2>2. tickPc' \in {"room", "update", "push"} /\ tickRoom' \in Rooms
      BY <1>3 DEF PacketJob, TypeOK, tickVars
  <2> QED
      BY <2>1, <2>2, PushJobType
<1>4. CASE TickStep
  <2>1. CASE TickRoom \/ TickUpdated
      BY <2>1 DEF TickRoom, TickUpdated, TypeOK, jobVars, workerVars, postVars
  <2>2. CASE TickSpawn
    <3>1. spawnRoom[tickRoom] \in Rooms /\ tickRoom \in Rooms
        BY DEF TypeOK
    <3>2. tickPc' \in {"room", "update", "push"} /\ tickRoom' \in Rooms
        BY <2>2 DEF TickSpawn, TypeOK, tickVars
    <3> QED
        BY <2>2, <3>1, <3>2, PushJobType DEF TickSpawn
  <2>3. CASE TickPush
    <3>1. tickRoom \in Rooms
        BY DEF TypeOK
    <3>2. (tickRoom + 1) % NRooms \in Rooms
        BY <3>1 DEF Rooms
    <3>3. tickPc' \in {"room", "update", "push"} /\ tickRoom' \in Rooms
        BY <2>3, <3>2 DEF TickPush
    <3> QED
        BY <2>3, <3>1, <3>3, PushJobType DEF TickPush
  <2> QED
      BY <1>4, <2>1, <2>2, <2>3 DEF TickStep
<1>5. ASSUME NEW w \in Workers,
             WorkerLoop(w) \/ WorkerPark(w) \/ WorkerBreak(w) \/ SpuriousWake(w)
      PROVE  TypeOK'
    BY <1>5 DEF WorkerLoop, WorkerPark, WorkerBreak, SpuriousWake, TypeOK,
                jobVars, postVars, tickVars
<1>6. ASSUME NEW w \in Workers, WorkerTake(w) PROVE TypeOK'
  <2>1. Head(JobQueue) \in Rooms /\ Tail(JobQueue) \in Seq(Rooms)
      BY <1>6 DEF WorkerTake, TypeOK
  <2> QED
      BY <1>6, <2>1 DEF WorkerTake, TypeOK, jobVars, postVars, tickVars
<1>7. ASSUME NEW w \in Workers, ReleaseRoom(w) PROVE TypeOK'
    BY <1>7 DEF ReleaseRoom, TypeOK, postVars, tickVars
<1>8. ASSUME NEW w \in Workers, SwapQueues(w) PROVE TypeOK'
  <2> DEFINE r == wroom[w]
  <2>1. r \in Rooms /\ InputJobQueue[r] \in Seq(Job) /\ JobProcessQueue[r] \in Seq(Job)
      BY DEF TypeOK
  <2>2. JobProcessQueue[r] = <<>>
      BY <1>8, <2>1 DEF SwapQueues, BatchOwned, OneHolder, Draining
  <2>3. pos[r] = 0
      BY <2>1, <2>2 DEF TypeOK
  <2>4. /\ InputJobQueue' \in [Rooms -> Seq(Job)]
        /\ JobProcessQueue' \in [Rooms -> Seq(Job)]
        /\ JobProcessQueue'[r] = InputJobQueue[r]
        /\ \A q \in Rooms \ {r} : JobProcessQueue'[q] = JobProcessQueue[q]
      BY <1>8, <2>1 DEF SwapQueues, TypeOK
  <2>5. \A q \in Rooms : pos'[q] <= Len(JobProcessQueue'[q])
      BY <1>8, <2>1, <2>3, <2>4 DEF SwapQueues, TypeOK
  <2>6. wpc' \in [Workers -> {"top", "lock", "parked", "drain", "run", "exec", "exit"}]
      BY <1>8 DEF SwapQueues, TypeOK
  <2> QED
      BY <1>8, <2>4, <2>5, <2>6 DEF SwapQueues, TypeOK, postVars, tickVars
<1>9. ASSUME NEW w \in Workers, StartJob(w) PROVE TypeOK'
  <2>1. wroom[w] \in Rooms
      BY DEF TypeOK
  <2>2. pos' \in [Rooms -> Nat] /\ \A q \in Rooms : pos'[q] <= Len(JobProcessQueue[q])
    <3>1. pos[wroom[w]] \in Nat /\ pos[wroom[w]] + 1 \in Nat
        BY <2>1 DEF TypeOK
    <3>2. JobProcessQueue[wroom[w]] \in Seq(Job)
        BY <2>1 DEF TypeOK
    <3>3. Len(JobProcessQueue[wroom[w]]) \in Nat
        BY <3>2
    <3>4. pos' = [pos EXCEPT ![wroom[w]] = pos[wroom[w]] + 1]
        BY <1>9 DEF StartJob
    <3> QED
        BY <1>9, <2>1, <3>1, <3>3, <3>4 DEF StartJob, TypeOK
  <2>3. wpc' \in [Workers -> {"top", "lock", "parked", "drain", "run", "exec", "exit"}]
      BY <1>9 DEF StartJob, TypeOK
  <2> QED
      BY <1>9, <2>2, <2>3 DEF StartJob, TypeOK, postVars, tickVars
<1>10. ASSUME NEW w \in Workers, wpc[w] = "exec"
       PROVE  wroom[w] \in Rooms /\ Current(w) \in Job
  <2>1. wroom[w] \in Rooms
      BY DEF TypeOK
  <2>2. pos[wroom[w]] \in 1 .. Len(JobProcessQueue[wroom[w]])
      BY <1>10, <2>1 DEF TypeOK, BatchOwned
  <2> QED
      BY <2>1, <2>2 DEF Current, TypeOK
<1>11. ASSUME NEW w \in Workers, JobSpawn(w) PROVE TypeOK'
  <2>1. Current(w).room \in Rooms
      BY <1>10, <1>11 DEF JobSpawn, Job
  <2>2. spawnRoom[Current(w).room] \in Rooms
      BY <2>1 DEF TypeOK
  <2>3. tickPc' \in {"room", "update", "push"} /\ tickRoom' \in Rooms
      BY <1>11 DEF JobSpawn, TypeOK, tickVars
  <2> QED
      BY <1>11, <2>1, <2>2, <2>3, PushJobType DEF JobSpawn
<1>12. ASSUME NEW w \in Workers, FinishJob(w) PROVE TypeOK'
  <2>1. wroom[w] \in Rooms /\ Current(w) \in Job
      BY <1>10, <1>12 DEF FinishJob
  <2>2. Append(ran[wroom[w]], Current(w)) \in Seq(Job)
      BY <2>1 DEF TypeOK
  <2>3. ran' \in [Rooms -> Seq(Job)]
      BY <1>12, <2>1, <2>2 DEF FinishJob, TypeOK
  <2> QED
      BY <1>12, <2>3 DEF FinishJob, TypeOK, jobVars, postVars, tickVars
<1>13. ASSUME NEW w \in Workers, ClearBatch(w) PROVE TypeOK'
  <2>1. wroom[w] \in Rooms
      BY DEF TypeOK
  <2>2. /\ JobProcessQueue' \in [Rooms -> Seq(Job)]
        /\ pos' \in [Rooms -> Nat]
        /\ \A q \in Rooms : pos'[q] <= Len(JobProcessQueue'[q])
      BY <1>13, <2>1 DEF ClearBatch, TypeOK
  <2> QED
      BY <1>13, <2>2 DEF ClearBatch, TypeOK, postVars, tickVars
<1>14. CASE StopThread
    BY <1>14 DEF StopThread, TypeOK, jobVars, workerVars, postVars, tickVars
<1>15. CASE UNCHANGED vars
    BY <1>15 DEF vars, TypeOK, jobVars, workerVars, postVars, tickVars
<1> QED
    BY <1>1, <1>2, <1>3, <1>4, <1>5, <1>6, <1>7, <1>8, <1>9, <1>11, <1>12, <1>13,
       <1>14, <1>15 DEF Next, Poster, Worker

-----------------------------------------------------------------------------
(* A step that changes neither the guards nor the queue of rooms and makes  *)
(* no thread won and no worker draining, or stop being so, keeps the token. *)
LEMMA SameHolders ==
    ASSUME GuardHasHolder, OneHolder,
           UNCHANGED <<RoomAccessGuard, JobQueue>>,
           \A r \in Rooms : \A t \in Threads : Won(t, r)' <=> Won(t, r),
           \A r \in Rooms : \A w \in Workers : Draining(w, r)' <=> Draining(w, r)
    PROVE  GuardHasHolder' /\ OneHolder'
<1>1. \A r \in Rooms : \A i \in 1 .. Len(JobQueue) : Queued(i, r)' <=> Queued(i, r)
    BY DEF Queued
<1>2. GuardHasHolder'
    BY <1>1 DEF GuardHasHolder
<1>3. OneHolder'
    BY <1>1 DEF OneHolder
<1> QED
    BY <1>2, <1>3

(* PushJob leaves every token where it is. *)
LEMMA PushJobHolders ==
    ASSUME Inv, NEW t \in Threads, NEW r \in Rooms, NEW kind, NEW room,
           PushJob(t, r, kind, room)
    PROVE  GuardHasHolder' /\ OneHolder'
<1>1. \A q \in Rooms : \A u \in Threads : Won(u, q)' <=> Won(u, q)
    BY DEF PushJob, Won, Inv, TypeOK
<1>2. \A q \in Rooms : \A w \in Workers : Draining(w, q)' <=> Draining(w, q)
    BY DEF PushJob, Draining, workerVars
<1>3. UNCHANGED <<RoomAccessGuard, JobQueue>>
    BY DEF PushJob
<1> QED
    BY <1>1, <1>2, <1>3, SameHolders DEF Inv

(* Every step keeps exactly one holder for each closed guard. *)
LEMMA HolderStep == Inv /\ [Next]_vars => GuardHasHolder' /\ OneHolder'
<1> SUFFICES ASSUME Inv, [Next]_vars PROVE GuardHasHolder' /\ OneHolder'
    OBVIOUS
<1> USE DEF Inv
<1> Ticker \in Threads /\ Posters \subseteq Threads /\ Workers \subseteq Threads
    BY DEF Threads
<1>1. ASSUME NEW t \in Threads, TryGetAccess(t) PROVE GuardHasHolder' /\ OneHolder'
  <2> DEFINE r == target[t]
  <2>1. r \in Rooms
      BY DEF TypeOK
  <2>2. /\ \A q \in Rooms : \A w \in Workers : Draining(w, q)' <=> Draining(w, q)
        /\ \A q \in Rooms : \A i \in 1 .. Len(JobQueue) : Queued(i, q)' <=> Queued(i, q)
        /\ JobQueue' = JobQueue
      BY <1>1 DEF TryGetAccess, Draining, Queued, workerVars
  <2>3. \A q \in Rooms : \A u \in Threads :
           Won(u, q)' <=> Won(u, q) \/ (u = t /\ q = r /\ RoomAccessGuard[r] = 0)
      BY <1>1, <2>1 DEF TryGetAccess, Won, TypeOK
  <2>4. \A q \in Rooms :
           RoomAccessGuard'[q] = IF q = r THEN 1 ELSE RoomAccessGuard[q]
      BY <1>1, <2>1 DEF TryGetAccess, TypeOK
  <2>5. GuardHasHolder'
    <3> SUFFICES ASSUME NEW q \in Rooms
                 PROVE  RoomAccessGuard'[q] = 1 <=>
                            \/ \E u \in Threads : Won(u, q)'
                            \/ \E i \in 1 .. Len(JobQueue') : Queued(i, q)'
                            \/ \E w \in Workers : Draining(w, q)'
        BY DEF GuardHasHolder
    <3>1. RoomAccessGuard[q] = 0 \/ RoomAccessGuard[q] = 1
        BY DEF TypeOK
    <3> QED
        BY <2>1, <2>2, <2>3, <2>4, <3>1 DEF GuardHasHolder
  <2>6. OneHolder'
    <3>1. RoomAccessGuard[r] = 0 =>
             /\ \A u \in Threads : ~Won(u, r)
             /\ \A i \in 1 .. Len(JobQueue) : ~Queued(i, r)
             /\ \A w \in Workers : ~Draining(w, r)
        BY <2>1 DEF GuardHasHolder
    <3> QED
        BY <2>1, <2>2, <2>3, <3>1 DEF OneHolder
  <2> QED
      BY <2>5, <2>6
<1>2. ASSUME NEW t \in Threads, Enqueue(t) PROVE GuardHasHolder' /\ OneHolder'
  <2> DEFINE r == target[t]
             n == Len(JobQueue)
  <2>1. r \in Rooms /\ JobQueue \in Seq(Rooms) /\ n \in Nat /\ Won(t, r)
      BY <1>2 DEF Enqueue, TypeOK, Won
  <2>2. /\ RoomAccessGuard' = RoomAccessGuard
        /\ Len(JobQueue') = n + 1
        /\ \A q \in Rooms : \A i \in 1 .. n + 1 :
              Queued(i, q)' <=> IF i = n + 1 THEN q = r ELSE Queued(i, q)
      BY <1>2, <2>1 DEF Enqueue, Queued, jobVars
  <2>3. \A q \in Rooms : \A w \in Workers : Draining(w, q)' <=> Draining(w, q)
      BY <1>2 DEF Enqueue, NotifyOne, Draining, TypeOK
  <2>4. \A q \in Rooms : \A u \in Threads : Won(u, q)' <=> Won(u, q) /\ u # t
      BY <1>2 DEF Enqueue, Won, TypeOK
  <2>5. \A q \in Rooms : Won(t, q) => q = r
      BY DEF Won
  <2>6. GuardHasHolder'
    <3> SUFFICES ASSUME NEW q \in Rooms
                 PROVE  RoomAccessGuard'[q] = 1 <=>
                            \/ \E u \in Threads : Won(u, q)'
                            \/ \E i \in 1 .. Len(JobQueue') : Queued(i, q)'
                            \/ \E w \in Workers : Draining(w, q)'
        BY DEF GuardHasHolder
    <3>1. n + 1 \in 1 .. n + 1 /\ \A i \in 1 .. n : i \in 1 .. n + 1 /\ i # n + 1
        BY <2>1
    <3>2. \A i \in 1 .. n + 1 : i = n + 1 \/ i \in 1 .. n
        BY <2>1
    <3>3. (\E i \in 1 .. n + 1 : Queued(i, q)')
              <=> (q = r \/ \E i \in 1 .. n : Queued(i, q))
        BY <2>2, <3>1, <3>2
    <3>4. (\E u \in Threads : Won(u, q)) <=> ((\E u \in Threads : Won(u, q)') \/ q = r)
        BY <2>1, <2>4, <2>5
    <3> QED
        BY <2>2, <2>3, <3>3, <3>4 DEF GuardHasHolder
  <2>7. OneHolder'
    <3> SUFFICES ASSUME NEW q \in Rooms
          PROVE /\ \A u, v \in Threads : Won(u, q)' /\ Won(v, q)' => u = v
                /\ \A i, j \in 1 .. n + 1 : Queued(i, q)' /\ Queued(j, q)' => i = j
                /\ \A v, w \in Workers : Draining(v, q)' /\ Draining(w, q)' => v = w
                /\ \A u \in Threads, i \in 1 .. n + 1 : ~(Won(u, q)' /\ Queued(i, q)')
                /\ \A u \in Threads, w \in Workers : ~(Won(u, q)' /\ Draining(w, q)')
                /\ \A i \in 1 .. n + 1, w \in Workers : ~(Queued(i, q)' /\ Draining(w, q)')
        BY <2>2 DEF OneHolder
    <3>1. \A i \in 1 .. n + 1 : i = n + 1 \/ i \in 1 .. n
        BY <2>1
    <3>2. /\ \A u \in Threads : u # t => ~Won(u, r)
          /\ \A i \in 1 .. n : ~Queued(i, r)
          /\ \A w \in Workers : ~Draining(w, r)
        BY <2>1 DEF OneHolder
    <3> QED
        BY <2>1, <2>2, <2>3, <2>4, <3>1, <3>2 DEF OneHolder
  <2> QED
      BY <2>6, <2>7
<1>3. ASSUME NEW t \in Posters, PacketJob(t) PROVE GuardHasHolder' /\ OneHolder'
    BY <1>3, PushJobHolders DEF PacketJob
<1>4. CASE TickStep
  <2>1. CASE TickRoom \/ TickUpdated
    <3>1. UNCHANGED <<RoomAccessGuard, JobQueue, wpc, wroom, post, target>>
        BY <2>1 DEF TickRoom, TickUpdated, jobVars, workerVars, postVars
    <3> QED
        BY <3>1, SameHolders DEF Won, Draining
  <2>2. CASE TickSpawn
    <3>1. spawnRoom[tickRoom] \in Rooms
        BY DEF TypeOK
    <3> QED
        BY <2>2, <3>1, PushJobHolders DEF TickSpawn
  <2>3. CASE TickPush
    <3>1. tickRoom \in Rooms
        BY DEF TypeOK
    <3> QED
        BY <2>3, <3>1, PushJobHolders DEF TickPush
  <2> QED
      BY <1>4, <2>1, <2>2, <2>3 DEF TickStep
<1>5. ASSUME NEW w \in Workers,
             \/ WorkerLoop(w) \/ WorkerPark(w) \/ WorkerBreak(w) \/ SpuriousWake(w)
             \/ SwapQueues(w) \/ StartJob(w) \/ FinishJob(w) \/ ClearBatch(w)
      PROVE  GuardHasHolder' /\ OneHolder'
  <2>1. UNCHANGED <<RoomAccessGuard, JobQueue, wroom, post, target>>
      BY <1>5 DEF WorkerLoop, WorkerPark, WorkerBreak, SpuriousWake, SwapQueues,
                  StartJob, FinishJob, ClearBatch, jobVars, postVars
  <2>2. \A r \in Rooms : \A v \in Workers : Draining(v, r)' <=> Draining(v, r)
      BY <1>5 DEF WorkerLoop, WorkerPark, WorkerBreak, SpuriousWake, SwapQueues,
                  StartJob, FinishJob, ClearBatch, Draining, TypeOK
  <2>3. \A r \in Rooms : \A t \in Threads : Won(t, r)' <=> Won(t, r)
      BY <2>1 DEF Won
  <2> QED
      BY <2>1, <2>2, <2>3, SameHolders
<1>6. ASSUME NEW w \in Workers, WorkerTake(w) PROVE GuardHasHolder' /\ OneHolder'
  <2> DEFINE r == Head(JobQueue)
             n == Len(JobQueue)
  <2>1. /\ JobQueue \in Seq(Rooms) /\ JobQueue # <<>>
        /\ r = JobQueue[1] /\ n \in Nat /\ n >= 1 /\ r \in Rooms
    <3>1. JobQueue \in Seq(Rooms) /\ JobQueue # <<>>
        BY <1>6 DEF WorkerTake, TypeOK
    <3>2. n \in Nat /\ n >= 1
        BY <3>1
    <3>3. r = JobQueue[1] /\ JobQueue[1] \in Rooms
        BY <3>1, <3>2
    <3> QED
        BY <3>1, <3>2, <3>3
  <2>2. /\ RoomAccessGuard' = RoomAccessGuard
        /\ Len(JobQueue') = n - 1
        /\ \A q \in Rooms : \A i \in 1 .. n - 1 : Queued(i, q)' <=> Queued(i + 1, q)
      BY <1>6, <2>1 DEF WorkerTake, Queued, jobVars
  <2>3. \A q \in Rooms : \A v \in Workers :
           Draining(v, q)' <=> IF v = w THEN q = r ELSE Draining(v, q)
      BY <1>6 DEF WorkerTake, Draining, TypeOK
  <2>4. \A q \in Rooms : \A t \in Threads : Won(t, q)' <=> Won(t, q)
      BY <1>6 DEF WorkerTake, Won, postVars
  <2>5. \A q \in Rooms : ~Draining(w, q)
      BY <1>6 DEF WorkerTake, Draining
  <2>6. \A q \in Rooms : Queued(1, q) <=> q = r
      BY <2>1 DEF Queued
  <2>7. 1 \in 1 .. n /\ \A i \in 1 .. n - 1 : i + 1 \in 1 .. n /\ i + 1 # 1
      BY <2>1
  <2>8. GuardHasHolder'
    <3> SUFFICES ASSUME NEW q \in Rooms
                 PROVE  RoomAccessGuard'[q] = 1 <=>
                            \/ \E u \in Threads : Won(u, q)'
                            \/ \E i \in 1 .. Len(JobQueue') : Queued(i, q)'
                            \/ \E v \in Workers : Draining(v, q)'
        BY DEF GuardHasHolder
    <3>1. \A i \in 1 .. n : i = 1 \/ (i - 1 \in 1 .. n - 1 /\ i = (i - 1) + 1)
        BY <2>1
    <3>2. (\E i \in 1 .. n : Queued(i, q))
              <=> (q = r \/ \E i \in 1 .. n - 1 : Queued(i, q)')
        BY <2>2, <2>6, <2>7, <3>1
    <3>3. (\E v \in Workers : Draining(v, q)')
              <=> (q = r \/ \E v \in Workers : Draining(v, q))
        BY <2>3, <2>5
    <3> QED
        BY <2>2, <2>4, <3>2, <3>3 DEF GuardHasHolder
  <2>9. OneHolder'
    <3> SUFFICES ASSUME NEW q \in Rooms
          PROVE /\ \A u, v \in Threads : Won(u, q)' /\ Won(v, q)' => u = v
                /\ \A i, j \in 1 .. n - 1 : Queued(i, q)' /\ Queued(j, q)' => i = j
                /\ \A u, v \in Workers : Draining(u, q)' /\ Draining(v, q)' => u = v
                /\ \A u \in Threads, i \in 1 .. n - 1 : ~(Won(u, q)' /\ Queued(i, q)')
                /\ \A u \in Threads, v \in Workers : ~(Won(u, q)' /\ Draining(v, q)')
                /\ \A i \in 1 .. n - 1, v \in Workers : ~(Queued(i, q)' /\ Draining(v, q)')
        BY <2>2 DEF OneHolder
    <3>1. /\ \A u \in Threads : ~Won(u, r)
          /\ \A i \in 1 .. n : i # 1 => ~Queued(i, r)
          /\ \A v \in Workers : ~Draining(v, r)
        BY <2>1, <2>6, <2>7 DEF OneHolder
    <3>2. \A i, j \in 1 .. n - 1 : i + 1 = j + 1 => i = j
        BY <2>1
    <3>3. \A i, j \in 1 .. n - 1 : Queued(i, q)' /\ Queued(j, q)' => i = j
        BY <2>2, <2>7, <3>2 DEF OneHolder
    <3> QED
        BY <2>1, <2>2, <2>3, <2>4, <2>7, <3>1, <3>3 DEF OneHolder
  <2> QED
      BY <2>8, <2>9
<1>7. ASSUME NEW w \in Workers, ReleaseRoom(w) PROVE GuardHasHolder' /\ OneHolder'
  <2> DEFINE r == wroom[w]
  <2>1. r \in Rooms /\ Draining(w, r) /\ \A q \in Rooms : Draining(w, q) => q = r
      BY <1>7 DEF ReleaseRoom, Draining, TypeOK
  <2>2. \A q \in Rooms : RoomAccessGuard'[q] = IF q = r THEN 0 ELSE RoomAccessGuard[q]
      BY <1>7, <2>1 DEF ReleaseRoom, TypeOK
  <2>3. /\ JobQueue' = JobQueue
        /\ \A q \in Rooms : \A t \in Threads : Won(t, q)' <=> Won(t, q)
        /\ \A q \in Rooms : \A i \in 1 .. Len(JobQueue) : Queued(i, q)' <=> Queued(i, q)
      BY <1>7 DEF ReleaseRoom, Won, Queued, postVars
  <2>4. \A q \in Rooms : \A v \in Workers : Draining(v, q)' <=> Draining(v, q) /\ v # w
      BY <1>7 DEF ReleaseRoom, Draining, TypeOK
  <2>5. OneHolder'
      BY <2>3, <2>4 DEF OneHolder
  <2>6. /\ \A t \in Threads : ~Won(t, r)
        /\ \A i \in 1 .. Len(JobQueue) : ~Queued(i, r)
        /\ \A v \in Workers : v # w => ~Draining(v, r)
      BY <2>1 DEF OneHolder
  <2>7. GuardHasHolder'
    <3> SUFFICES ASSUME NEW q \in Rooms
                 PROVE  RoomAccessGuard'[q] = 1 <=>
                            \/ \E u \in Threads : Won(u, q)'
                            \/ \E i \in 1 .. Len(JobQueue) : Queued(i, q)'
                            \/ \E v \in Workers : Draining(v, q)'
        BY <2>3 DEF GuardHasHolder
    <3>1. CASE q = r
        BY <2>2, <2>3, <2>4, <2>6, <3>1
    <3>2. CASE q # r
        BY <2>1, <2>2, <2>3, <2>4, <3>2 DEF GuardHasHolder
    <3> QED
        BY <3>1, <3>2
  <2> QED
      BY <2>5, <2>7
<1>8. ASSUME NEW w \in Workers, JobSpawn(w) PROVE GuardHasHolder' /\ OneHolder'
  <2>1. wroom[w] \in Rooms
      BY DEF TypeOK
  <2>2. pos[wroom[w]] \in 1 .. Len(JobProcessQueue[wroom[w]])
      BY <1>8, <2>1 DEF JobSpawn, TypeOK, BatchOwned
  <2>3. Current(w) \in Job
      BY <2>1, <2>2 DEF Current, TypeOK
  <2>4. spawnRoom[Current(w).room] \in Rooms
      BY <2>3 DEF TypeOK, Job
  <2> QED
      BY <1>8, <2>4, PushJobHolders DEF JobSpawn
<1>9. CASE StopThread
  <2>1. UNCHANGED <<RoomAccessGuard, JobQueue, wpc, wroom, post, target>>
      BY <1>9 DEF StopThread, jobVars, workerVars, postVars
  <2> QED
      BY <2>1, SameHolders DEF Won, Draining
<1>10. CASE UNCHANGED vars
  <2>1. UNCHANGED <<RoomAccessGuard, JobQueue, wpc, wroom, post, target>>
      BY <1>10 DEF vars, jobVars, workerVars, postVars
  <2> QED
      BY <2>1, SameHolders DEF Won, Draining
<1> QED
    BY <1>1, <1>2, <1>3, <1>4, <1>5, <1>6, <1>7, <1>8, <1>9, <1>10
    DEF Next, Poster, Worker

-----------------------------------------------------------------------------
(* Every step leaves JobProcessQueue to the worker that drains the room. *)
LEMMA BatchStep == Inv /\ [Next]_vars => BatchOwned'
<1> SUFFICES ASSUME Inv, [Next]_vars PROVE BatchOwned'
    OBVIOUS
<1> USE DEF Inv
<1> DEFINE Busy(w, r) == wpc[w] \in {"run", "exec"} /\ wroom[w] = r
<1>1. ASSUME UNCHANGED <<JobProcessQueue, pos>>,
             \A r \in Rooms : \A w \in Workers :
                 /\ Busy(w, r)' <=> Busy(w, r)
                 /\ wpc'[w] = "exec" => wpc[w] = "exec"
      PROVE  BatchOwned'
    BY <1>1 DEF BatchOwned
<1>2. ASSUME NEW t \in Threads, NEW r, NEW kind, NEW room, PushJob(t, r, kind, room)
      PROVE  BatchOwned'
    BY <1>1, <1>2 DEF PushJob, workerVars
<1>3. ASSUME NEW t \in Threads, TryGetAccess(t) PROVE BatchOwned'
    BY <1>1, <1>3 DEF TryGetAccess, workerVars
<1>4. ASSUME NEW t \in Threads, Enqueue(t) PROVE BatchOwned'
  <2>1. UNCHANGED <<JobProcessQueue, pos, wroom>>
      BY <1>4 DEF Enqueue, jobVars
  <2>2. \A w \in Workers : wpc'[w] = wpc[w] \/ (wpc[w] = "parked" /\ wpc'[w] = "lock")
      BY <1>4 DEF Enqueue, NotifyOne, TypeOK
  <2> QED
      BY <1>1, <2>1, <2>2
<1>5. CASE TickStep
  <2>1. CASE TickRoom \/ TickUpdated
      BY <1>1, <2>1 DEF TickRoom, TickUpdated, jobVars, workerVars
  <2>2. CASE TickSpawn \/ TickPush
      BY <1>2, <2>2 DEF TickSpawn, TickPush, Threads
  <2> QED
      BY <1>5, <2>1, <2>2 DEF TickStep
<1>6. ASSUME NEW w \in Workers,
             \/ WorkerLoop(w) \/ WorkerPark(w) \/ WorkerBreak(w)
             \/ SpuriousWake(w) \/ WorkerTake(w) \/ ReleaseRoom(w)
      PROVE  BatchOwned'
  <2>1. UNCHANGED <<JobProcessQueue, pos>>
      BY <1>6 DEF WorkerLoop, WorkerPark, WorkerBreak, SpuriousWake, WorkerTake,
                  ReleaseRoom, jobVars
  <2>2. /\ wpc[w] \notin {"run", "exec"} /\ wpc'[w] \notin {"run", "exec"}
        /\ \A v \in Workers \ {w} : wpc'[v] = wpc[v] /\ wroom'[v] = wroom[v]
      BY <1>6 DEF WorkerLoop, WorkerPark, WorkerBreak, SpuriousWake, WorkerTake,
                  ReleaseRoom, TypeOK
  <2> QED
      BY <1>1, <2>1, <2>2
<1>7. ASSUME NEW w \in Workers, SwapQueues(w) PROVE BatchOwned'
  <2>1. /\ wroom[w] \in Rooms /\ wroom' = wroom /\ pos' = pos
        /\ wpc[w] = "drain" /\ wpc'[w] = "run"
        /\ \A v \in Workers \ {w} : wpc'[v] = wpc[v]
        /\ \A q \in Rooms \ {wroom[w]} : JobProcessQueue'[q] = JobProcessQueue[q]
      BY <1>7 DEF SwapQueues, TypeOK
  <2> QED
      BY <2>1 DEF BatchOwned
<1>8. ASSUME NEW w \in Workers, StartJob(w) PROVE BatchOwned'
  <2>1. /\ wroom[w] \in Rooms /\ wroom' = wroom /\ JobProcessQueue' = JobProcessQueue
        /\ wpc[w] = "run" /\ wpc'[w] = "exec"
        /\ \A v \in Workers \ {w} : wpc'[v] = wpc[v]
        /\ pos[wroom[w]] \in Nat /\ pos'[wroom[w]] = pos[wroom[w]] + 1
        /\ \A q \in Rooms \ {wroom[w]} : pos'[q] = pos[q]
      BY <1>8 DEF StartJob, TypeOK
  <2>2. pos'[wroom[w]] >= 1
      BY <2>1
  <2> QED
      BY <2>1, <2>2 DEF BatchOwned
<1>9. ASSUME NEW w \in Workers, JobSpawn(w) PROVE BatchOwned'
    BY <1>2, <1>9 DEF JobSpawn, Threads
<1>10. ASSUME NEW w \in Workers, FinishJob(w) PROVE BatchOwned'
  <2>1. UNCHANGED <<JobProcessQueue, pos, wroom>>
      BY <1>10 DEF FinishJob, jobVars
  <2>2. /\ wpc[w] = "exec" /\ wpc'[w] = "run"
        /\ \A v \in Workers \ {w} : wpc'[v] = wpc[v]
      BY <1>10 DEF FinishJob, TypeOK
  <2> QED
      BY <1>1, <2>1, <2>2
<1>11. ASSUME NEW w \in Workers, ClearBatch(w) PROVE BatchOwned'
  <2> DEFINE r == wroom[w]
  <2>1. /\ r \in Rooms /\ wroom' = wroom
        /\ wpc[w] = "run" /\ wpc'[w] = "drain"
        /\ \A v \in Workers \ {w} : wpc'[v] = wpc[v]
        /\ JobProcessQueue'[r] = <<>>
        /\ \A q \in Rooms \ {r} : JobProcessQueue'[q] = JobProcessQueue[q] /\ pos'[q] = pos[q]
      BY <1>11 DEF ClearBatch, TypeOK
  <2>2. \A v \in Workers \ {w} : ~Busy(v, r)
      BY <2>1 DEF OneHolder, Draining
  <2> QED
      BY <2>1, <2>2 DEF BatchOwned
<1>12. CASE StopThread \/ UNCHANGED vars
    BY <1>1, <1>12 DEF StopThread, vars, jobVars, workerVars
<1>13. ASSUME NEW t \in Posters, PacketJob(t) PROVE BatchOwned'
    BY <1>2, <1>13 DEF PacketJob, Threads
<1> QED
    BY <1>3, <1>4, <1>5, <1>6, <1>7, <1>8, <1>9, <1>10, <1>11, <1>12, <1>13
    DEF Next, Poster, Worker

(* No step forgets a job. *)
LEMMA StrandedStep == Inv /\ [Next]_vars => NoStrandedJob'
<1> SUFFICES ASSUME Inv, [Next]_vars PROVE NoStrandedJob'
    OBVIOUS
<1> USE DEF Inv
<1> Ticker \in Threads /\ Posters \subseteq Threads /\ Workers \subseteq Threads
    BY DEF Threads
<1>1. ASSUME UNCHANGED <<InputJobQueue, RoomAccessGuard>>,
             \A t \in Threads : post[t] = "pushed"
                                 => post'[t] = "pushed" /\ target'[t] = target[t]
      PROVE  NoStrandedJob'
    BY <1>1 DEF NoStrandedJob
<1>2. ASSUME NEW t \in Threads, NEW r, NEW kind, NEW room, PushJob(t, r, kind, room)
      PROVE  NoStrandedJob'
  <2>1. /\ RoomAccessGuard' = RoomAccessGuard
        /\ \A q \in Rooms \ {r} : InputJobQueue'[q] = InputJobQueue[q]
        /\ post[t] = "none" /\ post'[t] = "pushed" /\ target'[t] = r
        /\ \A u \in Threads \ {t} : post'[u] = post[u] /\ target'[u] = target[u]
      BY <1>2 DEF PushJob, TypeOK
  <2> QED
      BY <2>1 DEF NoStrandedJob
<1>3. ASSUME NEW t \in Threads, TryGetAccess(t) PROVE NoStrandedJob'
  <2>1. /\ InputJobQueue' = InputJobQueue /\ target' = target
        /\ target[t] \in Rooms /\ RoomAccessGuard'[target[t]] = 1
        /\ \A q \in Rooms : RoomAccessGuard[q] = 1 => RoomAccessGuard'[q] = 1
        /\ \A u \in Threads \ {t} : post'[u] = post[u]
      BY <1>3 DEF TryGetAccess, TypeOK
  <2> QED
      BY <2>1 DEF NoStrandedJob
<1>4. ASSUME NEW t \in Threads, Enqueue(t) PROVE NoStrandedJob'
    BY <1>1, <1>4 DEF Enqueue, jobVars, TypeOK
<1>5. CASE TickStep
  <2>1. CASE TickRoom \/ TickUpdated
      BY <1>1, <2>1 DEF TickRoom, TickUpdated, jobVars, postVars
  <2>2. CASE TickSpawn \/ TickPush
      BY <1>2, <2>2 DEF TickSpawn, TickPush
  <2> QED
      BY <1>5, <2>1, <2>2 DEF TickStep
<1>6. ASSUME NEW w \in Workers,
             \/ WorkerLoop(w) \/ WorkerPark(w) \/ WorkerBreak(w) \/ SpuriousWake(w)
             \/ WorkerTake(w) \/ StartJob(w) \/ FinishJob(w) \/ ClearBatch(w)
      PROVE  NoStrandedJob'
    BY <1>1, <1>6 DEF WorkerLoop, WorkerPark, WorkerBreak, SpuriousWake, WorkerTake,
                      StartJob, FinishJob, ClearBatch, jobVars, postVars
<1>7. ASSUME NEW w \in Workers, ReleaseRoom(w) PROVE NoStrandedJob'
  <2>1. /\ InputJobQueue' = InputJobQueue /\ post' = post /\ target' = target
        /\ InputJobQueue[wroom[w]] = <<>>
        /\ \A q \in Rooms \ {wroom[w]} : RoomAccessGuard'[q] = RoomAccessGuard[q]
      BY <1>7 DEF ReleaseRoom, postVars, TypeOK
  <2> QED
      BY <2>1 DEF NoStrandedJob
<1>8. ASSUME NEW w \in Workers, SwapQueues(w) PROVE NoStrandedJob'
  <2>1. /\ RoomAccessGuard' = RoomAccessGuard /\ post' = post /\ target' = target
        /\ InputJobQueue[wroom[w]] # <<>>
        /\ \A q \in Rooms \ {wroom[w]} : InputJobQueue'[q] = InputJobQueue[q]
      BY <1>8 DEF SwapQueues, postVars, TypeOK
  <2> QED
      BY <2>1 DEF NoStrandedJob
<1>9. ASSUME NEW w \in Workers, JobSpawn(w) PROVE NoStrandedJob'
    BY <1>2, <1>9 DEF JobSpawn
<1>10. CASE StopThread \/ UNCHANGED vars
    BY <1>1, <1>10 DEF StopThread, vars, jobVars, postVars
<1>11. ASSUME NEW t \in Posters, PacketJob(t) PROVE NoStrandedJob'
    BY <1>2, <1>11 DEF PacketJob
<1> QED
    BY <1>3, <1>4, <1>5, <1>6, <1>7, <1>8, <1>9, <1>10, <1>11 DEF Next, Poster, Worker

(* The invariant holds of every reachable state. *)
THEOREM Invariance == Spec => []Inv
<1>1. Inv /\ [Next]_vars => Inv'
    BY TypeStep, HolderStep, BatchStep, StrandedStep DEF Inv
<1> QED
    BY InitInv, <1>1, PTL DEF Spec

(* The queues, guards and program counters keep their types; in particular  *)
(* the loop over JobProcessQueue never runs past its end.                   *)
THEOREM TypeCorrect == Spec => []TypeOK
<1>1. Inv => TypeOK
    BY DEF Inv
<1> QED
    BY Invariance, <1>1, PTL

(* A closed RoomAccessGuard is always answered for: TryGetAccess,           *)
(* ProcessJob and ProcessJobQueue hand it over without dropping it.         *)
THEOREM GuardHeld == Spec => []GuardHasHolder
<1>1. Inv => GuardHasHolder
    BY DEF Inv
<1> QED
    BY Invariance, <1>1, PTL

(* One thread, queue entry or worker at a time is responsible for a room,   *)
(* for any number of workers: no two drain one room.                        *)
THEOREM SingleHolder == Spec => []OneHolder
<1>1. Inv => OneHolder
    BY DEF Inv
<1> QED
    BY Invariance, <1>1, PTL

(* A job in InputJobQueue always has somebody who will drain its room.      *)
THEOREM NothingStranded == Spec => []NoStrandedJob
<1>1. Inv => NoStrandedJob
    BY DEF Inv
<1> QED
    BY Invariance, <1>1, PTL

-----------------------------------------------------------------------------
(***************************************************************************)
(* RoomJobs implements SerialRooms: a room's jobs run one at a time, in    *)
(* push order, each once, whatever the number of rooms, pushing threads    *)
(* and workers.  A job starts and returns in the step of the worker that   *)
(* calls it; every other step but a push is a stutter of SerialRooms.      *)
(***************************************************************************)

USE NRoomsAssumption, MaxJobsAssumption, ThreadsAssumption

(* Taking the first element of what is left of s, followed by t. *)
LEMMA TakeFirst ==
    ASSUME NEW S, NEW s \in Seq(S), NEW t \in Seq(S), NEW p \in Nat, p < Len(s)
    PROVE  LET rest == SubSeq(s, p + 1, Len(s)) \o t
           IN  /\ rest # <<>>
               /\ Head(rest) = s[p + 1]
               /\ Tail(rest) = SubSeq(s, p + 2, Len(s)) \o t
<1> DEFINE a == SubSeq(s, p + 1, Len(s))
           b == SubSeq(s, p + 2, Len(s))
<1>1. Len(s) \in Nat /\ p + 1 \in 1 .. Len(s) /\ Len(s) \in p + 1 .. Len(s)
    OBVIOUS
<1>2. Head(a) = s[p + 1] /\ Tail(a) = b
  <2>1. Tail(a) = SubSeq(s, (p + 1) + 1, Len(s)) /\ Head(a) = s[p + 1]
      BY <1>1, HeadTailOfSubSeq
  <2>2. (p + 1) + 1 = p + 2
      OBVIOUS
  <2> QED
      BY <2>1, <2>2
<1>3. a \in Seq(S) /\ Len(a) = Len(s) - p /\ a # <<>>
  <2>1. \A i \in p + 1 .. Len(s) : s[i] \in S
      OBVIOUS
  <2>2. a \in Seq(S) /\ Len(a) = Len(s) - (p + 1) + 1
      BY <1>1, <2>1, SubSeqProperties
  <2> HIDE DEF a
  <2>3. Len(a) = Len(s) - p /\ Len(a) > 0
      BY <1>1, <2>2
  <2> QED
      BY <2>2, <2>3
<1> HIDE DEF a, b
<1>4. /\ a \o t # <<>>
      /\ Head(a \o t) = Head(a)
      /\ Tail(a \o t) = Tail(a) \o t
  <2>1. a \o t \in Seq(S) /\ Len(a \o t) = Len(a) + Len(t) /\ Len(a) \in Nat /\ Len(a) > 0
    <3>1. a \o t \in Seq(S) /\ Len(a \o t) = Len(a) + Len(t)
        BY <1>3, ConcatProperties
    <3>2. Len(a) \in Nat /\ Len(a) > 0
        BY <1>1, <1>3
    <3> QED
        BY <3>1, <3>2
  <2>2. a \o t # <<>> /\ Head(a \o t) = Head(a)
      BY <1>3, <2>1
  <2>3. Tail(a) \in Seq(S) /\ Len(Tail(a)) = Len(a) - 1
      BY <1>3, HeadTailProperties
  <2>4. Tail(a \o t) \in Seq(S) /\ Tail(a) \o t \in Seq(S)
      BY <2>1, <2>2, <2>3, HeadTailProperties, ConcatProperties
  <2>5. Len(Tail(a \o t)) = Len(Tail(a) \o t)
      BY <2>1, <2>2, <2>3, HeadTailProperties, ConcatProperties
  <2>6. ASSUME NEW i \in 1 .. Len(Tail(a \o t))
        PROVE  Tail(a \o t)[i] = (Tail(a) \o t)[i]
    <3>1. Tail(a \o t)[i] = (a \o t)[i + 1]
        BY <2>1, <2>2, HeadTailProperties
    <3> QED
        BY <1>3, <2>1, <2>2, <2>3, <3>1
  <2> QED
      BY <2>2, <2>4, <2>5, <2>6, SeqEqual
<1> QED
    BY <1>2, <1>4 DEF a, b

(* Appending to the second of two sequences appends to both. *)
LEMMA AppendRight ==
    ASSUME NEW S, NEW s \in Seq(S), NEW t \in Seq(S), NEW e \in S
    PROVE  s \o Append(t, e) = Append(s \o t, e)
<1> DEFINE u == Append(t, e)
           l == s \o u
           m == Append(s \o t, e)
<1>1. u \in Seq(S) /\ Len(u) = Len(t) + 1 /\ u[Len(t) + 1] = e
         /\ \A i \in 1 .. Len(t) : u[i] = t[i]
    BY AppendProperties
<1> HIDE DEF u
<1>2. l \in Seq(S) /\ Len(l) = Len(s) + Len(u)
         /\ \A i \in 1 .. Len(s) + Len(u) :
               l[i] = IF i <= Len(s) THEN s[i] ELSE u[i - Len(s)]
    BY <1>1, ConcatProperties
<1>3. s \o t \in Seq(S) /\ Len(s \o t) = Len(s) + Len(t)
         /\ \A i \in 1 .. Len(s) + Len(t) :
               (s \o t)[i] = IF i <= Len(s) THEN s[i] ELSE t[i - Len(s)]
    BY ConcatProperties
<1>4. m \in Seq(S) /\ Len(m) = Len(s) + Len(t) + 1 /\ m[Len(s) + Len(t) + 1] = e
         /\ \A i \in 1 .. Len(s) + Len(t) : m[i] = (s \o t)[i]
    BY <1>3, AppendProperties
<1> HIDE DEF l, m
<1>5. Len(s) \in Nat /\ Len(t) \in Nat
    OBVIOUS
<1>6. Len(l) = Len(m)
    BY <1>1, <1>2, <1>4, <1>5
<1>7. ASSUME NEW i \in 1 .. Len(l) PROVE l[i] = m[i]
  <2>1. i \in 1 .. Len(s) + Len(t) + 1
      BY <1>1, <1>2, <1>5
  <2>2. CASE i <= Len(s)
    <3>1. i \in 1 .. Len(s) + Len(t) /\ i \in 1 .. Len(s) + Len(u)
        BY <1>1, <1>5, <2>1, <2>2
    <3> QED
        BY <1>2, <1>3, <1>4, <2>2, <3>1
  <2>3. CASE i > Len(s) /\ i <= Len(s) + Len(t)
    <3>1. i - Len(s) \in 1 .. Len(t) /\ i \in 1 .. Len(s) + Len(t)
        BY <1>5, <2>1, <2>3
    <3> QED
        BY <1>1, <1>2, <1>3, <1>4, <1>5, <2>1, <2>3, <3>1
  <2>4. CASE i = Len(s) + Len(t) + 1
    <3>1. i - Len(s) = Len(t) + 1 /\ ~(i <= Len(s)) /\ i \in 1 .. Len(s) + Len(u)
        BY <1>1, <1>5, <2>4
    <3> QED
        BY <1>1, <1>2, <1>4, <2>4, <3>1
  <2> QED
      BY <1>5, <2>1, <2>2, <2>3, <2>4
<1>8. l = m
    BY <1>2, <1>4, <1>6, <1>7, SeqEqual
<1> QED
    BY <1>8 DEF l, m, u

(* Where the batch of a room is, Pending is well typed. *)
LEMMA PendingType ==
    ASSUME TypeOK, NEW r \in Rooms
    PROVE  /\ SubSeq(JobProcessQueue[r], pos[r] + 1, Len(JobProcessQueue[r])) \in Seq(Job)
           /\ InputJobQueue[r] \in Seq(Job)
           /\ Pending(r) \in Seq(Job)
<1>1. JobProcessQueue[r] \in Seq(Job) /\ InputJobQueue[r] \in Seq(Job) /\ pos[r] \in Nat
    BY DEF TypeOK
<1>2. \A i \in pos[r] + 1 .. Len(JobProcessQueue[r]) : JobProcessQueue[r][i] \in Job
    BY <1>1
<1>3. SubSeq(JobProcessQueue[r], pos[r] + 1, Len(JobProcessQueue[r])) \in Seq(Job)
    BY <1>1, <1>2, SubSeqProperties
<1> QED
    BY <1>1, <1>3, ConcatProperties DEF Pending

(* A step that keeps the queues of the jobs, who runs what and what was run *)
(* is a stutter.                                                            *)
LEMMA Stutter ==
    ASSUME UNCHANGED <<InputJobQueue, JobProcessQueue, pos, wroom, ran>>,
           \A w \in Workers : wpc'[w] = "exec" <=> wpc[w] = "exec"
    PROVE  UNCHANGED Serial!vars
<1>1. \A r \in Rooms : Pending(r)' = Pending(r)
    BY DEF Pending
<1>2. \A r \in Rooms : Running(r)' = Running(r)
    BY DEF Running, Current
<1> QED
    BY <1>1, <1>2 DEF Serial!vars

(* PushJob submits one job to its room. *)
LEMMA PushSubmits ==
    ASSUME Inv, NEW t \in Threads, NEW r \in Rooms,
           NEW kind \in {"packet", "update", "spawn"}, NEW room \in Rooms,
           PushJob(t, r, kind, room)
    PROVE  Serial!Next
<1> DEFINE job == [id |-> issued + 1, kind |-> kind, room |-> room]
           a   == SubSeq(JobProcessQueue[r], pos[r] + 1, Len(JobProcessQueue[r]))
<1> USE DEF Inv
<1>1. job \in Job
    BY DEF PushJob, TypeOK, Job
<1>2. UNCHANGED <<JobProcessQueue, pos, wpc, wroom, ran>>
    BY DEF PushJob, workerVars
<1>3. \A q \in Rooms : Running(q)' = Running(q)
    BY <1>2 DEF Running, Current
<1>4. InputJobQueue'[r] = Append(InputJobQueue[r], job)
    BY DEF PushJob, TypeOK
<1>5. \A q \in Rooms \ {r} : Pending(q)' = Pending(q)
    BY <1>2 DEF PushJob, TypeOK, Pending
<1>6. Pending(r)' = Append(Pending(r), job)
  <2>1. a \in Seq(Job) /\ InputJobQueue[r] \in Seq(Job) /\ Pending(r) \in Seq(Job)
      BY PendingType
  <2> HIDE DEF job, a
  <2>3. a \o Append(InputJobQueue[r], job) = Append(a \o InputJobQueue[r], job)
      BY <1>1, <2>1, AppendRight
  <2>6. Pending(r)' = a \o InputJobQueue'[r] /\ Pending(r) = a \o InputJobQueue[r]
      BY <1>2 DEF Pending, a
  <2> QED
      BY <1>4, <2>3, <2>6
<1> HIDE DEF job
<1>7. [q \in Rooms |-> Pending(q)]' =
          [[q \in Rooms |-> Pending(q)] EXCEPT ![r] = Append(@, job)]
    BY <1>5, <1>6
<1>8. Serial!Submit(r, job)
    BY <1>2, <1>3, <1>7 DEF Serial!Submit
<1> QED
    BY <1>1, <1>8 DEF Serial!Next

(* A worker at "exec" runs a job, and is the only one of its room. *)
LEMMA RunningIs ==
    ASSUME Inv, NEW w \in Workers, wpc[w] = "exec"
    PROVE  /\ wroom[w] \in Rooms
           /\ Current(w) \in Job
           /\ Running(wroom[w]) = {Current(w)}
<1> USE DEF Inv
<1>1. wroom[w] \in Rooms
    BY DEF TypeOK
<1>2. pos[wroom[w]] \in 1 .. Len(JobProcessQueue[wroom[w]])
    BY <1>1 DEF TypeOK, BatchOwned
<1>3. Current(w) \in Job
    BY <1>1, <1>2 DEF Current, TypeOK
<1>4. {v \in Workers : wpc[v] = "exec" /\ wroom[v] = wroom[w]} = {w}
    BY <1>1 DEF OneHolder, Draining
<1>5. Running(wroom[w]) = {Current(w)}
    BY <1>4 DEF Running
<1> QED
    BY <1>1, <1>3, <1>5

(* No job of a room runs while its worker is between two jobs. *)
LEMMA RunningEmpty ==
    ASSUME Inv, NEW w \in Workers, wpc[w] \in {"drain", "run"}
    PROVE  wroom[w] \in Rooms /\ Running(wroom[w]) = {}
<1> USE DEF Inv
<1>1. wroom[w] \in Rooms
    BY DEF TypeOK
<1>2. {v \in Workers : wpc[v] = "exec" /\ wroom[v] = wroom[w]} = {}
    BY <1>1 DEF OneHolder, Draining
<1> QED
    BY <1>1, <1>2 DEF Running

(* Swapping the queues and clearing the batch move jobs, and lose none. *)
LEMMA SwapStutter ==
    ASSUME Inv, NEW w \in Workers, SwapQueues(w)
    PROVE  UNCHANGED Serial!vars
<1> DEFINE r == wroom[w]
<1> USE DEF Inv
<1>1. r \in Rooms /\ Running(r) = {} /\ InputJobQueue[r] \in Seq(Job)
    BY RunningEmpty DEF SwapQueues, TypeOK
<1>2. /\ JobProcessQueue[r] = <<>>
      /\ \A v \in Workers : wpc[v] = "exec" => wroom[v] # r
    BY <1>1 DEF SwapQueues, BatchOwned, OneHolder, Draining
<1>3. pos[r] = 0
    BY <1>1, <1>2 DEF TypeOK
<1>4. /\ JobProcessQueue'[r] = InputJobQueue[r]
      /\ InputJobQueue'[r] = <<>>
      /\ pos' = pos /\ wroom' = wroom /\ ran' = ran
      /\ \A q \in Rooms \ {r} : JobProcessQueue'[q] = JobProcessQueue[q]
                                /\ InputJobQueue'[q] = InputJobQueue[q]
      /\ \A v \in Workers : wpc'[v] = "exec" <=> wpc[v] = "exec"
    BY <1>1, <1>2 DEF SwapQueues, TypeOK
<1>5. Pending(r)' = Pending(r)
  <2>1. Pending(r)' = SubSeq(InputJobQueue[r], 1, Len(InputJobQueue[r])) \o <<>>
    <3>1. wroom'[w] = r /\ pos'[r] + 1 = 1
        BY <1>3, <1>4
    <3>2. Pending(r)' = SubSeq(JobProcessQueue'[r], pos'[r] + 1, Len(JobProcessQueue'[r]))
                            \o InputJobQueue'[r]
        BY <3>1 DEF Pending
    <3> QED
        BY <1>4, <3>1, <3>2
  <2>2. Pending(r) = SubSeq(<<>>, 1, 0) \o InputJobQueue[r]
    <3>1. pos[r] + 1 = 1 /\ Len(JobProcessQueue[r]) = 0
        BY <1>2, <1>3
    <3> QED
        BY <1>2, <3>1 DEF Pending
  <2>3. SubSeq(<<>>, 1, 0) = <<>>
      BY SubSeqEmpty
  <2>4. SubSeq(InputJobQueue[r], 1, Len(InputJobQueue[r])) = InputJobQueue[r]
      BY <1>1, SubSeqFull
  <2>5. InputJobQueue[r] \o <<>> = InputJobQueue[r] /\ <<>> \o InputJobQueue[r] = InputJobQueue[r]
      BY <1>1, ConcatEmptySeq
  <2> QED
      BY <2>1, <2>2, <2>3, <2>4, <2>5
<1>6. \A q \in Rooms : Pending(q)' = Pending(q)
    BY <1>4, <1>5 DEF Pending
<1>7. \A q \in Rooms : Running(q)' = Running(q)
  <2> SUFFICES ASSUME NEW q \in Rooms PROVE Running(q)' = Running(q)
      OBVIOUS
  <2>1. {v \in Workers : wpc'[v] = "exec" /\ wroom'[v] = q}
            = {v \in Workers : wpc[v] = "exec" /\ wroom[v] = q}
      BY <1>4
  <2>2. \A v \in Workers : wpc[v] = "exec" /\ wroom[v] = q => Current(v)' = Current(v)
      BY <1>2, <1>4 DEF Current
  <2> QED
      BY <2>1, <2>2 DEF Running
<1> QED
    BY <1>4, <1>6, <1>7 DEF Serial!vars

LEMMA ClearStutter ==
    ASSUME Inv, NEW w \in Workers, ClearBatch(w)
    PROVE  UNCHANGED Serial!vars
<1> DEFINE r == wroom[w]
<1> USE DEF Inv
<1>1. r \in Rooms /\ JobProcessQueue[r] \in Seq(Job) /\ pos[r] = Len(JobProcessQueue[r])
    BY DEF ClearBatch, TypeOK
<1>2. \A v \in Workers : wpc[v] = "exec" => wroom[v] # r
    BY <1>1 DEF ClearBatch, OneHolder, Draining
<1>3. /\ JobProcessQueue'[r] = <<>> /\ pos'[r] = 0
      /\ InputJobQueue' = InputJobQueue /\ wroom' = wroom /\ ran' = ran
      /\ \A q \in Rooms \ {r} : JobProcessQueue'[q] = JobProcessQueue[q] /\ pos'[q] = pos[q]
      /\ \A v \in Workers : wpc'[v] = "exec" <=> wpc[v] = "exec"
    BY <1>1 DEF ClearBatch, TypeOK
<1>4. Pending(r)' = Pending(r)
  <2>1. Pending(r)' = SubSeq(<<>>, 1, 0) \o InputJobQueue[r]
      BY <1>3 DEF Pending
  <2>2. Pending(r) = SubSeq(JobProcessQueue[r], Len(JobProcessQueue[r]) + 1,
                            Len(JobProcessQueue[r])) \o InputJobQueue[r]
      BY <1>1 DEF Pending
  <2>3. SubSeq(<<>>, 1, 0) = <<>>
      BY SubSeqEmpty
  <2>4. SubSeq(JobProcessQueue[r], Len(JobProcessQueue[r]) + 1,
               Len(JobProcessQueue[r])) = <<>>
      BY <1>1, SubSeqEmpty
  <2> QED
      BY <2>1, <2>2, <2>3, <2>4
<1>5. \A q \in Rooms : Pending(q)' = Pending(q)
    BY <1>3, <1>4 DEF Pending
<1>6. \A q \in Rooms : Running(q)' = Running(q)
  <2> SUFFICES ASSUME NEW q \in Rooms PROVE Running(q)' = Running(q)
      OBVIOUS
  <2>1. {v \in Workers : wpc'[v] = "exec" /\ wroom'[v] = q}
            = {v \in Workers : wpc[v] = "exec" /\ wroom[v] = q}
      BY <1>3
  <2>2. \A v \in Workers : wpc[v] = "exec" /\ wroom[v] = q => Current(v)' = Current(v)
      BY <1>2, <1>3 DEF Current
  <2> QED
      BY <2>1, <2>2 DEF Running
<1> QED
    BY <1>3, <1>5, <1>6 DEF Serial!vars

(* The call of a job is Start, its return is Finish. *)
LEMMA StartStarts ==
    ASSUME Inv, NEW w \in Workers, StartJob(w)
    PROVE  Serial!Next
<1> DEFINE r == wroom[w]
<1> USE DEF Inv
<1>1. r \in Rooms /\ Running(r) = {}
    BY RunningEmpty DEF StartJob
<1>2. /\ JobProcessQueue[r] \in Seq(Job) /\ InputJobQueue[r] \in Seq(Job)
      /\ pos[r] \in Nat /\ pos[r] < Len(JobProcessQueue[r])
    BY <1>1 DEF StartJob, TypeOK
<1>3. /\ pos'[r] = pos[r] + 1
      /\ \A q \in Rooms \ {r} : pos'[q] = pos[q]
      /\ wpc'[w] = "exec" /\ wpc[w] = "run"
      /\ \A v \in Workers \ {w} : wpc'[v] = wpc[v]
      /\ UNCHANGED <<InputJobQueue, JobProcessQueue, wroom, ran>>
    BY <1>1 DEF StartJob, TypeOK
<1>4. \A v \in Workers \ {w} : wpc[v] = "exec" => wroom[v] # r
    BY <1>1, <1>3 DEF OneHolder, Draining
<1>5. /\ Pending(r) # <<>>
      /\ Head(Pending(r)) = JobProcessQueue[r][pos[r] + 1]
      /\ Tail(Pending(r)) = SubSeq(JobProcessQueue[r], pos[r] + 2, Len(JobProcessQueue[r]))
                                \o InputJobQueue[r]
    BY <1>2, TakeFirst DEF Pending
<1>6. Pending(r)' = Tail(Pending(r))
  <2>1. (pos[r] + 1) + 1 = pos[r] + 2
      BY <1>2
  <2> QED
      BY <1>3, <1>5, <2>1 DEF Pending
<1>7. \A q \in Rooms \ {r} : Pending(q)' = Pending(q)
    BY <1>3 DEF Pending
<1>8. Running(r)' = {Head(Pending(r))}
  <2>1. {v \in Workers : wpc'[v] = "exec" /\ wroom'[v] = r} = {w}
      BY <1>3, <1>4
  <2>2. Current(w)' = JobProcessQueue[r][pos[r] + 1]
      BY <1>3 DEF Current
  <2> QED
      BY <1>5, <2>1, <2>2 DEF Running
<1>9. \A q \in Rooms \ {r} : Running(q)' = Running(q)
  <2> SUFFICES ASSUME NEW q \in Rooms \ {r} PROVE Running(q)' = Running(q)
      OBVIOUS
  <2>1. {v \in Workers : wpc'[v] = "exec" /\ wroom'[v] = q}
            = {v \in Workers : wpc[v] = "exec" /\ wroom[v] = q}
      BY <1>3
  <2>2. \A v \in Workers : wroom[v] = q => Current(v)' = Current(v)
      BY <1>3 DEF Current
  <2> QED
      BY <2>1, <2>2 DEF Running
<1>10. Serial!Start(r)
  <2>1. [q \in Rooms |-> Pending(q)]' =
            [[q \in Rooms |-> Pending(q)] EXCEPT ![r] = Tail(@)]
      BY <1>3, <1>6, <1>7
  <2>2. [q \in Rooms |-> Running(q)]' =
            [[q \in Rooms |-> Running(q)] EXCEPT ![r] = {Head(Pending(r))}]
      BY <1>3, <1>8, <1>9
  <2> QED
      BY <1>1, <1>3, <1>5, <2>1, <2>2 DEF Serial!Start
<1> QED
    BY <1>1, <1>10 DEF Serial!Next

LEMMA FinishFinishes ==
    ASSUME Inv, NEW w \in Workers, FinishJob(w)
    PROVE  Serial!Next
<1> DEFINE r == wroom[w]
<1> USE DEF Inv
<1>1. r \in Rooms /\ Running(r) = {Current(w)}
    BY RunningIs DEF FinishJob
<1>2. /\ UNCHANGED <<InputJobQueue, JobProcessQueue, pos, wroom>>
      /\ wpc[w] = "exec" /\ wpc'[w] = "run"
      /\ \A v \in Workers \ {w} : wpc'[v] = wpc[v]
      /\ ran' = [ran EXCEPT ![r] = Append(@, Current(w))]
    BY DEF FinishJob, jobVars, TypeOK
<1>3. \A v \in Workers \ {w} : wpc[v] = "exec" => wroom[v] # r
    BY <1>1, <1>2 DEF OneHolder, Draining
<1>4. \A q \in Rooms : Pending(q)' = Pending(q)
    BY <1>2 DEF Pending
<1>5. Running(r)' = {}
    BY <1>2, <1>3 DEF Running
<1>6. \A q \in Rooms \ {r} : Running(q)' = Running(q)
  <2> SUFFICES ASSUME NEW q \in Rooms \ {r} PROVE Running(q)' = Running(q)
      OBVIOUS
  <2>1. {v \in Workers : wpc'[v] = "exec" /\ wroom'[v] = q}
            = {v \in Workers : wpc[v] = "exec" /\ wroom[v] = q}
      BY <1>2
  <2>2. \A v \in Workers : Current(v)' = Current(v)
      BY <1>2 DEF Current
  <2> QED
      BY <2>1, <2>2 DEF Running
<1>7. [q \in Rooms |-> Running(q)]' = [[q \in Rooms |-> Running(q)] EXCEPT ![r] = {}]
    BY <1>2, <1>5, <1>6
<1>8. Serial!Finish(r)
    BY <1>1, <1>2, <1>4, <1>7 DEF Serial!Finish
<1> QED
    BY <1>1, <1>8 DEF Serial!Next

-----------------------------------------------------------------------------
(* Initially no job waits, runs or ran. *)
LEMMA RefinesInit == Init => Serial!Init
<1> SUFFICES ASSUME Init PROVE Serial!Init
    OBVIOUS
<1>1. \A r \in Rooms : Pending(r) = <<>>
  <2> SUFFICES ASSUME NEW r \in Rooms PROVE Pending(r) = <<>>
      OBVIOUS
  <2>1. Pending(r) = SubSeq(<<>>, 1, 0) \o <<>>
      BY DEF Init, Pending
  <2>2. SubSeq(<<>>, 1, 0) = <<>>
      BY SubSeqEmpty
  <2> QED
      BY <2>1, <2>2
<1>2. \A r \in Rooms : Running(r) = {}
    BY DEF Init, Running
<1> QED
    BY <1>1, <1>2 DEF Init, Serial!Init

(* Every step is a step of SerialRooms or a stutter. *)
LEMMA RefinesNext == Inv /\ [Next]_vars => [Serial!Next]_(Serial!vars)
<1> SUFFICES ASSUME Inv, [Next]_vars PROVE [Serial!Next]_(Serial!vars)
    OBVIOUS
<1> USE DEF Inv
<1>1. ASSUME NEW t \in Threads, TryGetAccess(t) \/ Enqueue(t)
      PROVE  UNCHANGED Serial!vars
  <2>1. UNCHANGED <<InputJobQueue, JobProcessQueue, pos, wroom, ran>>
      BY <1>1 DEF TryGetAccess, Enqueue, jobVars, workerVars
  <2>2. \A w \in Workers : wpc'[w] = "exec" <=> wpc[w] = "exec"
      BY <1>1 DEF TryGetAccess, Enqueue, NotifyOne, workerVars, TypeOK
  <2> QED
      BY <2>1, <2>2, Stutter
<1>2. ASSUME NEW t \in Posters, PacketJob(t) PROVE Serial!Next
    BY <1>2, PushSubmits DEF PacketJob, Threads
<1>3. CASE TickStep
  <2>1. CASE TickRoom \/ TickUpdated
    <3>1. UNCHANGED <<InputJobQueue, JobProcessQueue, pos, wpc, wroom, ran>>
        BY <2>1 DEF TickRoom, TickUpdated, jobVars, workerVars
    <3> QED
        BY <3>1, Stutter
  <2>2. CASE TickSpawn
    <3>1. tickRoom \in Rooms /\ spawnRoom[tickRoom] \in Rooms /\ Ticker \in Threads
        BY DEF TypeOK, Threads
    <3> QED
        BY <2>2, <3>1, PushSubmits DEF TickSpawn
  <2>3. CASE TickPush
    <3>1. tickRoom \in Rooms /\ Ticker \in Threads
        BY DEF TypeOK, Threads
    <3> QED
        BY <2>3, <3>1, PushSubmits DEF TickPush
  <2> QED
      BY <1>3, <2>1, <2>2, <2>3 DEF TickStep
<1>4. ASSUME NEW w \in Workers,
             \/ WorkerLoop(w) \/ WorkerPark(w) \/ WorkerBreak(w)
             \/ SpuriousWake(w) \/ ReleaseRoom(w)
      PROVE  UNCHANGED Serial!vars
  <2>1. UNCHANGED <<InputJobQueue, JobProcessQueue, pos, wroom, ran>>
      BY <1>4 DEF WorkerLoop, WorkerPark, WorkerBreak, SpuriousWake, ReleaseRoom, jobVars
  <2>2. \A v \in Workers : wpc'[v] = "exec" <=> wpc[v] = "exec"
      BY <1>4 DEF WorkerLoop, WorkerPark, WorkerBreak, SpuriousWake, ReleaseRoom, TypeOK
  <2> QED
      BY <2>1, <2>2, Stutter
<1>5. ASSUME NEW w \in Workers, WorkerTake(w) PROVE UNCHANGED Serial!vars
  <2>1. /\ UNCHANGED <<InputJobQueue, JobProcessQueue, pos, ran>>
        /\ wpc[w] = "lock" /\ wpc'[w] = "drain"
        /\ \A v \in Workers \ {w} : wpc'[v] = wpc[v] /\ wroom'[v] = wroom[v]
      BY <1>5 DEF WorkerTake, jobVars, TypeOK
  <2>2. \A r \in Rooms : Pending(r)' = Pending(r)
      BY <2>1 DEF Pending
  <2>3. \A r \in Rooms : Running(r)' = Running(r)
    <3> SUFFICES ASSUME NEW r \in Rooms PROVE Running(r)' = Running(r)
        OBVIOUS
    <3>1. {v \in Workers : wpc'[v] = "exec" /\ wroom'[v] = r}
              = {v \in Workers : wpc[v] = "exec" /\ wroom[v] = r}
        BY <2>1
    <3>2. \A v \in Workers \ {w} : Current(v)' = Current(v)
        BY <2>1 DEF Current
    <3> QED
        BY <2>1, <3>1, <3>2 DEF Running
  <2> QED
      BY <2>1, <2>2, <2>3 DEF Serial!vars
<1>6. ASSUME NEW w \in Workers, SwapQueues(w) \/ ClearBatch(w)
      PROVE  UNCHANGED Serial!vars
    BY <1>6, SwapStutter, ClearStutter
<1>7. ASSUME NEW w \in Workers, StartJob(w) \/ FinishJob(w) PROVE Serial!Next
    BY <1>7, StartStarts, FinishFinishes
<1>8. ASSUME NEW w \in Workers, JobSpawn(w) PROVE Serial!Next
  <2>1. Current(w).room \in Rooms
      BY <1>8, RunningIs DEF JobSpawn, Job
  <2>2. spawnRoom[Current(w).room] \in Rooms /\ w \in Threads
      BY <2>1 DEF TypeOK, Threads
  <2> QED
      BY <1>8, <2>1, <2>2, PushSubmits DEF JobSpawn
<1>9. CASE StopThread \/ UNCHANGED vars
  <2>1. UNCHANGED <<InputJobQueue, JobProcessQueue, pos, wpc, wroom, ran>>
      BY <1>9 DEF StopThread, vars, jobVars, workerVars
  <2> QED
      BY <2>1, Stutter
<1> QED
    BY <1>1, <1>2, <1>3, <1>4, <1>5, <1>6, <1>7, <1>8, <1>9 DEF Next, Poster, Worker

(* The jobs handed to a room run one at a time, in the order PushJob        *)
(* appended them, each exactly once: swapping, clearing and handing over    *)
(* the guard lose, repeat and reorder none.                                 *)
THEOREM Implements == Spec => SerialSpec
<1>1. Spec => []Inv
    BY Invariance
<1> QED
    BY <1>1, RefinesInit, RefinesNext, PTL DEF Spec, SerialSpec, Serial!Spec
=============================================================================
