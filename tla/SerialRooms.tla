---------------------------- MODULE SerialRooms ----------------------------
(***************************************************************************)
(* What the room job queue promises, without threads, guards or queues of  *)
(* rooms: each room owns a queue of jobs, runs them one at a time, in the  *)
(* order they were submitted, each exactly once.                           *)
(*                                                                         *)
(* RoomJobs, the model of RoomManager.h, is shown to implement it.         *)
(***************************************************************************)
EXTENDS Naturals, Sequences

CONSTANTS Rooms,    \* the chat rooms
          Job       \* the jobs that may be submitted

VARIABLES queue,    \* queue[r]: the jobs of r submitted and not started
          running,  \* running[r]: the set of jobs of r being executed
          ran       \* ran[r]: the jobs of r that completed, in order

vars == <<queue, running, ran>>

Init == /\ queue = [r \in Rooms |-> <<>>]
        /\ running = [r \in Rooms |-> {}]
        /\ ran = [r \in Rooms |-> <<>>]

(* A job is handed to room r. *)
Submit(r, job) == /\ queue' = [queue EXCEPT ![r] = Append(@, job)]
                  /\ UNCHANGED <<running, ran>>

(* The oldest job of r starts, only while no other job of r is running. *)
Start(r) == /\ queue[r] # <<>>
            /\ running[r] = {}
            /\ running' = [running EXCEPT ![r] = {Head(queue[r])}]
            /\ queue' = [queue EXCEPT ![r] = Tail(@)]
            /\ UNCHANGED ran

(* The running job of r returns. *)
Finish(r) == \E job \in running[r] :
                /\ ran' = [ran EXCEPT ![r] = Append(@, job)]
                /\ running' = [running EXCEPT ![r] = {}]
                /\ UNCHANGED queue

Next == \E r \in Rooms : \/ \E job \in Job : Submit(r, job)
                         \/ Start(r)
                         \/ Finish(r)

Spec == Init /\ [][Next]_vars
=============================================================================
