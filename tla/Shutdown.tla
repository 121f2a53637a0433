------------------------------ MODULE Shutdown ------------------------------
(***************************************************************************)
(* Stopping the server: main clears the flag of one group of threads after *)
(* the other, wakes those that wait, and joins them (IocpServer::          *)
(* DestroyThread, ChatServer::OnStopServer, and at last ~RoomManager).      *)
(*                                                                         *)
(* The flags are cleared without the locks of the waits, so that a thread   *)
(* may have seen the old value and not wait yet when all are notified.      *)
(* What the threads do to an element is left out but for the queues they    *)
(* push to; an element is one, whatever it is.  The flag of a loop and that *)
(* of its wait, where they are two, are cleared one right after the other   *)
(* and are one here.                                                        *)
(***************************************************************************)
EXTENDS Naturals, Sequences

CONSTANTS
    Threads,   \* a number of threads for each group
    MaxItems   \* bound: how many elements are pushed in all

(* The groups in the order they are stopped, also with two of them swapped  *)
(* (mutant).  A group that takes from a queue gives it its name.            *)
GroupsSwapped == <<"io", "accept", "request", "packet", "ticker", "dbResult",
                   "result", "tps", "room">>

Groups == <<"io", "accept", "packet", "ticker", "request", "dbResult", "result",
            "tps", "room">>
Queues == {"io", "accept", "packet", "request", "dbResult", "result", "room"}

ASSUME ThreadsAssumption == Threads \in [{Groups[i] : i \in DOMAIN Groups} -> Nat]
ASSUME MaxItemsAssumption == MaxItems \in Nat

(* Who pushes to which queues; who is not notified; and who takes what is   *)
(* in the queue although the flag is cleared.                               *)
Feeds(g) == CASE g = "io"      -> {"accept", "packet"}
              [] g = "packet"  -> {"request", "result", "room"}
              [] g = "ticker"  -> {"room"}
              [] g = "request" -> {"dbResult"}
              [] g = "room"    -> {"room"}
              [] OTHER         -> {}
Unnotified == {"ticker", "tps", "room"}
Drains     == {"io", "dbResult", "result"}

VARIABLES
    run,     \* the groups whose flag is set
    pc,      \* of each thread: "top", "parking", "parked", "woken", "work", "gone"
    queue,   \* how many elements wait in each queue
    at,      \* how many groups main has joined
    step,    \* what it does to the next one: "flag", "notify" or "join"
    made,    \* number of elements pushed
    missed   \* history: a thread was waiting, or about to, and nobody woke it

stopVars == <<run, pc, queue, at, step, made, missed>>

All == UNION {{g} \X (1 .. Threads[g]) : g \in DOMAIN Threads}
In(g, states) == {t \in All : t[1] = g /\ pc[t] \in states}
Following == at + 1
Stopped   == {Groups[i] : i \in 1 .. at}

StopInit ==
    /\ run = DOMAIN Threads
    /\ pc = [t \in All |-> "top"]
    /\ queue = [q \in Queues |-> 0]
    /\ at = 0 /\ step = "flag"
    /\ made = 0 /\ missed = FALSE

Goes(t, to) == pc' = [pc EXCEPT ![t] = to]

-----------------------------------------------------------------------------
(* An element pushed to q under its lock, which a thread between the test   *)
(* of its wait and the wait holds; and one waiting thread is notified.      *)
Push(q, t) ==
    /\ made < MaxItems /\ made' = made + 1
    /\ In(q, {"parking"}) = {}
    /\ queue' = [queue EXCEPT ![q] = @ + 1]
    /\ \/ \E w \in In(q, {"parked"}) :
             pc' = [u \in All |-> IF u = w THEN "woken" ELSE IF u = t THEN "top" ELSE pc[u]]
       \/ In(q, {"parked"}) = {} /\ pc' = [u \in All |-> IF u = t THEN "top" ELSE pc[u]]

(* Clients cause completions as long as there is a port for them. *)
Complete ==
    /\ at = 0 /\ step # "join"
    /\ Push("io", <<>>)
    /\ UNCHANGED <<run, at, step, missed>>

(* The test of a thread's loop, and of its wait: a thread that was woken    *)
(* makes only the second one.                                               *)
Leave(t) ==
    /\ t[1] \notin run
    /\ pc[t] = "top" \/ (pc[t] = "woken" /\ (t[1] \notin Drains \/ queue[t[1]] = 0))
    /\ Goes(t, "gone")
    /\ UNCHANGED <<run, queue, at, step, made, missed>>

Take(t) ==
    /\ t[1] \in Queues /\ queue[t[1]] > 0
    /\ pc[t] \in {"top", "woken"}
    /\ t[1] \in run \/ (pc[t] = "woken" /\ t[1] \in Drains)
    /\ In(t[1], {"parking"}) = {}
    /\ queue' = [queue EXCEPT ![t[1]] = @ - 1]
    /\ Goes(t, "work")
    /\ UNCHANGED <<run, at, step, made, missed>>

(* The completion port takes a thread at once; a condition variable after   *)
(* the test, with the lock held meanwhile.                                  *)
Wait(t) ==
    /\ t[1] \in run \cap Queues /\ queue[t[1]] = 0
    /\ pc[t] \in {"top", "woken"}
    /\ In(t[1], {"parking"}) = {}
    /\ Goes(t, IF t[1] = "io" THEN "parked" ELSE "parking")
    /\ UNCHANGED <<run, queue, at, step, made, missed>>

Park(t) ==
    /\ pc[t] = "parking"
    /\ Goes(t, "parked")
    /\ UNCHANGED <<run, queue, at, step, made, missed>>

SpuriousWake(t) ==
    /\ pc[t] = "parked" /\ t[1] # "io"
    /\ Goes(t, "woken")
    /\ UNCHANGED <<run, queue, at, step, made, missed>>

(* The ticker and the TPS thread sleep between their rounds. *)
Round(t) ==
    /\ t[1] \in run \ Queues /\ pc[t] = "top"
    /\ Goes(t, "work")
    /\ UNCHANGED <<run, queue, at, step, made, missed>>

Work(t) ==
    /\ pc[t] = "work"
    /\ \/ Goes(t, "top") /\ UNCHANGED <<queue, made>>
       \/ \E q \in Feeds(t[1]) : Push(q, t)
    /\ UNCHANGED <<run, at, step, missed>>

-----------------------------------------------------------------------------
(* Main clears the flag.  The rooms' worker is not notified after that.     *)
Flag ==
    /\ step = "flag" /\ at < Len(Groups)
    /\ LET g == Groups[Following]
       IN  /\ run' = run \ {g}
           /\ step' = IF g \in Unnotified THEN "join" ELSE "notify"
           /\ missed' = (missed \/ (g = "room" /\ In(g, {"parking", "parked"}) # {}))
    /\ UNCHANGED <<pc, queue, at, made>>

(* Mutant: one thread is notified instead of all. *)
NotifyOne ==
    /\ step = "notify" /\ step' = "join"
    /\ LET g == Groups[Following]
       IN  /\ \/ \E w \in In(g, {"parked"}) : Goes(w, "woken")
              \/ In(g, {"parked"}) = {} /\ UNCHANGED pc
           /\ missed' = (missed \/ In(g, {"parking"}) # {})
           /\ queue' = IF g = "io" THEN [queue EXCEPT ![g] = 0] ELSE queue
    /\ UNCHANGED <<run, at, made>>

(* notify_all, or CloseHandle, which drops the completions not taken.  A    *)
(* thread that is about to wait is not notified.                            *)
NotifyAll ==
    /\ step = "notify" /\ step' = "join"
    /\ LET g == Groups[Following]
       IN  /\ pc' = [t \in All |-> IF t \in In(g, {"parked"}) THEN "woken" ELSE pc[t]]
           /\ missed' = (missed \/ In(g, {"parking"}) # {})
           /\ queue' = IF g = "io" THEN [queue EXCEPT ![g] = 0] ELSE queue
    /\ UNCHANGED <<run, at, made>>

(* All its threads joined; the queues of accept and packet are cleared.     *)
Join ==
    /\ step = "join"
    /\ LET g == Groups[Following]
       IN  /\ \A t \in All : t[1] = g => pc[t] = "gone"
           /\ queue' = IF g \in {"accept", "packet"} THEN [queue EXCEPT ![g] = 0]
                                                     ELSE queue
    /\ at' = Following /\ step' = "flag"
    /\ UNCHANGED <<run, pc, made, missed>>

-----------------------------------------------------------------------------
Thread(t) == Leave(t) \/ Take(t) \/ Wait(t) \/ Park(t) \/ Round(t) \/ Work(t)

StopNext == \/ Complete
        \/ \E t \in All : Thread(t) \/ SpuriousWake(t)
        \/ Flag \/ NotifyAll \/ Join

StopSpec == StopInit /\ [][StopNext]_stopVars

(* Threads run, and main goes on once it has been told to stop. *)
FairStopSpec ==
    /\ StopSpec
    /\ \A t \in All : WF_stopVars(Thread(t))
    /\ WF_stopVars(at > 0 /\ Flag) /\ WF_stopVars(NotifyAll) /\ WF_stopVars(Join)

-----------------------------------------------------------------------------
(* Once the threads of a group are joined nothing is pushed to its queue or *)
(* taken from it: everybody who pushes was joined before, so that clearing  *)
(* it without a lock is safe and nothing is pushed that nobody will read.   *)
QuietAfterJoin ==
    [][\A q \in Queues : q \in Stopped => queue'[q] = queue[q]]_stopVars

(* A server told to stop stops, unless main has missed a thread: it was     *)
(* about to wait when all were notified, or it is the rooms' worker, which  *)
(* nobody notifies.  Spurious wakeups are not counted on.                   *)
Stops == (run # DOMAIN Threads) ~> (at = Len(Groups) \/ missed)
=============================================================================
