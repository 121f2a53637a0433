----------------------------- MODULE Connections -----------------------------
(***************************************************************************)
(* The sockets of the client slots (IOCP/Iocp.cpp): the accepter thread    *)
(* posts accepts, the worker threads handle completions, and a slot whose  *)
(* connection broke is queued for the accepter.                            *)
(*                                                                         *)
(* A completion names its slot and not its socket, and every handler works *)
(* on the socket the slot has by then.  Windows is modelled by what the    *)
(* code sees of it: an operation completes, or fails once the peer has     *)
(* left or the socket was closed.  An accept completes on the listen       *)
(* socket, whose key is null: it fails when its client resets before it is *)
(* accepted, or when its socket is closed, and the worker that takes the   *)
(* failure ends the server.                                                *)
(*                                                                         *)
(* ClientCnt is left out: nothing reads it.  What is sent and received is  *)
(* in SendBuffer and SessionBuffer.                                        *)
(***************************************************************************)
EXTENDS Integers, Sequences, FiniteSets, Functions

CONSTANTS
    MaxClientCount,  \* number of slots
    MaxSockets,      \* bound: the sockets there ever are
    Workers,         \* MAX_WORKERTHREAD
    MaxRefused       \* bound: how many accepts cannot be posted

ASSUME CountAssumption == MaxClientCount \in Nat \ {0}
ASSUME SocketsAssumption == MaxSockets \in Nat
ASSUME WorkersAssumption == Workers \in Nat \ {0}
ASSUME RefusedAssumption == MaxRefused \in Nat

Sockets     == 1 .. MaxSockets  \* in the order they are made
None        == 0                \* INVALID_SOCKET
Slots       == 0 .. MaxClientCount - 1
Completions == {"accept", "recv", "recvBroken", "send", "sendBroken"}

VARIABLES
    sock,            \* of each socket: "unused", "posted", "open", "left", "closed",
                     \* or "aborted": closed while its accept is pending
    slotOf,          \* the slot a socket was posted for: its completion key
    recv,            \* how many receives are pending on a socket
    send,            \* sockets with a pending send
    done,            \* how many completions of a kind wait for a worker, per slot
    failed,          \* how many failed accepts wait for a worker
    rebinding,       \* how many workers are between OnRecv and BindRecv, per slot
    SocketClient,    \* the socket of a slot
    IsSending,       \* slots with a send under way
    EmptySocketQue,
    posted,          \* how many slots the accepter's first loop has posted
    down,            \* the server has crashed
    refused,         \* history: accepts that could not be posted
    missed,          \* history: sockets whose reset was reported by BindRecv
    unbound          \* history: how often BindRecv failed

ioVars   == <<recv, send, done, failed, rebinding>>
slotVars == <<SocketClient, IsSending, EmptySocketQue>>
counts   == <<posted, down, refused>>
vars     == <<sock, slotOf, ioVars, slotVars, counts, missed, unbound>>

Init ==
    /\ sock = [k \in Sockets |-> "unused"]
    /\ slotOf = [k \in Sockets |-> 0]
    /\ recv = [k \in Sockets |-> 0] /\ send = {}
    /\ done = [c \in Completions |-> [s \in Slots |-> 0]]
    /\ failed = 0 /\ rebinding = [s \in Slots |-> 0]
    /\ SocketClient = [s \in Slots |-> None]
    /\ IsSending = {}
    /\ EmptySocketQue = <<>>
    /\ posted = 0 /\ down = FALSE /\ refused = 0 /\ missed = {} /\ unbound = 0

Are(states) == {k \in Sockets : sock[k] \in states}

-----------------------------------------------------------------------------
(* PostAccept: a new socket, over whatever the slot had; or no socket, or one*)
(* without an accept, which is as good as none, and nobody tries again.     *)
PostAccept(s) ==
    \/ \E k \in Sockets :
          /\ k = 1 + Cardinality(Sockets \ Are({"unused"}))
          /\ sock' = [sock EXCEPT ![k] = "posted"]
          /\ slotOf' = [slotOf EXCEPT ![k] = s]
          /\ SocketClient' = [SocketClient EXCEPT ![s] = k]
          /\ UNCHANGED refused
    \/ /\ refused < MaxRefused /\ refused' = refused + 1
       /\ SocketClient' = [SocketClient EXCEPT ![s] = None]
       /\ UNCHANGED <<sock, slotOf>>

(* The first loop of AccepterThread: every slot once. *)
PostAll ==
    /\ posted < MaxClientCount
    /\ PostAccept(posted)
    /\ posted' = posted + 1
    /\ UNCHANGED <<ioVars, IsSending, EmptySocketQue, down, missed, unbound>>

(* Mutant: the slot from the queue is posted, as the code seems to mean.    *)
RepostNamed ==
    /\ posted = MaxClientCount /\ EmptySocketQue # <<>>
    /\ PostAccept(Head(EmptySocketQue))
    /\ EmptySocketQue' = Tail(EmptySocketQue)
    /\ UNCHANGED <<ioVars, IsSending, posted, down, missed, unbound>>

(* Its second loop.  The idx taken from the queue is a variable of its own  *)
(* in the block, and the one posted is always 0.                            *)
Repost ==
    /\ posted = MaxClientCount /\ EmptySocketQue # <<>>
    /\ PostAccept(0)
    /\ EmptySocketQue' = Tail(EmptySocketQue)
    /\ UNCHANGED <<ioVars, IsSending, posted, down, missed, unbound>>

-----------------------------------------------------------------------------
(* Windows and the clients. *)
Completes(c, s) == done' = [done EXCEPT ![c][s] = @ + 1]

Connect(k) ==
    /\ sock[k] = "posted"
    /\ sock' = [sock EXCEPT ![k] = "open"]
    /\ Completes("accept", slotOf[k])
    /\ UNCHANGED <<slotOf, recv, send, failed, rebinding, slotVars, counts, missed, unbound>>

(* The client is gone before it is accepted, or the socket for it is.  Such *)
(* a socket is never connected and as good as closed.                       *)
AcceptFails(k) ==
    /\ sock[k] \in {"posted", "aborted"}
    /\ sock' = [sock EXCEPT ![k] = "closed"]
    /\ failed' = failed + 1
    /\ UNCHANGED <<slotOf, recv, send, done, rebinding, slotVars, counts, missed, unbound>>

Leave(k) ==
    /\ sock[k] = "open"
    /\ sock' = [sock EXCEPT ![k] = "left"]
    /\ UNCHANGED <<slotOf, ioVars, slotVars, counts, missed, unbound>>

RecvEnds(k) ==
    /\ recv[k] > 0
    /\ recv' = [recv EXCEPT ![k] = @ - 1]
    /\ Completes(IF sock[k] = "open" THEN "recv" ELSE "recvBroken", slotOf[k])
    /\ UNCHANGED <<sock, slotOf, send, failed, rebinding, slotVars, counts, missed, unbound>>

SendEnds(k) ==
    /\ k \in send /\ send' = send \ {k}
    /\ \/ sock[k] # "closed" /\ Completes("send", slotOf[k])
       \/ sock[k] # "open" /\ Completes("sendBroken", slotOf[k])
    /\ UNCHANGED <<sock, slotOf, recv, failed, rebinding, slotVars, counts, missed, unbound>>

-----------------------------------------------------------------------------
(* SendDataOnBuf of any thread: IsSending is set, also when WSASend fails   *)
(* at once, which it does unless the slot's socket is connected.            *)
SendData(s) ==
    /\ s \notin IsSending
    /\ IsSending' = IsSending \cup {s}
    /\ \/ UNCHANGED send
       \/ /\ SocketClient[s] \in Are({"open", "left"})
          /\ send' = send \cup {SocketClient[s]}
    /\ UNCHANGED <<sock, slotOf, recv, done, failed, rebinding, SocketClient,
                   EmptySocketQue, counts, missed, unbound>>

(* Workers take completions when they are not all at work. *)
Takes(c, s) ==
    /\ done[c][s] > 0
    /\ done' = [done EXCEPT ![c][s] = @ - 1]

(* Mutant: the receive of a slot that is sending is not posted. *)
BindRecvIdle(s) ==
    LET k == SocketClient[s]
    IN  \/ /\ k \in Are({"open", "left"}) /\ s \notin IsSending
           /\ recv' = [recv EXCEPT ![k] = @ + 1]
           /\ UNCHANGED <<missed, unbound>>
        \/ /\ k \notin Are({"open"}) \/ s \in IsSending
           /\ missed' = missed \cup ({k} \cap Are({"left"}))
           /\ unbound' = unbound + 1
           /\ UNCHANGED recv

(* BindRecv on the slot's socket.  On one that is not connected it fails,   *)
(* and so it may once the peer has left: the error is printed, nobody is    *)
(* told, and there will be no completion.                                   *)
BindRecv(s) ==
    LET k == SocketClient[s]
    IN  \/ /\ k \in Are({"open", "left"})
           /\ recv' = [recv EXCEPT ![k] = @ + 1]
           /\ UNCHANGED <<missed, unbound>>
        \/ /\ k \notin Are({"open"})
           /\ missed' = missed \cup ({k} \cap Are({"left"}))
           /\ unbound' = unbound + 1
           /\ UNCHANGED recv

(* An ACCEPT completion.  It names the slot, which has another socket by    *)
(* now if the slot was posted again.                                        *)
Accepted(s) ==
    /\ Takes("accept", s)
    /\ BindRecv(s)
    /\ UNCHANGED <<sock, slotOf, send, failed, rebinding, slotVars, counts>>

(* OnRecv takes its time: the workers in it take nothing else. *)
FreeWorker == FoldFunction(+, 0, rebinding) < Workers

(* A RECV completion: OnRecv, and then BindRecv. *)
Received(s) ==
    /\ Takes("recv", s)
    /\ FreeWorker
    /\ rebinding' = [rebinding EXCEPT ![s] = @ + 1]
    /\ UNCHANGED <<sock, slotOf, recv, send, failed, slotVars, counts, missed, unbound>>

Rebind(s) ==
    /\ rebinding[s] > 0
    /\ rebinding' = [rebinding EXCEPT ![s] = @ - 1]
    /\ BindRecv(s)
    /\ UNCHANGED <<sock, slotOf, send, done, failed, slotVars, counts>>

(* A SEND completion.  Bytes that wait are another SendData. *)
OnSendComplete(s) ==
    /\ Takes("send", s)
    /\ IsSending' = IsSending \ {s}
    /\ UNCHANGED <<sock, slotOf, recv, send, failed, rebinding, SocketClient,
                   EmptySocketQue, counts, missed, unbound>>

(* What closing does to a socket; an accept pending on it will fail. *)
Closed(state) == IF state \in {"posted", "aborted"} THEN "aborted" ELSE "closed"

(* Mutant: a slot is not queued as long as a send of it is under way.       *)
CloseSocketIdle(s) ==
    /\ SocketClient' = [SocketClient EXCEPT ![s] = None]
    /\ sock' = [k \in Sockets |-> IF k = SocketClient[s] THEN Closed(sock[k]) ELSE sock[k]]
    /\ EmptySocketQue' = IF s \in IsSending
                         THEN EmptySocketQue ELSE Append(EmptySocketQue, s)

(* IocpServer::CloseSocket: the socket the slot has now, if any, and the    *)
(* slot is queued.                                                          *)
CloseSocket(s) ==
    /\ SocketClient' = [SocketClient EXCEPT ![s] = None]
    /\ sock' = [k \in Sockets |-> IF k = SocketClient[s] THEN Closed(sock[k]) ELSE sock[k]]
    /\ EmptySocketQue' = Append(EmptySocketQue, s)

(* A completion with an error, or a receive of 0 bytes. *)
Broken(s) ==
    /\ Takes("recvBroken", s) \/ Takes("sendBroken", s)
    /\ CloseSocket(s)
    /\ UNCHANGED <<slotOf, recv, send, failed, rebinding, IsSending, counts, missed, unbound>>

(* The completion of a failed accept: CloseSocket is called with its null   *)
(* key.  The process is gone, its sockets are closed and nothing is pending.*)
AcceptBroken ==
    /\ failed > 0
    /\ down' = TRUE
    /\ sock' = [k \in Sockets |-> IF sock[k] = "unused" THEN "unused" ELSE "closed"]
    /\ recv' = [k \in Sockets |-> 0] /\ send' = {}
    /\ done' = [c \in Completions |-> [s \in Slots |-> 0]]
    /\ failed' = 0 /\ rebinding' = [s \in Slots |-> 0]
    /\ UNCHANGED <<slotOf, slotVars, posted, refused, missed, unbound>>

-----------------------------------------------------------------------------
Windows(k) == Connect(k) \/ AcceptFails(k) \/ Leave(k) \/ RecvEnds(k) \/ SendEnds(k)
Worker(s)  == Accepted(s) \/ Received(s) \/ Rebind(s) \/ OnSendComplete(s) \/ Broken(s)

Next == /\ ~down
        /\ \/ PostAll \/ Repost \/ AcceptBroken
           \/ \E k \in Sockets : Windows(k)
           \/ \E s \in Slots : SendData(s) \/ Worker(s)

Spec == Init /\ [][Next]_vars

(* Workers handle what has completed in the order it came to the port, so a *)
(* free worker does not pass over a completion for ever (strong fairness of *)
(* the one action that waits for a free worker), and a receive on a         *)
(* connection whose peer has left completes.                                *)
FairSpec ==
    /\ Spec
    /\ \A s \in Slots : WF_vars(Accepted(s)) /\ SF_vars(Received(s))
                        /\ WF_vars(Rebind(s)) /\ WF_vars(Broken(s))
    /\ \A k \in Sockets : WF_vars(RecvEnds(k))

-----------------------------------------------------------------------------
(* One for each of what f counts under the name c. *)
Each(c, f) == UNION {{<<c, x, i>> : i \in 1 .. f[x]} : x \in DOMAIN f}

(* The receives under way: each goes from the completion of an accept to    *)
(* BindRecv, completes, goes through OnRecv to BindRecv again, and at last  *)
(* queues the slot.                                                         *)
Receives ==
    Each("pending", recv) \cup Each("rebinding", rebinding)
        \cup Each("accept", done["accept"]) \cup Each("recv", done["recv"])
        \cup Each("recvBroken", done["recvBroken"])

(* No accept is lost: for each slot that was posted there is, until the     *)
(* server crashes, a pending accept, a failed one that waits for a worker,  *)
(* a receive under way that will queue the slot, or an entry in the queue.  *)
(* Slots closed twice, posted over a client or an accept, or closed for     *)
(* another connection's error cost none; what does is counted off: accepts  *)
(* that were not posted, and receives that BindRecv could not bind, because *)
(* the client was reset or because slot 0 was posted again over a client.   *)
SlotsAccounted ==
    ~down => Cardinality(Are({"posted", "aborted"})) + failed + Cardinality(Receives)
                 + Len(EmptySocketQue) >= posted - refused - unbound

(* A client of any slot but 0 is the one its slot serves, and exactly one   *)
(* receive of it is pending, completed, or being handled: its bytes are     *)
(* taken one chunk at a time and its end will be seen.                      *)
OthersServed ==
    \A k \in Are({"open", "left"}) \ missed :
        LET s == slotOf[k]
        IN  s # 0 => /\ SocketClient[s] = k
                     /\ recv[k] + rebinding[s] + done["accept"][s]
                          + done["recv"][s] + done["recvBroken"][s] = 1

(* The server never closes the connection of a client that has not left, in *)
(* any slot but 0, though it closes broken ones twice: as long as no failed *)
(* accept ends the server, which cuts them all.                             *)
LiveNotCut ==
    [][~down' => \A k \in Sockets :
                     slotOf[k] # 0 /\ sock[k] = "open" => sock'[k] # "closed"]_vars

(* A client of any slot but 0 that leaves is closed at last (by the server  *)
(* or with it), unless it was reset between two of its receives and BindRecv*)
(* was told.                                                                *)
LeftClosed ==
    \A k \in Sockets :
        (sock[k] = "left" /\ slotOf[k] # 0) ~> (sock[k] = "closed" \/ k \in missed)
=============================================================================
