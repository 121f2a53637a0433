----------------------------- MODULE SendBuffer -----------------------------
(***************************************************************************)
(* The send side of one client slot (IOCP/ClientInfos.h): the send buffer, *)
(* the copy handed to WSASend, and IsSending, which allows one overlapped  *)
(* send at a time.  Any thread may send to a slot, also while the slot has *)
(* no connection: rooms do not forget a user that disconnected.            *)
(*                                                                         *)
(* A byte is its serial number in the order SetSendData took it; 0 is a    *)
(* byte of memory nobody wrote.  Both public functions hold IsSendBufLock  *)
(* throughout, so each is one step.  The socket and its overlapped         *)
(* operations belong to Windows and are modelled by what the code sees.    *)
(***************************************************************************)
EXTENDS Naturals, Sequences

CONSTANTS
    BufSize,    \* sizeof(SendBuf)
    Sizes,      \* the DataSize of the messages
    MaxBytes,   \* bound: how many bytes SetSendData ever takes
    MaxConns    \* bound: how many connections the slot ever has

ASSUME BufSizeAssumption == BufSize \in Nat \ {0}
ASSUME SizesAssumption == Sizes \subseteq Nat \ {0}
ASSUME BoundsAssumption == MaxBytes \in Nat /\ MaxConns \in Nat

Cells == 0 .. BufSize - 1
Bytes == 0 .. MaxBytes

VARIABLES
    SendBuf, SendHead, SendTail,  \* bytes [SendHead, SendTail) wait
    IsSending,
    SendingBuf,                   \* the buffer WSASend reads
    SocketClient,                 \* "invalid", "accepting" or "connected"
    op,        \* the overlapped send Windows has: its length and connection
    sent,      \* its completions in the queue, if it succeeded
    aborted,   \* and if it failed
    recvs,     \* WSARecv operations whose completion was not handled
    conn,      \* history: how many connections the slot has had
    taken,     \* history: how many bytes SetSendData has taken
    base,      \* history: taken, when this connection began
    wire,      \* history: the bytes transmitted on this connection
    healthy,   \* history: this connection began clean and had no error
    failed     \* history: WSASend failed on this connection

bufVars  == <<SendBuf, SendHead, SendTail, IsSending, SendingBuf>>
histVars == <<conn, base, wire>>
vars == <<bufVars, SocketClient, op, sent, aborted, recvs, histVars, taken,
          healthy, failed>>

NoOp == [len |-> 0, conn |-> 0]

Init ==
    /\ SendBuf = [i \in Cells |-> 0]
    /\ SendHead = 0 /\ SendTail = 0
    /\ IsSending = FALSE
    /\ SendingBuf = [i \in Cells |-> 0]
    /\ SocketClient = "invalid"
    /\ op = NoOp /\ sent = 0 /\ aborted = 0
    /\ recvs = 0
    /\ conn = 0 /\ taken = 0 /\ base = 0 /\ wire = <<>>
    /\ healthy = FALSE
    /\ failed = FALSE

-----------------------------------------------------------------------------
(* n bytes of src from index i on, copied to the start of dst. *)
CopyDown(dst, src, i, n) ==
    [k \in Cells |-> IF k < n THEN src[i + k] ELSE dst[k]]

(* WSASend(SocketClient, SendingBuf, len): pending, or an immediate error.  *)
(* The error is printed; SendHead stays at 0 and IsSending stays set.       *)
WSASend(len) ==
    \/ /\ SocketClient = "connected"
       /\ op' = [len |-> len, conn |-> conn]
       /\ SendHead' = len
       /\ UNCHANGED <<healthy, failed>>
    \/ /\ SendHead' = 0
       /\ healthy' = FALSE
       /\ failed' = (SocketClient = "connected")
       /\ UNCHANGED op

(* Mutant: IsSending is not looked at. *)
SendAlways(buf, head, tail, sending) ==
    /\ SendBuf' = buf
    /\ \/ /\ head = tail
          /\ SendHead' = head /\ SendTail' = tail /\ IsSending' = sending
          /\ UNCHANGED <<SendingBuf, op, healthy, failed>>
       \/ /\ head # tail
          /\ IsSending' = TRUE
          /\ SendingBuf' = CopyDown(SendingBuf, buf, head, tail - head)
          /\ SendTail' = tail - head
          /\ WSASend(tail - head)

(* SendDataOnBuf, called with the lock held on these values. *)
SendDataOnBuf(buf, head, tail, sending) ==
    /\ SendBuf' = buf
    /\ \/ /\ sending \/ head = tail
          /\ SendHead' = head /\ SendTail' = tail /\ IsSending' = sending
          /\ UNCHANGED <<SendingBuf, op, healthy, failed>>
       \/ /\ ~sending /\ head # tail
          /\ IsSending' = TRUE
          /\ SendingBuf' = CopyDown(SendingBuf, buf, head, tail - head)
          /\ SendTail' = tail - head
          /\ WSASend(tail - head)

(* The bytes taken + 1, ..., taken + size written at tail. *)
Write(buf, tail, size) ==
    [k \in Cells |-> IF k \in tail .. tail + size - 1
                     THEN taken + 1 + (k - tail) ELSE buf[k]]

(* Mutant: the waiting bytes are not moved, only the indices. *)
SetSendDataUnmoved(size) ==
    /\ conn > 0 /\ taken + size <= MaxBytes
    /\ SendTail - SendHead + size <= BufSize
    /\ LET full == SendTail + size > BufSize
           tail == IF full THEN SendTail - SendHead ELSE SendTail
           head == IF full THEN 0 ELSE SendHead
       IN  SendDataOnBuf(Write(SendBuf, tail, size), head, tail + size, IsSending)
    /\ taken' = taken + size
    /\ UNCHANGED <<SocketClient, sent, aborted, recvs, histVars>>

(* SetSendData, for a slot that has had a client.  A message that does not  *)
(* fit is dropped and counted.  The waiting bytes move to the front when    *)
(* it fits, but not behind them.  (The ranges may overlap; the runtime's    *)
(* memcpy, to which CopyMemory expands, copies them as memmove does.)       *)
SetSendData(size) ==
    /\ conn > 0 /\ taken + size <= MaxBytes
    /\ SendTail - SendHead + size <= BufSize
    /\ LET full == SendTail + size > BufSize
           len  == SendTail - SendHead
           buf  == IF full THEN CopyDown(SendBuf, SendBuf, SendHead, len) ELSE SendBuf
           tail == IF full THEN len ELSE SendTail
           head == IF full THEN 0 ELSE SendHead
       IN  SendDataOnBuf(Write(buf, tail, size), head, tail + size, IsSending)
    /\ taken' = taken + size
    /\ UNCHANGED <<SocketClient, sent, aborted, recvs, histVars>>

(* Mutants: the completion sends nothing, or clears IsSending too late. *)
OnSendCompleteOnly ==
    /\ sent > 0
    /\ sent' = sent - 1
    /\ IsSending' = FALSE
    /\ UNCHANGED <<SendBuf, SendHead, SendTail, SendingBuf, SocketClient, op,
                   aborted, recvs, histVars, taken, healthy, failed>>

OnSendCompleteLate ==
    /\ sent > 0
    /\ sent' = sent - 1
    /\ IsSending' = (SendHead # SendTail)
    /\ UNCHANGED <<SendBuf, SendHead, SendTail, SendingBuf, SocketClient, op,
                   aborted, recvs, histVars, taken, healthy, failed>>

(* A worker takes the successful completion of the send: OnSendComplete. *)
OnSendComplete ==
    /\ sent > 0
    /\ sent' = sent - 1
    /\ SendDataOnBuf(SendBuf, SendHead, SendTail, FALSE)
    /\ UNCHANGED <<SocketClient, aborted, recvs, histVars, taken>>

(* ClientInfo::CloseSocket: of the socket only. *)
CloseSocket ==
    /\ SocketClient' = "invalid"
    /\ healthy' = FALSE
    /\ UNCHANGED <<bufVars, op, histVars, taken, failed>>

(* A worker takes the failed completion of a send ... *)
SendAborted ==
    /\ aborted > 0
    /\ aborted' = aborted - 1
    /\ CloseSocket
    /\ UNCHANGED <<sent, recvs>>

(* ... or the failed or empty completion of a receive. *)
RecvClosed ==
    /\ recvs > 0
    /\ recvs' = recvs - 1
    /\ CloseSocket
    /\ UNCHANGED <<sent, aborted>>

(* The accepter thread puts a new socket in the slot, whatever it held: the *)
(* index it takes from EmptySocketQue is not the slot it posts to.          *)
PostAccept ==
    /\ conn < MaxConns
    /\ SocketClient' = "accepting"
    /\ healthy' = FALSE
    /\ UNCHANGED <<bufVars, op, sent, aborted, recvs, histVars, taken, failed>>

(* A client connects: the ACCEPT completion, which posts the first receive. *)
Accepted ==
    /\ SocketClient = "accepting"
    /\ conn < MaxConns
    /\ SocketClient' = "connected"
    /\ conn' = conn + 1
    /\ recvs' = recvs + 1
    /\ base' = taken
    /\ wire' = <<>>
    /\ healthy' = (~IsSending /\ SendHead = SendTail)
    /\ failed' = FALSE
    /\ UNCHANGED <<bufVars, op, sent, aborted, taken>>

(* Windows transmits SendingBuf, and queues the completion ... *)
Transmit ==
    /\ op.len > 0
    /\ wire' = IF op.conn = conn
               THEN wire \o [k \in 1 .. op.len |-> SendingBuf[k - 1]]
               ELSE wire
    /\ op' = NoOp
    /\ sent' = sent + 1
    /\ UNCHANGED <<bufVars, SocketClient, aborted, recvs, conn, base, taken,
                   healthy, failed>>

(* ... or the connection breaks while it does. *)
Abort ==
    /\ op.len > 0
    /\ op' = NoOp
    /\ aborted' = aborted + 1
    /\ healthy' = (healthy /\ op.conn # conn)
    /\ UNCHANGED <<bufVars, SocketClient, sent, recvs, histVars, taken, failed>>

-----------------------------------------------------------------------------
Next == \/ \E size \in Sizes : SetSendData(size)
        \/ OnSendComplete
        \/ SendAborted
        \/ RecvClosed
        \/ PostAccept
        \/ Accepted
        \/ Transmit
        \/ Abort

Spec == Init /\ [][Next]_vars

(* Windows completes an overlapped send one way or the other, and the       *)
(* workers take what completes.                                             *)
FairSpec == /\ Spec
            /\ WF_vars(Transmit \/ Abort)
            /\ WF_vars(OnSendComplete)
            /\ WF_vars(SendAborted)

-----------------------------------------------------------------------------
TypeOK ==
    /\ SendBuf \in [Cells -> Bytes] /\ SendingBuf \in [Cells -> Bytes]
    /\ SendHead \in 0 .. SendTail /\ SendTail \in 0 .. BufSize
    /\ IsSending \in BOOLEAN
    /\ SocketClient \in {"invalid", "accepting", "connected"}
    /\ op \in [len : 0 .. BufSize, conn : 0 .. MaxConns]
    /\ sent \in Nat /\ aborted \in Nat /\ recvs \in Nat
    /\ conn \in 0 .. MaxConns /\ taken \in Bytes /\ base \in Bytes
    /\ wire \in Seq(Bytes)
    /\ healthy \in BOOLEAN /\ failed \in BOOLEAN

(* The bytes that wait, and the bytes WSASend was given on this connection. *)
Waiting   == [k \in 1 .. SendTail - SendHead |-> SendBuf[SendHead + k - 1]]
InFlight  == IF op.len > 0 /\ op.conn = conn
             THEN [k \in 1 .. op.len |-> SendingBuf[k - 1]]
             ELSE <<>>

(* A connection that began on a clean slot and had no error transmits what  *)
(* was sent to it, every byte once and in order, through every move inside  *)
(* SendBuf and every copy to SendingBuf.                                    *)
StreamIntegrity ==
    healthy => wire \o InFlight \o Waiting = [k \in 1 .. taken - base |-> base + k]

(* As long as a connection is healthy, its slot is a channel that keeps     *)
(* every byte and their order: what Windows holds and what waits are the    *)
(* bytes that were sent and not transmitted, through every copy and move.   *)
Channel == INSTANCE ByteStream WITH
               open    <- healthy,
               pending <- IF healthy THEN InFlight \o Waiting ELSE <<>>,
               wire    <- IF healthy THEN wire ELSE <<>>
ChannelSpec == Channel!Spec

(* Bytes wait only while IsSending is set: the completion it stands for     *)
(* sends them, and no other call would until the next message.  After a     *)
(* WSASend that failed at once it stands for none, and they stay there, as  *)
(* IsSendingMeansSending shows.                                             *)
IdleMeansDrained == IsSending \/ SendHead = SendTail

(* Windows reads SendingBuf until the operation completes: nobody writes it *)
(* meanwhile, whatever connections come and go.                             *)
SendingBufStable ==
    [][op.len > 0 => SendingBuf' = SendingBuf]_vars

(* Every byte taken on a healthy connection is transmitted. *)
Delivered == \A n \in 1 .. MaxBytes :
    healthy /\ taken >= n ~> base + Len(wire) >= n \/ ~healthy

(* IsSending says that a send is under way (ClientInfos.h:54): on a         *)
(* connection whose own sends had no error, at least.                       *)
IsSendingMeansSending ==
    SocketClient = "connected" /\ ~failed /\ IsSending
        => op.len > 0 \/ sent > 0 \/ aborted > 0
=============================================================================
