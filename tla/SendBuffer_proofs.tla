-------------------------- MODULE SendBuffer_proofs --------------------------
(***************************************************************************)
(* Proofs about SendBuffer, for any buffer, any message sizes and any      *)
(* number of connections; and, at the end, about the other half of         *)
(* IOCP/Iocp.cpp, the stopping of the server's threads (Shutdown).         *)
(***************************************************************************)
EXTENDS SendBuffer, Shutdown, SequenceTheorems, TLAPS

(* IsSending covers a send from WSASend to the end of its completion, and   *)
(* there is one at a time: under way, or completed and in the queue.        *)
OneSend == /\ op.len > 0 => IsSending /\ sent = 0
           /\ sent > 0 => IsSending /\ sent = 1

Inv == TypeOK /\ OneSend /\ IdleMeansDrained

USE BufSizeAssumption, SizesAssumption, BoundsAssumption

(* The initial states satisfy the invariant. *)
LEMMA InitInv == Init => Inv
BY DEF Init, Inv, TypeOK, OneSend, IdleMeansDrained, NoOp, Cells, Bytes

(* What CopyDown reads it takes from its arguments. *)
LEMMA CopyDownType ==
    ASSUME NEW dst \in [Cells -> Bytes], NEW src \in [Cells -> Bytes],
           NEW i \in 0 .. BufSize, NEW n \in 0 .. BufSize - i
    PROVE  CopyDown(dst, src, i, n) \in [Cells -> Bytes]
<1> SUFFICES ASSUME NEW k \in Cells
             PROVE  (IF k < n THEN src[i + k] ELSE dst[k]) \in Bytes
    BY DEF CopyDown
<1>1. k < n => i + k \in Cells
    BY DEF Cells
<1> QED
    BY <1>1

(* A message is written with the numbers that follow those taken. *)
LEMMA WriteType ==
    ASSUME NEW buf \in [Cells -> Bytes], NEW tail \in 0 .. BufSize,
           NEW size \in Nat, taken \in Nat, taken + size <= MaxBytes
    PROVE  Write(buf, tail, size) \in [Cells -> Bytes]
<1> SUFFICES ASSUME NEW k \in Cells
             PROVE  (IF k \in tail .. tail + size - 1
                     THEN taken + 1 + (k - tail) ELSE buf[k]) \in Bytes
    BY DEF Write
<1>1. k \in tail .. tail + size - 1 => taken + 1 + (k - tail) \in Bytes
    BY DEF Bytes, Cells
<1> QED
    BY <1>1

(* SendDataOnBuf on a buffer of the right type.  It calls WSASend only when *)
(* it is told that no send is under way.                                    *)
LEMMA SendDataOnBufStep ==
    ASSUME NEW buf \in [Cells -> Bytes], NEW tail \in 0 .. BufSize,
           NEW head \in 0 .. tail, NEW sending \in BOOLEAN,
           TypeOK, SendDataOnBuf(buf, head, tail, sending)
    PROVE  /\ SendBuf' \in [Cells -> Bytes] /\ SendingBuf' \in [Cells -> Bytes]
           /\ SendTail' \in 0 .. BufSize /\ SendHead' \in 0 .. SendTail'
           /\ IsSending' \in BOOLEAN
           /\ op' \in [len : 0 .. BufSize, conn : 0 .. MaxConns]
           /\ healthy' \in BOOLEAN /\ failed' \in BOOLEAN
           /\ sending => IsSending' /\ UNCHANGED <<SendingBuf, op>>
           /\ op' # op => IsSending'
           /\ IsSending' \/ SendHead' = SendTail'
<1>1. CASE sending \/ head = tail
    BY <1>1 DEF SendDataOnBuf, TypeOK
<1>2. CASE ~sending /\ head # tail
  <2>1. /\ SendBuf' = buf /\ IsSending' = TRUE
        /\ SendingBuf' = CopyDown(SendingBuf, buf, head, tail - head)
        /\ SendTail' = tail - head
        /\ WSASend(tail - head)
      BY <1>2 DEF SendDataOnBuf
  <2>2. SendingBuf' \in [Cells -> Bytes]
    <3>1. tail - head \in 0 .. BufSize - head /\ head \in 0 .. BufSize
        OBVIOUS
    <3> QED
        BY <2>1, <3>1, CopyDownType DEF TypeOK
  <2>3. /\ SendHead' \in 0 .. SendTail'
        /\ op' \in [len : 0 .. BufSize, conn : 0 .. MaxConns]
        /\ healthy' \in BOOLEAN /\ failed' \in BOOLEAN
    <3>1. tail - head \in 0 .. BufSize
        OBVIOUS
    <3>2. CASE /\ op' = [len |-> tail - head, conn |-> conn]
               /\ SendHead' = tail - head
               /\ UNCHANGED <<healthy, failed>>
        BY <2>1, <3>1, <3>2 DEF TypeOK
    <3>3. CASE /\ SendHead' = 0 /\ healthy' = FALSE
               /\ failed' = (SocketClient = "connected")
               /\ UNCHANGED op
      <4>1. failed' \in BOOLEAN
          BY <3>3, Zenon
      <4>2. healthy' \in BOOLEAN
          BY <3>3
      <4>3. SendHead' \in 0 .. SendTail'
          BY <2>1, <3>1, <3>3
      <4> QED
          BY <3>3, <4>1, <4>2, <4>3 DEF TypeOK
    <3> QED
        BY <2>1, <3>2, <3>3 DEF WSASend
  <2> QED
      BY <1>2, <2>1, <2>2, <2>3
<1> QED
    BY <1>1, <1>2

(* SetSendData hands SendDataOnBuf a buffer of the right type. *)
LEMMA SetSendDataCalls ==
    ASSUME TypeOK, NEW size \in Sizes, SetSendData(size)
    PROVE  \E buf \in [Cells -> Bytes], tail \in 0 .. BufSize :
               \E head \in 0 .. tail : SendDataOnBuf(buf, head, tail, IsSending)
<1> DEFINE full == SendTail + size > BufSize
           len  == SendTail - SendHead
           buf  == IF full THEN CopyDown(SendBuf, SendBuf, SendHead, len)
                           ELSE SendBuf
           tail == IF full THEN len ELSE SendTail
           head == IF full THEN 0 ELSE SendHead
<1>1. size \in Nat /\ taken + size <= MaxBytes /\ len + size <= BufSize
    BY DEF SetSendData
<1>2. buf \in [Cells -> Bytes]
  <2>1. SendHead \in 0 .. BufSize /\ len \in 0 .. BufSize - SendHead
      BY DEF TypeOK
  <2> QED
      BY <2>1, CopyDownType DEF TypeOK
<1>3. tail \in 0 .. BufSize /\ tail + size \in 0 .. BufSize /\ head \in 0 .. tail + size
    BY <1>1 DEF TypeOK
<1>4. Write(buf, tail, size) \in [Cells -> Bytes]
  <2>1. taken \in Nat
      BY DEF TypeOK, Bytes
  <2> HIDE DEF buf, tail
  <2> QED
      BY <1>1, <1>2, <1>3, <2>1, WriteType
<1>5. SendDataOnBuf(Write(buf, tail, size), head, tail + size, IsSending)
    BY DEF SetSendData
<1> HIDE DEF buf, tail, head
<1> QED
    BY <1>3, <1>4, <1>5

-----------------------------------------------------------------------------
(* Every step keeps the invariant, and leaves SendingBuf alone while a send *)
(* is under way.                                                            *)
LEMMA Step ==
    Inv /\ [Next]_vars => Inv' /\ (op.len > 0 => SendingBuf' = SendingBuf)
<1> SUFFICES ASSUME Inv, [Next]_vars
             PROVE  Inv' /\ (op.len > 0 => SendingBuf' = SendingBuf)
    OBVIOUS
<1> USE DEF Inv
<1>1. ASSUME NEW size \in Sizes, SetSendData(size)
      PROVE  Inv' /\ (op.len > 0 => SendingBuf' = SendingBuf)
  <2>1. PICK buf \in [Cells -> Bytes], tail \in 0 .. BufSize :
            \E head \in 0 .. tail : SendDataOnBuf(buf, head, tail, IsSending)
      BY <1>1, SetSendDataCalls
  <2>2. PICK head \in 0 .. tail : SendDataOnBuf(buf, head, tail, IsSending)
      BY <2>1
  <2>3. /\ SendBuf' \in [Cells -> Bytes] /\ SendingBuf' \in [Cells -> Bytes]
        /\ SendTail' \in 0 .. BufSize /\ SendHead' \in 0 .. SendTail'
        /\ IsSending' \in BOOLEAN
        /\ op' \in [len : 0 .. BufSize, conn : 0 .. MaxConns]
        /\ healthy' \in BOOLEAN /\ failed' \in BOOLEAN
        /\ IsSending => IsSending' /\ UNCHANGED <<SendingBuf, op>>
        /\ op' # op => IsSending'
        /\ IsSending' \/ SendHead' = SendTail'
    <3>1. IsSending \in BOOLEAN
        BY DEF TypeOK
    <3> QED
        BY <2>2, <3>1, SendDataOnBufStep
  <2>4. TypeOK'
      BY <1>1, <2>3 DEF SetSendData, TypeOK, histVars, Bytes
  <2>5. OneSend'
      BY <1>1, <2>3 DEF SetSendData, OneSend, TypeOK
  <2> QED
      BY <2>3, <2>4, <2>5 DEF IdleMeansDrained, OneSend
<1>2. CASE OnSendComplete
  <2>1. op.len = 0 /\ sent' = 0
      BY <1>2 DEF OnSendComplete, OneSend, TypeOK
  <2>2. /\ SendBuf' \in [Cells -> Bytes] /\ SendingBuf' \in [Cells -> Bytes]
        /\ SendTail' \in 0 .. BufSize /\ SendHead' \in 0 .. SendTail'
        /\ IsSending' \in BOOLEAN
        /\ op' \in [len : 0 .. BufSize, conn : 0 .. MaxConns]
        /\ healthy' \in BOOLEAN /\ failed' \in BOOLEAN
        /\ op' # op => IsSending'
        /\ IsSending' \/ SendHead' = SendTail'
    <3>1. /\ SendBuf \in [Cells -> Bytes] /\ SendTail \in 0 .. BufSize
          /\ SendHead \in 0 .. SendTail
        BY DEF TypeOK
    <3>2. SendDataOnBuf(SendBuf, SendHead, SendTail, FALSE)
        BY <1>2 DEF OnSendComplete
    <3> QED
        BY <3>1, <3>2, SendDataOnBufStep
  <2>3. TypeOK'
      BY <1>2, <2>1, <2>2 DEF OnSendComplete, TypeOK, histVars
  <2> QED
      BY <2>1, <2>2, <2>3 DEF OneSend, IdleMeansDrained
<1>3. CASE SendAborted \/ RecvClosed
  <2>1. CloseSocket /\ sent' = sent /\ aborted' \in Nat /\ recvs' \in Nat
      BY <1>3 DEF SendAborted, RecvClosed, TypeOK
  <2> QED
      BY <2>1 DEF CloseSocket, bufVars, histVars, TypeOK, OneSend, IdleMeansDrained
<1>4. CASE PostAccept
    BY <1>4 DEF PostAccept, bufVars, histVars, TypeOK, OneSend, IdleMeansDrained
<1>5. CASE Accepted
  <2>1. healthy' \in BOOLEAN
      BY <1>5, Zenon DEF Accepted
  <2>2. conn' \in 0 .. MaxConns /\ base' \in Bytes /\ wire' \in Seq(Bytes)
      BY <1>5 DEF Accepted, TypeOK
  <2>3. /\ SocketClient' = "connected" /\ recvs' \in Nat /\ failed' = FALSE
        /\ UNCHANGED <<bufVars, op, sent, aborted, taken>>
      BY <1>5 DEF Accepted, TypeOK
  <2> QED
      BY <2>1, <2>2, <2>3 DEF bufVars, TypeOK, OneSend, IdleMeansDrained
<1>6. CASE Transmit
  <2>1. wire' \in Seq(Bytes)
    <3> DEFINE bytes == [k \in 1 .. op.len |-> SendingBuf[k - 1]]
    <3>1. \A k \in 1 .. op.len : SendingBuf[k - 1] \in Bytes
        BY DEF TypeOK, Cells
    <3>2. op.len \in Nat
        BY DEF TypeOK
    <3>3. bytes \in Seq(Bytes)
        BY <3>1, <3>2
    <3>4. wire \in Seq(Bytes)
        BY DEF TypeOK
    <3> HIDE DEF bytes
    <3>5. wire \o bytes \in Seq(Bytes)
        BY <3>3, <3>4, ConcatProperties
    <3> QED
        BY <1>6, <3>4, <3>5 DEF Transmit, bytes
  <2>2. op' \in [len : 0 .. BufSize, conn : 0 .. MaxConns] /\ op'.len = 0
      BY <1>6 DEF Transmit, NoOp
  <2>3. TypeOK'
      BY <1>6, <2>1, <2>2 DEF Transmit, bufVars, TypeOK
  <2> QED
      BY <1>6, <2>2, <2>3 DEF Transmit, bufVars, OneSend, IdleMeansDrained, TypeOK
<1>7. CASE Abort
    BY <1>7 DEF Abort, NoOp, bufVars, histVars, TypeOK, OneSend, IdleMeansDrained
<1>8. CASE UNCHANGED vars
    BY <1>8 DEF vars, bufVars, histVars, TypeOK, OneSend, IdleMeansDrained
<1> QED
    BY <1>1, <1>2, <1>3, <1>4, <1>5, <1>6, <1>7, <1>8 DEF Next

-----------------------------------------------------------------------------
(* The invariant holds in every reachable state. *)
THEOREM Invariance == Spec => []Inv
<1>1. Inv /\ [Next]_vars => Inv'
    BY Step
<1> QED
    BY InitInv, <1>1, PTL DEF Spec

(* Type correctness: among the rest, SendHead and SendTail stay in the      *)
(* buffer, in that order.                                                   *)
THEOREM TypeCorrect == Spec => []TypeOK
<1>1. Inv => TypeOK
    BY DEF Inv
<1> QED
    BY Invariance, <1>1, PTL

(* Bytes wait only while IsSending promises a completion that sends them,   *)
(* also on a slot that was closed and reused.                               *)
THEOREM NothingWaitsUnsent == Spec => []IdleMeansDrained
<1>1. Inv => IdleMeansDrained
    BY DEF Inv
<1> QED
    BY Invariance, <1>1, PTL

(* No thread writes SendingBuf while Windows may read it. *)
THEOREM BufferStable == Spec => SendingBufStable
<1>1. Inv /\ [Next]_vars => [op.len > 0 => SendingBuf' = SendingBuf]_vars
    BY Step
<1> QED
    BY Invariance, <1>1, PTL DEF Spec, SendingBufStable

-----------------------------------------------------------------------------
(* The stream of a healthy connection, byte by byte.  The bytes of buf from *)
(* head to tail are the last that were taken, when t were; those Windows    *)
(* has are of this connection, and follow those on the wire.                *)
Numbered(buf, head, tail, t) == \A k \in head .. tail - 1 : buf[k] = t + 1 + k - tail

Ordered(buf, head, tail, t) ==
    healthy =>
        /\ op.len > 0 => op.conn = conn
        /\ Len(wire) + op.len + (tail - head) = t - base
        /\ \A k \in 1 .. Len(wire) : wire[k] = base + k
        /\ \A k \in 0 .. op.len - 1 : SendingBuf[k] = base + Len(wire) + k + 1
        /\ Numbered(buf, head, tail, t)

Stream == Ordered(SendBuf, SendHead, SendTail, taken)

(* What is numbered stays numbered when it is moved to the front. *)
LEMMA CopyDownNumbered ==
    ASSUME NEW dst, NEW src, NEW head \in 0 .. BufSize, NEW tail \in head .. BufSize,
           NEW t \in Nat, Numbered(src, head, tail, t)
    PROVE  Numbered(CopyDown(dst, src, head, tail - head), 0, tail - head, t)
<1> SUFFICES ASSUME NEW k \in 0 .. (tail - head) - 1
             PROVE  CopyDown(dst, src, head, tail - head)[k] = t + 1 + k - (tail - head)
    BY DEF Numbered
<1>1. k \in Cells /\ k < tail - head /\ head + k \in head .. tail - 1
    BY DEF Cells
<1>2. CopyDown(dst, src, head, tail - head)[k] = src[head + k]
    BY <1>1 DEF CopyDown
<1>3. src[head + k] = t + 1 + (head + k) - tail
    BY <1>1 DEF Numbered
<1> QED
    BY <1>2, <1>3

(* A message that is written behind what waits has the numbers that follow. *)
LEMMA WriteNumbered ==
    ASSUME NEW buf, NEW head \in Nat, NEW tail \in Nat, head <= tail, NEW size \in Nat,
           tail + size <= BufSize, taken \in Nat, Numbered(buf, head, tail, taken)
    PROVE  Numbered(Write(buf, tail, size), head, tail + size, taken + size)
<1> SUFFICES ASSUME NEW k \in head .. (tail + size) - 1
             PROVE  Write(buf, tail, size)[k] = (taken + size) + 1 + k - (tail + size)
    BY DEF Numbered
<1>1. k \in Cells
    BY DEF Cells
<1>2. Write(buf, tail, size)[k] = IF k \in tail .. tail + size - 1
                                  THEN taken + 1 + (k - tail) ELSE buf[k]
    BY <1>1 DEF Write
<1>3. CASE k < tail
  <2>1. buf[k] = taken + 1 + k - tail
      BY <1>3 DEF Numbered
  <2> QED
      BY <1>2, <1>3, <2>1
<1>4. CASE k >= tail
    BY <1>2, <1>4
<1> QED
    BY <1>3, <1>4

(* SendDataOnBuf keeps the order of the bytes it is called on. *)
LEMMA SendDataOnBufOrdered ==
    ASSUME TypeOK, NEW buf, NEW tail \in 0 .. BufSize, NEW head \in 0 .. tail,
           NEW t \in Nat, NEW sending \in BOOLEAN, op.len > 0 => sending,
           Ordered(buf, head, tail, t), SendDataOnBuf(buf, head, tail, sending),
           UNCHANGED <<wire, base, conn>>, taken' = t
    PROVE  Stream'
<1>1. /\ Len(wire) \in Nat /\ base \in Nat /\ op.len \in Nat
      /\ op'.len \in Nat \/ op' = op \/ op'.len = tail - head
    BY DEF TypeOK, Bytes, SendDataOnBuf, WSASend
<1>2. CASE sending \/ head = tail
  <2>1. /\ SendBuf' = buf /\ SendHead' = head /\ SendTail' = tail
        /\ UNCHANGED <<SendingBuf, op, healthy>>
      BY <1>2 DEF SendDataOnBuf
  <2> QED
      BY <2>1 DEF Stream, Ordered, Numbered
<1>3. CASE ~sending /\ head # tail
  <2>1. /\ SendBuf' = buf /\ SendTail' = tail - head /\ WSASend(tail - head)
        /\ SendingBuf' = CopyDown(SendingBuf, buf, head, tail - head)
      BY <1>3 DEF SendDataOnBuf
  <2>2. CASE healthy' = FALSE
      BY <2>2 DEF Stream, Ordered
  <2>3. CASE /\ op' = [len |-> tail - head, conn |-> conn] /\ SendHead' = tail - head
             /\ UNCHANGED <<healthy, failed>>
    <3> SUFFICES ASSUME healthy PROVE Stream'
        BY <2>3 DEF Stream, Ordered
    <3>1. /\ op.len = 0 /\ Len(wire) + op.len + (tail - head) = t - base
          /\ \A k \in 1 .. Len(wire) : wire[k] = base + k
          /\ Numbered(buf, head, tail, t)
        BY <1>1, <1>3 DEF Ordered
    <3>2. base + Len(wire) = t - (tail - head)
        BY <1>1, <3>1
    <3>3. Numbered(SendingBuf', 0, tail - head, t)
      <4>1. head \in 0 .. BufSize /\ tail \in head .. BufSize
          OBVIOUS
      <4> QED
          BY <2>1, <3>1, <4>1, CopyDownNumbered
    <3>4. op'.len = tail - head /\ op'.conn = conn
        BY <2>3
    <3>5. ASSUME NEW k \in 0 .. op'.len - 1
          PROVE  SendingBuf'[k] = base + Len(wire) + k + 1
      <4>1. SendingBuf'[k] = t + 1 + k - (tail - head)
          BY <3>3, <3>4 DEF Numbered
      <4> QED
          BY <1>1, <3>2, <3>4, <4>1
    <3>6. Len(wire) + op'.len + (SendTail' - SendHead') = t - base
        BY <1>1, <2>1, <2>3, <3>2, <3>4
    <3>7. Numbered(SendBuf', SendHead', SendTail', t)
        BY <2>1, <2>3 DEF Numbered
    <3> QED
        BY <3>1, <3>4, <3>5, <3>6, <3>7 DEF Stream, Ordered
  <2> QED
      BY <2>1, <2>2, <2>3 DEF WSASend
<1> QED
    BY <1>2, <1>3

(* A message keeps the order: moved or not, it comes behind what waits. *)
LEMMA SetSendDataOrdered ==
    ASSUME Inv, Stream, NEW size \in Sizes, SetSendData(size) PROVE Stream'
<1> DEFINE full == SendTail + size > BufSize
           len  == SendTail - SendHead
           buf  == IF full THEN CopyDown(SendBuf, SendBuf, SendHead, len)
                           ELSE SendBuf
           tail == IF full THEN len ELSE SendTail
           head == IF full THEN 0 ELSE SendHead
           new  == Write(buf, tail, size)
<1>1. /\ size \in Nat /\ taken \in Nat /\ taken' = taken + size
      /\ SendHead \in 0 .. BufSize /\ SendTail \in SendHead .. BufSize
      /\ SendTail - SendHead + size <= BufSize
      /\ UNCHANGED <<wire, base, conn>> /\ IsSending \in BOOLEAN
      /\ op.len > 0 => IsSending
      /\ SendDataOnBuf(new, head, tail + size, IsSending)
    BY DEF SetSendData, histVars, Inv, TypeOK, OneSend, Bytes
<1>2. /\ tail \in 0 .. BufSize /\ tail + size \in 0 .. BufSize
      /\ head \in 0 .. tail /\ tail - head = len
    BY <1>1
<1>3. healthy => Numbered(buf, head, tail, taken)
  <2> SUFFICES ASSUME healthy PROVE Numbered(buf, head, tail, taken)
      OBVIOUS
  <2>1. Numbered(SendBuf, SendHead, SendTail, taken)
      BY DEF Stream, Ordered
  <2>2. CASE full
    <3>1. Numbered(CopyDown(SendBuf, SendBuf, SendHead, len), 0, len, taken)
        BY <1>1, <2>1, CopyDownNumbered
    <3> QED
        BY <2>2, <3>1
  <2>3. CASE ~full
      BY <2>1, <2>3
  <2> QED
      BY <2>2, <2>3
<1> HIDE DEF full, buf, tail, head
<1>4. healthy => Numbered(new, head, tail + size, taken + size)
    BY <1>1, <1>2, <1>3, WriteNumbered
<1>5. Ordered(new, head, tail + size, taken + size)
  <2> SUFFICES ASSUME healthy PROVE Ordered(new, head, tail + size, taken + size)
      BY DEF Ordered
  <2>1. Len(wire) + op.len + (SendTail - SendHead) = taken - base
      BY DEF Stream, Ordered
  <2>2. Len(wire) \in Nat /\ op.len \in Nat /\ base \in Nat
      BY DEF Inv, TypeOK, Bytes
  <2>3. Len(wire) + op.len + ((tail + size) - head) = (taken + size) - base
      BY <1>1, <1>2, <2>1, <2>2
  <2> QED
      BY <1>4, <2>3 DEF Stream, Ordered
<1> HIDE DEF new
<1>6. tail + size \in 0 .. BufSize /\ head \in 0 .. tail + size /\ taken + size \in Nat
    BY <1>1, <1>2
<1> QED
    BY <1>1, <1>5, <1>6, SendDataOnBufOrdered DEF Inv

(* What Windows transmits comes next on the wire. *)
LEMMA TransmitOrdered == ASSUME Inv, Stream, Transmit PROVE Stream'
<1> SUFFICES ASSUME healthy PROVE Stream'
    BY DEF Transmit, Stream, Ordered
<1> DEFINE bytes == [k \in 1 .. op.len |-> SendingBuf[k - 1]]
<1>1. /\ op.len \in Nat \ {0} /\ op.conn = conn /\ wire' = wire \o bytes
      /\ op' = NoOp
      /\ UNCHANGED <<SendBuf, SendHead, SendTail, SendingBuf, conn, base, taken, healthy>>
    BY DEF Transmit, Stream, Ordered, bufVars, Inv, TypeOK
<1>2. /\ wire \in Seq(Bytes) /\ Len(wire) \in Nat /\ base \in Nat /\ taken \in Nat
      /\ SendHead \in Nat /\ SendTail \in Nat
    BY DEF Inv, TypeOK, Bytes
<1>3. bytes \in Seq(Bytes) /\ Len(bytes) = op.len
  <2>1. \A k \in 1 .. op.len : SendingBuf[k - 1] \in Bytes
      BY <1>1 DEF Inv, TypeOK, Cells
  <2> QED
      BY <1>1, <2>1
<1>4. \A k \in 1 .. op.len : bytes[k] = base + Len(wire) + k
  <2> TAKE k \in 1 .. op.len
  <2>1. k - 1 \in 0 .. op.len - 1 /\ bytes[k] = SendingBuf[k - 1]
      BY <1>1
  <2>2. SendingBuf[k - 1] = base + Len(wire) + (k - 1) + 1
      BY <2>1 DEF Stream, Ordered
  <2> QED
      BY <1>2, <2>1, <2>2
<1> HIDE DEF bytes
<1>5. /\ Len(wire') = Len(wire) + op.len
      /\ \A k \in 1 .. Len(wire) + op.len :
             wire'[k] = IF k <= Len(wire) THEN wire[k] ELSE bytes[k - Len(wire)]
    BY <1>1, <1>2, <1>3, ConcatProperties
<1>6. \A k \in 1 .. Len(wire') : wire'[k] = base + k
  <2> TAKE k \in 1 .. Len(wire')
  <2>1. k \in 1 .. Len(wire) + op.len
      BY <1>5
  <2>2. CASE k <= Len(wire)
    <3>1. k \in 1 .. Len(wire)
        BY <1>2, <2>1, <2>2
    <3> QED
        BY <1>5, <2>1, <2>2, <3>1 DEF Stream, Ordered
  <2>3. CASE k > Len(wire)
    <3>1. k - Len(wire) \in 1 .. op.len
        BY <1>1, <1>2, <2>1, <2>3
    <3>2. wire'[k] = base + Len(wire) + (k - Len(wire))
        BY <1>2, <1>4, <1>5, <2>1, <2>3, <3>1
    <3> QED
        BY <1>2, <2>1, <3>2
  <2> QED
      BY <1>2, <2>1, <2>2, <2>3
<1>7. op'.len = 0
    BY <1>1 DEF NoOp
<1>8. Len(wire') + op'.len + (SendTail' - SendHead') = taken' - base'
  <2>1. Len(wire) + op.len + (SendTail - SendHead) = taken - base
      BY DEF Stream, Ordered
  <2> QED
      BY <1>1, <1>2, <1>5, <1>7, <2>1
<1>9. Numbered(SendBuf', SendHead', SendTail', taken')
    BY <1>1 DEF Stream, Ordered
<1> QED
    BY <1>1, <1>6, <1>7, <1>8, <1>9 DEF Stream, Ordered

(* Every step keeps the order of the stream. *)
LEMMA StreamStep == Inv /\ Stream /\ [Next]_vars => Stream'
<1> SUFFICES ASSUME Inv, Stream, [Next]_vars PROVE Stream'
    OBVIOUS
<1>1. ASSUME NEW size \in Sizes, SetSendData(size) PROVE Stream'
    BY <1>1, SetSendDataOrdered
<1>2. CASE OnSendComplete
  <2>1. op.len = 0 /\ SendTail \in 0 .. BufSize /\ SendHead \in 0 .. SendTail
        /\ taken \in Nat
      BY <1>2 DEF OnSendComplete, Inv, OneSend, TypeOK, Bytes
  <2>2. SendDataOnBuf(SendBuf, SendHead, SendTail, FALSE) /\ taken' = taken
        /\ UNCHANGED <<wire, base, conn>>
      BY <1>2 DEF OnSendComplete, histVars
  <2> QED
    <3>1. TypeOK /\ Ordered(SendBuf, SendHead, SendTail, taken) /\ ~(op.len > 0)
        BY <2>1 DEF Stream, Inv
    <3>2. PICK sending \in BOOLEAN : sending = FALSE
        OBVIOUS
    <3> QED
        BY <2>1, <2>2, <3>1, <3>2, SendDataOnBufOrdered
<1>3. CASE SendAborted \/ RecvClosed \/ PostAccept
    BY <1>3 DEF SendAborted, RecvClosed, PostAccept, CloseSocket, Stream, Ordered
<1>4. CASE Accepted
  <2> SUFFICES ASSUME healthy' PROVE Stream'
      BY DEF Stream, Ordered
  <2>1. /\ ~IsSending /\ SendHead = SendTail /\ base' = taken /\ wire' = <<>>
        /\ UNCHANGED <<SendBuf, SendHead, SendTail, SendingBuf, op, taken>>
      BY <1>4 DEF Accepted, bufVars
  <2>2. op'.len = 0 /\ taken \in Nat /\ SendTail \in Nat /\ SendHead \in Nat
      BY <2>1 DEF Inv, OneSend, TypeOK, Bytes
  <2>3. Len(wire') = 0 /\ \A k \in 1 .. Len(wire') : FALSE
      BY <2>1
  <2> QED
      BY <2>1, <2>2, <2>3 DEF Stream, Ordered, Numbered
<1>5. CASE Transmit
    BY <1>5, TransmitOrdered
<1>6. CASE Abort
  <2> SUFFICES ASSUME healthy' PROVE Stream'
      BY DEF Stream, Ordered
  <2>1. healthy /\ op.conn # conn /\ op.len > 0
      BY <1>6 DEF Abort
  <2> QED
      BY <2>1 DEF Stream, Ordered
<1>7. CASE UNCHANGED vars
    BY <1>7 DEF vars, bufVars, histVars, Stream, Ordered, Numbered
<1> QED
    BY <1>1, <1>2, <1>3, <1>4, <1>5, <1>6, <1>7 DEF Next

(* What Windows has, and what waits, by the numbers of the bytes. *)
LEMMA PartsNumbered ==
    ASSUME Inv, Stream, healthy
    PROVE  /\ InFlight \in Seq(Nat) /\ Len(InFlight) = op.len
           /\ \A k \in 1 .. op.len : InFlight[k] = base + Len(wire) + k
           /\ Waiting \in Seq(Nat) /\ Len(Waiting) = SendTail - SendHead
           /\ \A k \in 1 .. SendTail - SendHead :
                  Waiting[k] = base + Len(wire) + op.len + k
<1> DEFINE n == Len(wire)
           w == SendTail - SendHead
<1>1. /\ n \in Nat /\ base \in Nat /\ taken \in Nat /\ op.len \in Nat
      /\ SendHead \in 0 .. SendTail /\ SendTail \in 0 .. BufSize /\ wire \in Seq(Nat)
      /\ taken <= MaxBytes
    BY SeqMonotonic DEF Inv, TypeOK, Bytes
<1>2. /\ op.len > 0 => op.conn = conn
      /\ n + op.len + w = taken - base
      /\ \A k \in 1 .. n : wire[k] = base + k
      /\ \A k \in 0 .. op.len - 1 : SendingBuf[k] = base + n + k + 1
      /\ \A k \in SendHead .. SendTail - 1 : SendBuf[k] = taken + 1 + k - SendTail
    BY DEF Stream, Ordered, Numbered
<1>3. w \in Nat
    BY <1>1
<1>4. /\ InFlight \in Seq(Nat) /\ Len(InFlight) = op.len
      /\ \A k \in 1 .. op.len : InFlight[k] = base + n + k
  <2>1. CASE op.len = 0
      BY <2>1 DEF InFlight
  <2>2. CASE op.len > 0
    <3>1. InFlight = [k \in 1 .. op.len |-> SendingBuf[k - 1]]
        BY <1>2, <2>2 DEF InFlight
    <3>2. ASSUME NEW k \in 1 .. op.len PROVE SendingBuf[k - 1] = base + n + k
      <4>1. k - 1 \in 0 .. op.len - 1
          BY <1>1
      <4>2. SendingBuf[k - 1] = base + n + (k - 1) + 1
          BY <1>2, <4>1
      <4> QED
          BY <1>1, <4>2
    <3>3. InFlight \in [1 .. op.len -> Nat]
        BY <1>1, <3>1, <3>2
    <3>4. InFlight \in Seq(Nat) /\ Len(InFlight) = op.len
        BY <1>1, <3>3, SeqDef
    <3>5. \A k \in 1 .. op.len : InFlight[k] = base + n + k
        BY <3>1, <3>2
    <3> QED
        BY <3>4, <3>5
  <2> QED
      BY <1>1, <2>1, <2>2
<1>5. /\ Waiting \in Seq(Nat) /\ Len(Waiting) = w
      /\ \A k \in 1 .. w : Waiting[k] = base + n + op.len + k
  <2>1. ASSUME NEW k \in 1 .. w
        PROVE  SendBuf[SendHead + k - 1] = base + n + op.len + k
    <3>1. SendHead + k - 1 \in SendHead .. SendTail - 1
        BY <1>1
    <3>2. SendBuf[SendHead + k - 1] = taken + 1 + (SendHead + k - 1) - SendTail
        BY <1>2, <3>1
    <3>3. /\ n + op.len + (SendTail - SendHead) = taken - base
          /\ SendTail \in Nat /\ SendHead \in Nat /\ n \in Nat /\ op.len \in Nat
          /\ taken \in Nat /\ base \in Nat
        BY <1>1, <1>2
    <3> HIDE DEF n
    <3>4. taken + 1 + (SendHead + k - 1) - SendTail = base + n + op.len + k
        BY <3>3
    <3> QED
        BY <3>2, <3>4
  <2>2. Waiting = [k \in 1 .. w |-> SendBuf[SendHead + k - 1]]
      BY DEF Waiting
  <2>3. Waiting \in [1 .. w -> Nat]
    <3>1. \A k \in 1 .. w : base + n + op.len + k \in Nat
        BY <1>1, <1>3
    <3> QED
        BY <2>1, <2>2, <3>1
  <2> HIDE DEF w
  <2>4. Waiting \in Seq(Nat) /\ Len(Waiting) = w
      BY <1>3, <2>3, SeqDef
  <2>5. \A k \in 1 .. w : Waiting[k] = base + n + op.len + k
      BY <2>1, <2>2
  <2> QED
      BY <2>4, <2>5
<1> QED
    BY <1>4, <1>5

(* What is ordered byte by byte is the sequence of the bytes taken. *)
LEMMA OrderedIsIntegrity == Inv /\ Stream => StreamIntegrity
<1> SUFFICES ASSUME Inv, Stream, healthy
             PROVE  wire \o InFlight \o Waiting = [k \in 1 .. taken - base |-> base + k]
    BY DEF StreamIntegrity
<1> DEFINE n == Len(wire)
           w == SendTail - SendHead
           all == [k \in 1 .. taken - base |-> base + k]
<1>1. /\ n \in Nat /\ base \in Nat /\ taken \in Nat /\ op.len \in Nat
      /\ SendHead \in 0 .. SendTail /\ SendTail \in 0 .. BufSize /\ wire \in Seq(Nat)
      /\ taken <= MaxBytes
    BY SeqMonotonic DEF Inv, TypeOK, Bytes
<1>2. /\ op.len > 0 => op.conn = conn
      /\ n + op.len + w = taken - base
      /\ \A k \in 1 .. n : wire[k] = base + k
      /\ \A k \in 0 .. op.len - 1 : SendingBuf[k] = base + n + k + 1
      /\ \A k \in SendHead .. SendTail - 1 : SendBuf[k] = taken + 1 + k - SendTail
    BY DEF Stream, Ordered, Numbered
<1>3. w \in Nat
    BY <1>1
<1>4. /\ InFlight \in Seq(Nat) /\ Len(InFlight) = op.len
      /\ \A k \in 1 .. op.len : InFlight[k] = base + n + k
    BY PartsNumbered
<1>5. /\ Waiting \in Seq(Nat) /\ Len(Waiting) = w
      /\ \A k \in 1 .. w : Waiting[k] = base + n + op.len + k
    BY PartsNumbered
<1>6. /\ all \in Seq(Nat) /\ Len(all) = taken - base
      /\ \A k \in 1 .. taken - base : all[k] = base + k
  <2>1. taken - base \in Nat
      BY <1>1, <1>2, <1>3
  <2>2. all \in [1 .. taken - base -> Nat]
      BY <1>1
  <2> QED
      BY <2>1, <2>2, SeqDef
<1> DEFINE some == wire \o InFlight
           stream == some \o Waiting
<1>7. /\ some \in Seq(Nat) /\ Len(some) = n + op.len
      /\ \A k \in 1 .. n + op.len : some[k] = IF k <= n THEN wire[k] ELSE InFlight[k - n]
  <2>1. wire \in Seq(Nat) /\ InFlight \in Seq(Nat)
      BY <1>1, <1>4
  <2>2. /\ some \in Seq(Nat) /\ Len(some) = Len(wire) + Len(InFlight)
        /\ \A k \in 1 .. Len(wire) + Len(InFlight) :
               some[k] = IF k <= Len(wire) THEN wire[k] ELSE InFlight[k - Len(wire)]
      BY <2>1, ConcatProperties
  <2> HIDE DEF some
  <2> QED
      BY <1>4, <2>2
<1> HIDE DEF some, all, w
<1>8. /\ stream \in Seq(Nat) /\ Len(stream) = n + op.len + w
      /\ \A k \in 1 .. n + op.len + w :
             stream[k] = IF k <= n + op.len THEN some[k] ELSE Waiting[k - (n + op.len)]
  <2>1. some \in Seq(Nat) /\ Waiting \in Seq(Nat)
      BY <1>5, <1>7
  <2>2. Len(some) + Len(Waiting) = n + op.len + w
      BY <1>5, <1>7
  <2> QED
      BY <1>7, <2>1, <2>2, ConcatProperties
<1> HIDE DEF stream, n
<1>9. ASSUME NEW k \in 1 .. n + op.len + w PROVE stream[k] = base + k
  <2>1. CASE k <= n
    <3>1. k \in 1 .. n /\ k \in 1 .. n + op.len
        BY <1>1, <1>3, <2>1
    <3> QED
        BY <1>2, <1>7, <1>8, <2>1, <3>1
  <2>2. CASE n < k /\ k <= n + op.len
    <3>1. k - n \in 1 .. op.len /\ k \in 1 .. n + op.len
        BY <1>1, <1>3, <2>2
    <3>2. stream[k] = base + n + (k - n)
        BY <1>1, <1>4, <1>7, <1>8, <2>2, <3>1
    <3> QED
        BY <1>1, <3>2
  <2>3. CASE n + op.len < k
    <3>1. k - (n + op.len) \in 1 .. w
        BY <1>1, <1>3, <2>3
    <3>2. stream[k] = base + n + op.len + (k - (n + op.len))
        BY <1>1, <1>5, <1>8, <2>3, <3>1
    <3> QED
        BY <1>1, <3>2
  <2> QED
      BY <1>1, <2>1, <2>2, <2>3
<1>10. stream = all
    BY <1>2, <1>6, <1>8, <1>9, SeqEqual DEF w
<1> QED
    BY <1>10 DEF stream, some, all

(* On a connection that began clean and had no error, the bytes on the      *)
(* wire, those Windows has and those that wait are the bytes taken since it *)
(* began: none lost, doubled, or out of order.                              *)
THEOREM StreamKept == Spec => []StreamIntegrity
<1>1. Init => Stream
    BY DEF Init, Stream, Ordered
<1>2. Inv /\ Stream /\ [Next]_vars => Stream'
    BY StreamStep
<1>3. Inv /\ Stream => StreamIntegrity
    BY OrderedIsIntegrity
<1> QED
    BY Invariance, <1>1, <1>2, <1>3, PTL DEF Spec

-----------------------------------------------------------------------------
(* The n numbers after a. *)
Nums(a, n) == [k \in 1 .. n |-> a + k]

LEMMA NumsFacts ==
    ASSUME NEW a \in Nat, NEW n \in Nat
    PROVE  /\ Nums(a, n) \in Seq(Nat) /\ Len(Nums(a, n)) = n
           /\ \A k \in 1 .. n : Nums(a, n)[k] = a + k
<1>1. \A k \in 1 .. n : a + k \in Nat
    OBVIOUS
<1> QED
    BY <1>1 DEF Nums

(* The first of them, and the others. *)
LEMMA NumsParts ==
    ASSUME NEW a \in Nat, NEW n \in Nat, NEW m \in 0 .. n
    PROVE  /\ SubSeq(Nums(a, n), 1, m) = Nums(a, m)
           /\ SubSeq(Nums(a, n), m + 1, n) = Nums(a + m, n - m)
<1>1. /\ Nums(a, n) \in Seq(Nat) /\ Len(Nums(a, n)) = n
      /\ \A k \in 1 .. n : Nums(a, n)[k] = a + k
    BY NumsFacts
<1>2. /\ Nums(a, m) \in Seq(Nat) /\ Len(Nums(a, m)) = m
      /\ \A k \in 1 .. m : Nums(a, m)[k] = a + k
    BY NumsFacts
<1>3. /\ Nums(a + m, n - m) \in Seq(Nat) /\ Len(Nums(a + m, n - m)) = n - m
      /\ \A k \in 1 .. n - m : Nums(a + m, n - m)[k] = (a + m) + k
  <2>1. a + m \in Nat /\ n - m \in Nat
      OBVIOUS
  <2> QED
      BY <2>1, NumsFacts
<1> DEFINE s == Nums(a, n)
           t == SubSeq(s, 1, m)
           u == SubSeq(s, m + 1, n)
<1> HIDE DEF s
<1>4. t \in Seq(Nat) /\ Len(t) = m /\ \A k \in 1 .. m : t[k] = s[k]
  <2>1. \A k \in 1 .. m : s[k] \in Nat
      BY <1>1 DEF s
  <2>2. /\ t \in Seq(Nat)
        /\ Len(t) = IF 1 <= m THEN m - 1 + 1 ELSE 0
        /\ \A k \in 1 .. m - 1 + 1 : t[k] = s[1 + k - 1]
      BY <1>1, <2>1, SubSeqProperties DEF s
  <2> HIDE DEF t
  <2> QED
      BY <2>2
<1>5. u \in Seq(Nat) /\ Len(u) = n - m /\ \A k \in 1 .. n - m : u[k] = s[m + k]
  <2>1. \A k \in m + 1 .. n : s[k] \in Nat
      BY <1>1 DEF s
  <2>2. /\ u \in Seq(Nat)
        /\ Len(u) = IF m + 1 <= n THEN n - (m + 1) + 1 ELSE 0
        /\ \A k \in 1 .. n - (m + 1) + 1 : u[k] = s[(m + 1) + k - 1]
      BY <1>1, <2>1, SubSeqProperties DEF s
  <2> HIDE DEF u
  <2>3. \A k \in 1 .. n - m : k \in 1 .. n - (m + 1) + 1 /\ (m + 1) + k - 1 = m + k
      OBVIOUS
  <2> QED
      BY <2>2, <2>3
<1> HIDE DEF t, u
<1>6. t = Nums(a, m)
  <2>1. \A k \in 1 .. m : t[k] = Nums(a, m)[k]
      BY <1>1, <1>2, <1>4 DEF s
  <2> QED
      BY <1>2, <1>4, <2>1, SeqEqual
<1>7. u = Nums(a + m, n - m)
  <2>1. \A k \in 1 .. n - m : u[k] = Nums(a + m, n - m)[k]
    <3> TAKE k \in 1 .. n - m
    <3>1. u[k] = s[m + k] /\ m + k \in 1 .. n
        BY <1>5
    <3>2. u[k] = a + (m + k)
        BY <1>1, <3>1 DEF s
    <3> QED
        BY <1>3, <3>2
  <2> QED
      BY <1>3, <1>5, <2>1, SeqEqual
<1> QED
    BY <1>6, <1>7 DEF s, t, u

(* What was sent on a healthy connection and is not transmitted yet. *)
LEMMA PendingNumbered ==
    Inv /\ Stream /\ healthy =>
        /\ base + Len(wire) \in Nat /\ taken - base - Len(wire) \in Nat /\ taken <= MaxBytes
        /\ InFlight \o Waiting = Nums(base + Len(wire), taken - base - Len(wire))
<1> SUFFICES ASSUME Inv, Stream, healthy
             PROVE  /\ base + Len(wire) \in Nat /\ taken - base - Len(wire) \in Nat
                    /\ taken <= MaxBytes
                    /\ InFlight \o Waiting = Nums(base + Len(wire), taken - base - Len(wire))
    OBVIOUS
<1> DEFINE w == SendTail - SendHead
           a == base + Len(wire)
           n == taken - base - Len(wire)
           all == InFlight \o Waiting
<1>1. /\ Len(wire) \in Nat /\ base \in Nat /\ taken \in Nat /\ op.len \in Nat
      /\ w \in Nat /\ taken <= MaxBytes
    BY DEF Inv, TypeOK, Bytes
<1>2. Len(wire) + op.len + w = taken - base
    BY DEF Stream, Ordered
<1>3. /\ InFlight \in Seq(Nat) /\ Len(InFlight) = op.len
      /\ \A k \in 1 .. op.len : InFlight[k] = a + k
      /\ Waiting \in Seq(Nat) /\ Len(Waiting) = w
      /\ \A k \in 1 .. w : Waiting[k] = a + op.len + k
    BY PartsNumbered
<1> HIDE DEF w
<1>4. a \in Nat /\ n \in Nat /\ n = op.len + w
    BY <1>1, <1>2
<1> HIDE DEF a, n
<1>5. /\ all \in Seq(Nat) /\ Len(all) = n
      /\ \A k \in 1 .. n : all[k] = IF k <= op.len THEN InFlight[k] ELSE Waiting[k - op.len]
  <2>1. \A u, v \in Seq(Nat) :
            /\ u \o v \in Seq(Nat) /\ Len(u \o v) = Len(u) + Len(v)
            /\ \A k \in 1 .. Len(u) + Len(v) :
                   (u \o v)[k] = IF k <= Len(u) THEN u[k] ELSE v[k - Len(u)]
      BY ConcatProperties
  <2>2. /\ all \in Seq(Nat) /\ Len(all) = Len(InFlight) + Len(Waiting)
        /\ \A k \in 1 .. Len(InFlight) + Len(Waiting) :
               all[k] = IF k <= Len(InFlight) THEN InFlight[k]
                                              ELSE Waiting[k - Len(InFlight)]
      BY <1>3, <2>1
  <2> HIDE DEF all
  <2> QED
      BY <1>3, <1>4, <2>2
<1> HIDE DEF all
<1>6. \A k \in 1 .. n : all[k] = a + k
  <2> TAKE k \in 1 .. n
  <2>1. CASE k <= op.len
    <3>1. k \in 1 .. op.len
        BY <1>1, <1>4, <2>1
    <3> QED
        BY <1>3, <1>5, <2>1, <3>1
  <2>2. CASE k > op.len
    <3>1. k - op.len \in 1 .. w
        BY <1>1, <1>4, <2>2
    <3>2. all[k] = a + op.len + (k - op.len)
        BY <1>1, <1>3, <1>5, <2>2, <3>1
    <3> QED
        BY <1>1, <1>4, <3>2
  <2> QED
      BY <1>1, <1>4, <2>1, <2>2
<1>7. all = Nums(a, n)
  <2>1. /\ Nums(a, n) \in Seq(Nat) /\ Len(Nums(a, n)) = n
        /\ \A k \in 1 .. n : Nums(a, n)[k] = a + k
      BY <1>4, NumsFacts
  <2>2. \A k \in 1 .. Len(all) : all[k] = Nums(a, n)[k]
      BY <1>5, <1>6, <2>1
  <2> QED
      BY <1>5, <2>1, <2>2, SeqEqual
<1> QED
    BY <1>1, <1>4, <1>7 DEF all, a, n

LEMMA PendingNumberedNext ==
    (Inv /\ Stream /\ healthy =>
        /\ base + Len(wire) \in Nat /\ taken - base - Len(wire) \in Nat /\ taken <= MaxBytes
        /\ InFlight \o Waiting = Nums(base + Len(wire), taken - base - Len(wire)))'
BY PendingNumbered, PTL

(* Numbers up to MaxBytes are bytes. *)
LEMMA NumsBytes ==
    ASSUME NEW a \in Nat, NEW n \in Nat, a + n <= MaxBytes
    PROVE  Nums(a, n) \in Seq(Bytes)
<1>1. \A k \in 1 .. n : a + k \in Bytes
    BY DEF Bytes
<1> QED
    BY <1>1 DEF Nums

-----------------------------------------------------------------------------
(* A step that keeps the connection and transmits nothing: what waits is as *)
(* it was, or what was taken comes after it.                                *)
LEMMA ChannelKeeps ==
    ASSUME Inv, Stream, Inv', Stream', healthy, healthy', UNCHANGED <<wire, base>>
    PROVE  /\ taken' = taken => (InFlight \o Waiting)' = InFlight \o Waiting
           /\ taken' > taken =>
                  /\ (InFlight \o Waiting)' \in Seq(Bytes)
                  /\ Len((InFlight \o Waiting)') > Len(InFlight \o Waiting)
                  /\ SubSeq((InFlight \o Waiting)', 1, Len(InFlight \o Waiting))
                         = InFlight \o Waiting
<1> DEFINE all == InFlight \o Waiting
           a == base + Len(wire)
           n == taken - base - Len(wire)
           m == taken' - base - Len(wire)
<1>1. a \in Nat /\ n \in Nat /\ taken <= MaxBytes /\ all = Nums(a, n)
    BY PendingNumbered
<1>2. m \in Nat /\ taken' <= MaxBytes /\ all' = Nums(a, m)
    BY PendingNumberedNext
<1>3. taken \in Nat /\ taken' \in Nat /\ base \in Nat /\ Len(wire) \in Nat
    BY DEF Inv, TypeOK, Bytes
<1>4. a + m <= MaxBytes /\ (taken' > taken => m > n) /\ (taken' = taken => m = n)
    BY <1>2, <1>3
<1> HIDE DEF all, a, n, m
<1>5. taken' = taken => all' = all
    BY <1>1, <1>2, <1>4
<1>6. ASSUME taken' > taken
      PROVE  all' \in Seq(Bytes) /\ Len(all') > Len(all) /\ SubSeq(all', 1, Len(all)) = all
  <2>1. Len(all) = n /\ Len(all') = m
      BY <1>1, <1>2, NumsFacts
  <2>2. SubSeq(Nums(a, m), 1, n) = Nums(a, n)
    <3>1. n \in 0 .. m
        BY <1>1, <1>2, <1>4, <1>6
    <3> QED
        BY <1>1, <1>2, <3>1, NumsParts
  <2>3. all' \in Seq(Bytes)
      BY <1>1, <1>2, <1>4, NumsBytes
  <2> QED
      BY <1>1, <1>2, <1>4, <1>6, <2>1, <2>2, <2>3
<1> QED
    BY <1>5, <1>6 DEF all

(* What Windows transmits on a healthy connection are the first of the bytes*)
(* that were sent and not transmitted yet.                                  *)
LEMMA ChannelTransmits ==
    ASSUME Inv, Stream, Inv', Stream', healthy, Transmit
    PROVE  \E n \in 1 .. Len(InFlight \o Waiting) :
               /\ wire' = wire \o SubSeq(InFlight \o Waiting, 1, n)
               /\ (InFlight \o Waiting)' =
                      SubSeq(InFlight \o Waiting, n + 1, Len(InFlight \o Waiting))
<1> DEFINE all == InFlight \o Waiting
           a == base + Len(wire)
           n == taken - base - Len(wire)
           l == op.len
<1>1. a \in Nat /\ n \in Nat /\ all = Nums(a, n)
    BY PendingNumbered
<1>2. healthy' /\ UNCHANGED <<base, taken>> /\ l > 0 /\ op.conn = conn
    BY DEF Transmit, Stream, Ordered
<1>3. wire' = wire \o InFlight
    BY <1>2 DEF Transmit, InFlight
<1>4. /\ taken' - base' - Len(wire') \in Nat
      /\ all' = Nums(base' + Len(wire'), taken' - base' - Len(wire'))
    BY <1>2, PendingNumberedNext
<1>5. /\ l \in Nat /\ Len(wire) \in Nat /\ wire \in Seq(Nat) /\ base \in Nat /\ taken \in Nat
      /\ SendTail - SendHead \in Nat
  <2>1. wire \in Seq(Bytes) /\ Bytes \subseteq Nat
      BY DEF Inv, TypeOK, Bytes
  <2>2. wire \in Seq(Nat)
      BY <2>1, SeqMonotonic
  <2>3. op.len \in Nat /\ SendTail - SendHead \in Nat
      BY DEF Inv, TypeOK
  <2>4. base \in Nat /\ taken \in Nat
      BY DEF Inv, TypeOK, Bytes
  <2> QED
      BY <2>1, <2>2, <2>3, <2>4
<1>6. l <= n
    BY <1>5 DEF Stream, Ordered
<1>7. InFlight \in Seq(Nat) /\ Len(InFlight) = l /\ \A k \in 1 .. l : InFlight[k] = a + k
    BY PartsNumbered
<1>8. Len(wire') = Len(wire) + l
    BY <1>3, <1>5, <1>7, ConcatProperties
<1>9. all' = Nums(a + l, n - l)
    BY <1>2, <1>4, <1>5, <1>8
<1> HIDE DEF all, a, n, l
<1>10. InFlight = Nums(a, l)
  <2>1. /\ Nums(a, l) \in Seq(Nat) /\ Len(Nums(a, l)) = l
        /\ \A k \in 1 .. l : Nums(a, l)[k] = a + k
      BY <1>1, <1>5, NumsFacts
  <2>2. \A k \in 1 .. Len(InFlight) : InFlight[k] = Nums(a, l)[k]
      BY <1>7, <2>1
  <2> QED
      BY <1>7, <2>1, <2>2, SeqEqual
<1>11. Len(all) = n
    BY <1>1, NumsFacts
<1>12. l \in 1 .. n
    BY <1>1, <1>2, <1>5, <1>6
<1>13. SubSeq(all, 1, l) = InFlight /\ SubSeq(all, l + 1, Len(all)) = all'
  <2>1. l \in 0 .. n
      BY <1>12
  <2>2. SubSeq(Nums(a, n), 1, l) = Nums(a, l) /\ SubSeq(Nums(a, n), l + 1, n) = Nums(a + l, n - l)
      BY <1>1, <2>1, NumsParts
  <2> QED
      BY <1>1, <1>9, <1>10, <1>11, <2>2
<1> QED
    BY <1>3, <1>11, <1>12, <1>13 DEF all

(* A connection begins with nothing sent and nothing transmitted. *)
LEMMA ChannelOpens ==
    ASSUME Inv', Stream', Accepted, healthy'
    PROVE  (InFlight \o Waiting)' = <<>> /\ wire' = <<>>
<1>1. wire' = <<>> /\ base' = taken /\ taken' = taken
    BY DEF Accepted
<1>2. /\ taken' - base' - Len(wire') \in Nat
      /\ (InFlight \o Waiting)' = Nums(base' + Len(wire'), taken' - base' - Len(wire'))
      /\ base' + Len(wire') \in Nat
    BY PendingNumberedNext
<1>3. base' \in Nat
    BY DEF Inv, TypeOK, Bytes
<1>4. Len(wire') = 0
    BY <1>1
<1>5. taken' - base' - Len(wire') = 0
  <2>1. taken' = base'
      BY <1>1
  <2>2. \A x \in Nat : x - x - 0 = 0
      OBVIOUS
  <2> QED
      BY <1>3, <1>4, <2>1, <2>2
<1> QED
    BY <1>1, <1>2, <1>5 DEF Nums

-----------------------------------------------------------------------------
(* A connection is healthy only while it is connected. *)
Connected == healthy => SocketClient = "connected"

LEMMA ConnectedStep == Connected /\ [Next]_vars => Connected'
<1>1. ASSUME NEW buf, NEW head, NEW tail, NEW sending, UNCHANGED SocketClient,
             Connected, SendDataOnBuf(buf, head, tail, sending)
      PROVE  Connected'
    BY <1>1 DEF Connected, SendDataOnBuf, WSASend
<1>2. ASSUME NEW size \in Sizes, Connected, SetSendData(size) PROVE Connected'
    BY <1>1, <1>2 DEF SetSendData
<1>3. ASSUME Connected, OnSendComplete PROVE Connected'
    BY <1>1, <1>3 DEF OnSendComplete
<1> QED
    BY <1>2, <1>3 DEF Next, SendAborted, RecvClosed, CloseSocket, PostAccept, Accepted,
                      Transmit, Abort, vars, Connected

(* The slot starts as a channel that is not open. *)
LEMMA RefinesInit == Init => Channel!Init
BY DEF Init, Channel!Init, Channel!Closed

(* Every step of the send side is a step of the channel, or none. *)
LEMMA RefinesNext ==
    Inv /\ Stream /\ Connected /\ [Next]_vars => [Channel!Next]_(Channel!vars)
<1> SUFFICES ASSUME Inv, Stream, Connected, [Next]_vars
             PROVE  [Channel!Next]_(Channel!vars)
    OBVIOUS
<1>1. Inv' /\ Stream'
    BY Step, StreamStep
<1>2. healthy \in BOOLEAN /\ healthy' \in BOOLEAN
    BY <1>1 DEF Inv, TypeOK
<1> DEFINE all == InFlight \o Waiting
<1>3. CASE healthy /\ ~healthy'
  <2>1. Channel!Break
      BY <1>2, <1>3 DEF Channel!Break, Channel!Closed
  <2> QED
      BY <2>1 DEF Channel!Next
<1>4. CASE ~healthy /\ ~healthy'
    BY <1>2, <1>4 DEF Channel!vars
<1>5. CASE ~healthy /\ healthy'
  <2>1. Accepted
      BY <1>5 DEF Next, SetSendData, OnSendComplete, SendDataOnBuf, WSASend, SendAborted,
                  RecvClosed, CloseSocket, PostAccept, Transmit, Abort, vars
  <2>2. all' = <<>> /\ wire' = <<>>
      BY <1>1, <1>5, <2>1, ChannelOpens
  <2>3. Channel!Open
      BY <1>2, <1>5, <2>2 DEF Channel!Open, Channel!Closed
  <2> QED
      BY <2>3 DEF Channel!Next
<1>6. CASE healthy /\ healthy'
  <2> HIDE DEF all
  <2>1. ASSUME UNCHANGED <<wire, base, taken>>
        PROVE  [Channel!Next]_(Channel!vars)
    <3>1. all' = all
        BY <1>1, <1>6, <2>1, ChannelKeeps DEF all
    <3> QED
        BY <1>2, <1>6, <2>1, <3>1 DEF Channel!vars, all
  <2>2. ASSUME UNCHANGED <<wire, base>>, taken' > taken
        PROVE  [Channel!Next]_(Channel!vars)
    <3>1. /\ all' \in Seq(Bytes) /\ Len(all') > Len(all)
          /\ SubSeq(all', 1, Len(all)) = all
        BY <1>1, <1>6, <2>2, ChannelKeeps DEF all
    <3>2. Channel!Send
        BY <1>2, <1>6, <2>2, <3>1 DEF Channel!Send, all
    <3> QED
        BY <3>2 DEF Channel!Next
  <2>3. CASE Transmit
    <3>1. \E n \in 1 .. Len(all) :
              wire' = wire \o SubSeq(all, 1, n) /\ all' = SubSeq(all, n + 1, Len(all))
        BY <1>1, <1>6, <2>3, ChannelTransmits DEF all
    <3>2. Channel!Transmit
        BY <1>2, <1>6, <3>1 DEF Channel!Transmit, all
    <3> QED
        BY <3>2 DEF Channel!Next
  <2>4. ASSUME NEW size \in Sizes, SetSendData(size)
        PROVE  UNCHANGED <<wire, base>> /\ taken' > taken
      BY <2>4 DEF SetSendData, histVars, Inv, TypeOK, Bytes
  <2>5. CASE OnSendComplete \/ SendAborted \/ RecvClosed \/ PostAccept \/ UNCHANGED vars
      BY <2>1, <2>5 DEF OnSendComplete, SendAborted, RecvClosed, CloseSocket, PostAccept,
                        histVars, vars
  <2>6. CASE Abort
      BY <2>1, <2>6 DEF Abort, histVars
  <2>7. ~Accepted
      BY <1>6 DEF Accepted, Connected
  <2> QED
      BY <2>1, <2>2, <2>3, <2>4, <2>5, <2>6, <2>7 DEF Next
<1> QED
    BY <1>2, <1>3, <1>4, <1>5, <1>6

(* The send side of a slot is a channel that keeps every byte and their     *)
(* order while its connection is healthy: for any buffer, any message sizes *)
(* and any number of connections that come and go on the slot.              *)
THEOREM ImplementsChannel == Spec => ChannelSpec
<1>1. Init => Stream
    BY DEF Init, Stream, Ordered
<1>2. Inv /\ Stream /\ [Next]_vars => Stream'
    BY StreamStep
<1>3. Init => Connected
    BY DEF Init, Connected
<1> QED
    BY Invariance, <1>1, <1>2, <1>3, ConnectedStep, RefinesInit, RefinesNext, PTL
       DEF Spec, ChannelSpec, Channel!Spec

-----------------------------------------------------------------------------
(* Shutdown: nothing touches the queue of a group whose threads main has    *)
(* joined, however many threads the groups have and whatever they do.       *)

(* The flags, queues, thread states and main's progress have these types.   *)
StopTypeOK ==
    /\ run \subseteq DOMAIN Threads
    /\ pc \in [All -> {"top", "parking", "parked", "woken", "work", "gone"}]
    /\ queue \in [Queues -> Nat]
    /\ at \in 0 .. Len(Groups)
    /\ step \in {"flag", "notify", "join"}
    /\ step # "flag" => at < Len(Groups)

(* The threads of a group that was joined are gone, and stay so. *)
JoinedGone == \A t \in All : t[1] \in Stopped => pc[t] = "gone"

StopInv == StopTypeOK /\ JoinedGone

-----------------------------------------------------------------------------
(* Nine groups, each in one place of the order. *)
LEMMA NineGroups ==
    /\ Len(Groups) = 9
    /\ \A i, j \in 1 .. 9 : Groups[i] = Groups[j] => i = j
    /\ \A i \in 1 .. 9 : Groups[i] \in DOMAIN Threads
BY ThreadsAssumption, SMTT(60) DEF Groups

(* Whoever pushes to a queue is joined before the group that takes from it, *)
(* or is that group: OnStopServer runs down the pipeline.                   *)
LEMMA FeedersFirst ==
    ASSUME NEW n \in 0 .. 9, NEW g \in DOMAIN Threads, NEW q \in Feeds(g),
           q \in {Groups[i] : i \in 1 .. n}
    PROVE  g \in {Groups[i] : i \in 1 .. n}
BY ThreadsAssumption, NineGroups, SMTT(60) DEF Feeds, Groups

(* Main comes to a group after it has joined those before it only. *)
LEMMA FollowingNotStopped ==
    ASSUME StopTypeOK, at < Len(Groups)
    PROVE  Groups[Following] \in DOMAIN Threads /\ Groups[Following] \notin Stopped
BY NineGroups DEF StopTypeOK, Stopped, Following

(* Main has not begun. *)
LEMMA StopInitInv == StopInit => StopInv
BY NineGroups DEF StopInit, StopInv, StopTypeOK, JoinedGone, Stopped, All

-----------------------------------------------------------------------------
(* A thread that moves is not one that is gone, and an element is pushed by *)
(* a thread of a group that feeds the queue.                                *)
LEMMA PushType ==
    ASSUME StopTypeOK, NEW q \in Queues, NEW t, Push(q, t)
    PROVE  /\ pc' \in [All -> {"top", "parking", "parked", "woken", "work", "gone"}]
           /\ queue' \in [Queues -> Nat]
           /\ \A u \in All : u # t /\ pc[u] = "gone" => pc'[u] = "gone"
           /\ \A p \in Queues : p # q => queue'[p] = queue[p]
BY DEF Push, StopTypeOK, In

(* What a step of a thread leaves of the others and of main's progress.     *)
LEMMA ThreadStep ==
    ASSUME StopInv, NEW t \in All, Thread(t) \/ SpuriousWake(t)
    PROVE  StopInv' /\ \A q \in Queues : q \in Stopped => queue'[q] = queue[q]
<1>1. /\ t[1] \in DOMAIN Threads /\ pc[t] # "gone"
      /\ t[1] \notin Stopped
  BY DEF StopInv, StopTypeOK, JoinedGone, All, Thread, SpuriousWake, Leave, Take, Wait,
         Park, Round, Work
<1>2. UNCHANGED <<run, at, step>> /\ Stopped' = Stopped
  BY DEF Thread, SpuriousWake, Leave, Take, Wait, Park, Round, Work, Stopped
<1>3. CASE Leave(t) \/ Wait(t) \/ Park(t) \/ Round(t) \/ SpuriousWake(t)
  <2>1. /\ pc' \in [All -> {"top", "parking", "parked", "woken", "work", "gone"}]
        /\ \A u \in All : u # t => pc'[u] = pc[u]
        /\ queue' = queue
    BY <1>3 DEF StopInv, StopTypeOK, Leave, Wait, Park, Round, SpuriousWake, Goes
  <2> QED BY <1>1, <1>2, <2>1 DEF StopInv, StopTypeOK, JoinedGone
<1>4. CASE Take(t)
  <2>1. /\ pc' \in [All -> {"top", "parking", "parked", "woken", "work", "gone"}]
        /\ \A u \in All : u # t => pc'[u] = pc[u]
        /\ queue' \in [Queues -> Nat]
        /\ \A q \in Queues : q # t[1] => queue'[q] = queue[q]
    BY <1>4 DEF StopInv, StopTypeOK, Take, Goes
  <2> QED BY <1>1, <1>2, <2>1 DEF StopInv, StopTypeOK, JoinedGone
<1>5. CASE Work(t)
  <2>1. CASE Goes(t, "top") /\ UNCHANGED <<queue, made>>
    <3>1. /\ pc' \in [All -> {"top", "parking", "parked", "woken", "work", "gone"}]
          /\ \A u \in All : u # t => pc'[u] = pc[u]
      BY <2>1 DEF StopInv, StopTypeOK, Goes
    <3> QED BY <1>1, <1>2, <2>1, <3>1 DEF StopInv, StopTypeOK, JoinedGone
  <2>2. ASSUME NEW q \in Feeds(t[1]), Push(q, t)
        PROVE  StopInv' /\ \A p \in Queues : p \in Stopped => queue'[p] = queue[p]
    <3>1. q \in Queues /\ q \notin Stopped
      <4>1. q \in Queues
        BY <1>1, SMTT(30) DEF Feeds, Queues
      <4>2. at \in 0 .. 9
        BY NineGroups DEF StopInv, StopTypeOK
      <4> QED BY <1>1, <4>1, <4>2, FeedersFirst DEF Stopped
    <3>2. /\ pc' \in [All -> {"top", "parking", "parked", "woken", "work", "gone"}]
          /\ queue' \in [Queues -> Nat]
          /\ \A u \in All : u # t /\ pc[u] = "gone" => pc'[u] = "gone"
          /\ \A p \in Queues : p # q => queue'[p] = queue[p]
      BY <2>2, <3>1, PushType DEF StopInv
    <3>3. StopTypeOK'
      BY <1>2, <3>2 DEF StopInv, StopTypeOK
    <3>4. JoinedGone'
      BY <1>1, <1>2, <3>2 DEF StopInv, JoinedGone
    <3> QED BY <3>1, <3>2, <3>3, <3>4 DEF StopInv
  <2> QED BY <1>5, <2>1, <2>2 DEF Work
<1> QED BY <1>3, <1>4, <1>5 DEF Thread

(* What main does to a queue is done before the group counts as stopped.    *)
LEMMA MainStep ==
    ASSUME StopInv, Flag \/ NotifyAll \/ Join
    PROVE  StopInv' /\ \A q \in Queues : q \in Stopped => queue'[q] = queue[q]
<1>1. at \in 0 .. 8 /\ Following = at + 1
  BY NineGroups DEF StopInv, StopTypeOK, Flag, NotifyAll, Join, Following
<1>2. Groups[Following] \in DOMAIN Threads /\ Groups[Following] \notin Stopped
  BY <1>1, NineGroups, FollowingNotStopped DEF StopInv
<1>3. CASE Flag
  <2>1. UNCHANGED <<pc, queue, at>> /\ Stopped' = Stopped
    BY <1>3 DEF Flag, Stopped
  <2>2. StopTypeOK'
    BY <1>3, <2>1 DEF StopInv, StopTypeOK, Flag
  <2> QED BY <2>1, <2>2 DEF StopInv, JoinedGone
<1>4. CASE NotifyAll
  <2>1. UNCHANGED <<run, at>> /\ Stopped' = Stopped /\ step' = "join"
    BY <1>4 DEF NotifyAll, Stopped
  <2>2. /\ pc' \in [All -> {"top", "parking", "parked", "woken", "work", "gone"}]
        /\ \A u \in All : pc[u] = "gone" => pc'[u] = "gone"
    BY <1>4 DEF StopInv, StopTypeOK, NotifyAll, In
  <2>3. /\ queue' \in [Queues -> Nat]
        /\ \A q \in Queues : q # Groups[Following] => queue'[q] = queue[q]
    BY <1>4 DEF StopInv, StopTypeOK, NotifyAll
  <2>4. StopTypeOK'
    BY <1>1, <2>1, <2>2, <2>3, NineGroups DEF StopInv, StopTypeOK
  <2> QED BY <1>2, <2>1, <2>2, <2>3, <2>4 DEF StopInv, JoinedGone
<1>5. CASE Join
  <2>1. /\ at' = at + 1 /\ step' = "flag" /\ UNCHANGED <<run, pc>>
        /\ \A t \in All : t[1] = Groups[Following] => pc[t] = "gone"
    BY <1>1, <1>5 DEF Join
  <2>2. Stopped' = Stopped \cup {Groups[Following]}
    BY <1>1, <2>1 DEF Stopped
  <2>3. /\ queue' \in [Queues -> Nat]
        /\ \A q \in Queues : q # Groups[Following] => queue'[q] = queue[q]
    BY <1>5 DEF StopInv, StopTypeOK, Join
  <2>4. StopTypeOK'
    BY <1>1, <2>1, <2>3, NineGroups DEF StopInv, StopTypeOK
  <2> QED BY <1>2, <2>1, <2>2, <2>3, <2>4 DEF StopInv, JoinedGone
<1> QED BY <1>3, <1>4, <1>5

(* A completion comes while no group is stopped.                            *)
LEMMA CompleteStep ==
    ASSUME StopInv, Complete
    PROVE  StopInv' /\ \A q \in Queues : q \in Stopped => queue'[q] = queue[q]
<1>1. at = 0 /\ UNCHANGED <<run, at, step>> /\ Push("io", <<>>)
  BY DEF Complete
<1>2. Stopped = {} /\ Stopped' = {}
  BY <1>1 DEF Stopped
<1>3. /\ pc' \in [All -> {"top", "parking", "parked", "woken", "work", "gone"}]
      /\ queue' \in [Queues -> Nat]
  BY <1>1, PushType DEF StopInv, Queues
<1> QED BY <1>1, <1>2, <1>3 DEF StopInv, StopTypeOK, JoinedGone

-----------------------------------------------------------------------------
(* The threads of the groups main has joined are gone, and the variables    *)
(* have the types of the code's flags, queues and thread states.            *)
THEOREM JoinedStayGone == StopSpec => []StopInv
<1>1. StopInv /\ UNCHANGED stopVars => StopInv'
  BY DEF StopInv, StopTypeOK, JoinedGone, Stopped, stopVars
<1>2. StopInv /\ [StopNext]_stopVars => StopInv'
  BY <1>1, ThreadStep, MainStep, CompleteStep DEF StopNext
<1> QED BY StopInitInv, <1>2, PTL DEF StopSpec

(* Once a group's threads are joined nothing is pushed to its queue or      *)
(* taken from it, for any number of threads of each group: DestroyThread    *)
(* and OnStopServer clear the queues when nobody can touch them any more.   *)
THEOREM NothingAfterJoin == StopSpec => QuietAfterJoin
<1>1. StopInv /\ [StopNext]_stopVars =>
          [\A q \in Queues : q \in Stopped => queue'[q] = queue[q]]_stopVars
  BY ThreadStep, MainStep, CompleteStep DEF StopNext
<1> QED BY JoinedStayGone, <1>1, PTL DEF StopSpec, QuietAfterJoin
=============================================================================
