---------------------------- MODULE SessionBuffer ----------------------------
(***************************************************************************)
(* The receive ring of one ClientSession (ClientSession.h) and the queue of*)
(* session indices in front of it.  A completed receive appends whatever   *)
(* TCP delivered to the ring and pushes the session's index once; a packet *)
(* thread takes an index and cuts one packet off the ring, by the size its *)
(* header tells.                                                           *)
(*                                                                         *)
(* The client sends packets, whole and with the size of each in its header *)
(* (Packet.h): this is assumed, since GetDataOnBuf believes PacketSize.    *)
(* TCP keeps no packets: a receive has any run of the bytes sent, such as  *)
(* the end of one packet and the beginning of the next.  A receive that    *)
(* the full ring refuses is dropped, and if it was not whole packets the   *)
(* ring goes on in the middle of one: headers are then read from whatever  *)
(* bytes are in front.                                                     *)
(*                                                                         *)
(* Pushing and popping hold RecvPacketQueLock throughout, so each is one   *)
(* step.                                                                   *)
(***************************************************************************)
EXTENDS Naturals, Sequences

CONSTANTS
    RingSize,    \* MAX_SEESION_BUFSIZE
    SockBuf,     \* MAX_SOCKBUF, the most that one receive has
    HeadSize,    \* sizeof(PacketHead)
    Sizes,       \* the PacketSize of the client's packets
    Width,       \* how many values BufDataSize has: 2^16
    MaxPackets,  \* bound: how many packets are ever made
    MaxUnsent    \* bound: how many bytes TCP has under way

ASSUME SizesAssumption ==
    /\ RingSize \in Nat /\ HeadSize \in 1 .. RingSize /\ SockBuf \in Nat
    /\ Sizes \subseteq HeadSize .. RingSize
    /\ Width \in Nat /\ Width > 2 * RingSize
ASSUME BoundsAssumption == MaxPackets \in Nat /\ MaxUnsent \in Nat

Cells == 0 .. RingSize - 1

(* A byte of the stream: its packet, its place there, the packet's size.    *)
Byte == [packet : 0 .. MaxPackets, off : 0 .. RingSize, size : 0 .. RingSize]
Junk == [packet |-> 0, off |-> 0, size |-> 0]
BytesOf(p, size) == [k \in 1 .. size |-> [packet |-> p, off |-> k - 1, size |-> size]]

VARIABLES
    SessionRecvBuf,
    BufHead, BufTail, BufDataSize,
    RecvPacketQueue,   \* how often the session's index is in the queue
    unsent,            \* what the client sent and TCP has not delivered
    made,              \* history: how many packets there were
    accepted,          \* history: the bytes the ring accepted
    popped,            \* history: what GetDataOnBuf returned, in order, until torn
    torn,              \* history: part of a packet never came into the ring,
                       \* or a packet was popped before all of it came
    overrun,           \* history: more was popped than the ring had
    bundled,           \* history: a receive had bytes of two packets
    split              \* history: a receive was not whole packets

ringVars == <<SessionRecvBuf, BufHead, BufTail, BufDataSize>>
vars == <<ringVars, RecvPacketQueue, unsent, made, accepted, popped, torn,
          overrun, bundled, split>>

Init ==
    /\ SessionRecvBuf = [i \in Cells |-> Junk]
    /\ BufHead = 0 /\ BufTail = 0 /\ BufDataSize = 0
    /\ RecvPacketQueue = 0
    /\ unsent = <<>> /\ made = 0
    /\ accepted = <<>> /\ popped = <<>>
    /\ torn = FALSE /\ overrun = FALSE /\ bundled = FALSE /\ split = FALSE

-----------------------------------------------------------------------------
(* Where the tail is after data is written. *)
TailAfter(data) == (BufTail + Len(data)) % RingSize

(* Mutant: the part that wraps overwrites from the old head on. *)
WrapAtHead(data) ==
    [i \in Cells |-> LET k == IF i >= BufTail THEN i - BufTail
                                              ELSE RingSize - BufTail + i - BufHead
                     IN  IF k \in 0 .. Len(data) - 1 THEN data[k + 1]
                                                     ELSE SessionRecvBuf[i]]

(* The ring with data written from the tail on: in one piece, or the end    *)
(* and then the front.                                                      *)
Written(data) ==
    [i \in Cells |-> LET k == (i + RingSize - BufTail) % RingSize
                     IN  IF k < Len(data) THEN data[k + 1] ELSE SessionRecvBuf[i]]

Fits(data) == BufDataSize + Len(data) <= RingSize

(* SetDataOnBuf: all of the data, or none of it when it does not fit. *)
SetDataOnBuf(data) ==
    IF ~Fits(data)
    THEN UNCHANGED <<ringVars, accepted>>
    ELSE /\ SessionRecvBuf' = Written(data)
         /\ BufTail' = TailAfter(data)
         /\ BufDataSize' = BufDataSize + Len(data)
         /\ accepted' = accepted \o data
         /\ UNCHANGED BufHead

(* Mutant: the index is queued only for the first data in the ring. *)
PushRecvPacketOnce(data) ==
    /\ SetDataOnBuf(data)
    /\ RecvPacketQueue' = RecvPacketQueue + IF BufDataSize = 0 THEN 1 ELSE 0
    /\ UNCHANGED popped

(* PushRecvPacket: the index is queued if the data went in. *)
PushRecvPacket(data) ==
    /\ SetDataOnBuf(data)
    /\ RecvPacketQueue' = RecvPacketQueue
           + IF Fits(data) THEN 1 ELSE 0
    /\ UNCHANGED popped

(* The client sends a packet.  (Bound: once more was popped than there was, *)
(* nothing is sent, received or pushed any more.)                           *)
Send ==
    /\ ~overrun /\ made < MaxPackets
    /\ \E size \in Sizes :
         /\ Len(unsent) + size <= MaxUnsent
         /\ unsent' = unsent \o BytesOf(made + 1, size)
    /\ made' = made + 1
    /\ UNCHANGED <<ringVars, RecvPacketQueue, accepted, popped, torn, overrun,
                   bundled, split>>

(* Bytes from the first of a packet to the last of one. *)
Aligned(data) ==
    data[1].off = 0 /\ data[Len(data)].off + 1 = data[Len(data)].size

(* A receive completes with the next bytes of what was sent, as many as TCP *)
(* and the socket's buffer give it (WorkerThread, OnReceive).               *)
Receive ==
    ~overrun /\ \E n \in 1 .. Len(unsent) :
      /\ n <= SockBuf
      /\ PushRecvPacket(SubSeq(unsent, 1, n))
      /\ unsent' = SubSeq(unsent, n + 1, Len(unsent))
      /\ split' = (split \/ ~Aligned(SubSeq(unsent, 1, n)))
      /\ torn' = (torn \/ (/\ ~Fits(SubSeq(unsent, 1, n))
                           /\ ~Aligned(SubSeq(unsent, 1, n))))
      /\ bundled' = (bundled \/ unsent[1].packet # unsent[n].packet)
      /\ UNCHANGED <<made, overrun>>

(* PushSystemPacket, when a connection opens: a header alone, its index     *)
(* queued whether or not it went in.  What TCP had not delivered of the     *)
(* connection before is lost.                                               *)
PushSystemPacket ==
    /\ ~overrun /\ made < MaxPackets
    /\ SetDataOnBuf(BytesOf(made + 1, HeadSize))
    /\ RecvPacketQueue' = RecvPacketQueue + 1
    /\ made' = made + 1
    /\ unsent' = <<>>
    /\ torn' = (torn \/ (unsent # <<>> /\ unsent[1].off # 0))
    /\ UNCHANGED <<popped, overrun, bundled, split>>

-----------------------------------------------------------------------------
Cell(k) == SessionRecvBuf[(BufHead + k) % RingSize]

(* The size the header at BufHead tells: that of its packet, or any number  *)
(* when these bytes are not a header.  (Bound: not one beyond the ring,     *)
(* which would run over the ring and the packet's own buffer.)              *)
HeaderSizes ==
    IF \A k \in 0 .. HeadSize - 1 : Cell(k).off = k /\ Cell(k).packet = Cell(0).packet
    THEN {Cell(0).size}
    ELSE 0 .. RingSize

(* Mutant: one byte of the packet stays behind. *)
PopShort ==
    /\ RecvPacketQueue > 0
    /\ RecvPacketQueue' = RecvPacketQueue - 1
    /\ \/ /\ BufDataSize < HeadSize
          /\ popped' = IF torn THEN popped ELSE Append(popped, <<>>)
          /\ UNCHANGED <<ringVars, torn, overrun>>
       \/ /\ BufDataSize >= HeadSize
          /\ \E size \in HeaderSizes :
               /\ popped' = IF torn THEN popped
                            ELSE Append(popped, [k \in 1 .. size |-> Cell(k - 1)])
               /\ BufHead' = (BufHead + size) % RingSize
               /\ BufDataSize' = (BufDataSize + 1 + Width - size) % Width
               /\ torn' = (torn \/ BufDataSize < size)
               /\ overrun' = (overrun \/ BufDataSize < size)
          /\ UNCHANGED <<SessionRecvBuf, BufTail>>
    /\ UNCHANGED <<unsent, made, accepted, bundled, split>>

(* PopRecvPacket and GetDataOnBuf: nothing without a whole header, else as  *)
(* many bytes as the header tells, whether or not they have arrived.        *)
PopRecvPacket ==
    /\ RecvPacketQueue > 0
    /\ RecvPacketQueue' = RecvPacketQueue - 1
    /\ \/ /\ BufDataSize < HeadSize
          /\ popped' = IF torn THEN popped ELSE Append(popped, <<>>)
          /\ UNCHANGED <<ringVars, torn, overrun>>
       \/ /\ BufDataSize >= HeadSize
          /\ \E size \in HeaderSizes :
               /\ popped' = IF torn THEN popped
                            ELSE Append(popped, [k \in 1 .. size |-> Cell(k - 1)])
               /\ BufHead' = (BufHead + size) % RingSize
               /\ BufDataSize' = (BufDataSize + Width - size) % Width
               /\ torn' = (torn \/ BufDataSize < size)
               /\ overrun' = (overrun \/ BufDataSize < size)
          /\ UNCHANGED <<SessionRecvBuf, BufTail>>
    /\ UNCHANGED <<unsent, made, accepted, bundled, split>>

-----------------------------------------------------------------------------
Next == \/ Send \/ Receive
        \/ PushSystemPacket
        \/ PopRecvPacket

Spec == Init /\ [][Next]_vars

(* The packet threads take what is queued.  Of the client and of TCP nothing*)
(* is assumed.                                                              *)
FairSpec == Spec /\ WF_vars(PopRecvPacket)

-----------------------------------------------------------------------------
TypeOK ==
    /\ SessionRecvBuf \in [Cells -> Byte]
    /\ BufHead \in Cells /\ BufTail \in Cells /\ BufDataSize \in 0 .. Width - 1
    /\ RecvPacketQueue \in Nat
    /\ made \in 0 .. MaxPackets
    /\ unsent \in Seq(Byte) /\ accepted \in Seq(Byte) /\ popped \in Seq(Seq(Byte))
    /\ torn \in BOOLEAN /\ overrun \in BOOLEAN
    /\ bundled \in BOOLEAN /\ split \in BOOLEAN

(* The ring holds no more than fits, as ClientSession.h:25 has it, and that *)
(* is the last BufDataSize bytes it accepted, in order: no byte is          *)
(* overwritten, lost or repeated where data or a packet wraps, however TCP  *)
(* cut the stream and whatever the full ring refused.  This ends when more  *)
(* is taken out than it has (overrun), which GetDataOnBuf does not look at. *)
RingHoldsAccepted == ~overrun =>
    /\ BufDataSize <= RingSize
    /\ BufDataSize <= Len(accepted)
    /\ [k \in 1 .. BufDataSize |-> Cell(k - 1)]
           = SubSeq(accepted, Len(accepted) - BufDataSize + 1, Len(accepted))

(* What a packet thread gets is one packet, whole, and later than those     *)
(* before it, or the empty packet, until the stream is torn: a receive that *)
(* was not whole packets is refused, a connection ends within a packet, or  *)
(* a packet is popped before the rest of it came.  Nothing tears it as long *)
(* as every receive has whole packets, one or several.                      *)
WholePackets ==
    /\ torn => split
    /\ ~torn =>
         \A i \in DOMAIN popped : popped[i] # <<>> =>
           /\ popped[i] = BytesOf(popped[i][1].packet, popped[i][1].size)
           /\ \A j \in 1 .. i - 1 : popped[j] # <<>> =>
                  popped[j][1].packet < popped[i][1].packet

(* Until the stream is torn, the ring is a stream of packets that loses     *)
(* nothing it accepted: who pops gets the packet in front, all of it, or    *)
(* nothing as long as its header is not there.                              *)
Held == [k \in 1 .. BufDataSize |-> Cell(k - 1)]
Packets == INSTANCE PacketStream WITH
               stream <- IF torn THEN <<>> ELSE Held,
               popped <- IF torn THEN <<>> ELSE popped
PacketsSpec == Packets!Spec

(* Every packet the ring accepted reaches a packet thread, unless a receive *)
(* ever has bytes of two, which share one index so that the last waits for  *)
(* an index that is not its own, or a part of one.                          *)
Accepted(p) == \E k \in DOMAIN accepted : accepted[k].packet = p
Popped(p)   == \E i \in DOMAIN popped : popped[i] # <<>> /\ popped[i][1].packet = p
EveryPacketPopped ==
    \A p \in 1 .. MaxPackets : Accepted(p) ~> Popped(p) \/ bundled \/ split
=============================================================================
