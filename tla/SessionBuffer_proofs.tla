------------------------ MODULE SessionBuffer_proofs ------------------------
(***************************************************************************)
(* Proofs about SessionBuffer, for a ring, receives, headers and packets of*)
(* any size, and however TCP cuts what the client sends.                   *)
(***************************************************************************)
EXTENDS SessionBuffer, SequenceTheorems, TLAPS

(* Where the packet of the byte at i begins and ends in d. *)
Start(d, i) == i - d[i].off
End(d, i)   == Start(d, i) + d[i].size - 1

(* The bytes d are those of packets up to number top, each whole and in one *)
(* run, later ones later.                                                   *)
Shape(d, top) ==
    /\ \A i \in 1 .. Len(d) :
         /\ Start(d, i) >= 1 /\ i <= End(d, i) /\ End(d, i) <= Len(d)
         /\ d[i].size >= HeadSize /\ d[i].packet <= top
    /\ \A i, j \in 1 .. Len(d) :
         /\ j \in Start(d, i) .. End(d, i) =>
                /\ d[j].packet = d[i].packet /\ d[j].size = d[i].size
                /\ d[j].off = j - Start(d, i)
         /\ j > End(d, i) => d[i].packet < d[j].packet

(* No packet of d lies across the border behind the first x bytes. *)
Border(d, x) ==
    \A i \in 1 .. Len(d) : /\ i <= x => End(d, i) <= x
                           /\ i > x => Start(d, i) > x

(* What was popped are packets, in order, and before those of d. *)
Taken(got, d, top) ==
    \A i \in 1 .. Len(got) : got[i] # <<>> =>
        /\ got[i] = BytesOf(got[i][1].packet, got[i][1].size)
        /\ got[i][1].packet <= top
        /\ \A k \in 1 .. Len(d) : got[i][1].packet < d[k].packet
        /\ \A j \in 1 .. i - 1 : got[j] # <<>> =>
               got[j][1].packet < got[i][1].packet

(* What packet threads are still to get: what is in the ring and what TCP   *)
(* has not delivered.                                                       *)
Pending == Held \o unsent

(* Of the bytes a that the ring accepted it has the last b. *)
Oldest(a, b) == Len(a) - b + 1

(* The ring and its indices. *)
Holds ==
    /\ BufDataSize \in 0 .. RingSize /\ BufDataSize <= Len(accepted)
    /\ BufTail = (BufHead + BufDataSize) % RingSize
    /\ \A k \in 0 .. BufDataSize - 1 :
           Cell(k) = accepted[Oldest(accepted, BufDataSize) + k]

Inv ==
    /\ TypeOK
    /\ overrun => torn
    /\ torn => split
    /\ unsent # <<>> /\ unsent[1].off # 0 => split
    /\ ~overrun => Holds
    /\ ~torn => Shape(Pending, made) /\ Taken(popped, Pending, made)

USE SizesAssumption, BoundsAssumption
-----------------------------------------------------------------------------
(* The indices never pass the end of the ring by more than its size. *)
LEMMA ModSmall ==
    ASSUME NEW x \in Nat
    PROVE  /\ x < RingSize => x % RingSize = x
           /\ x >= RingSize /\ x < 2 * RingSize => x % RingSize = x - RingSize
BY SMTT(20)

(* An index brought back into the ring is a place of it. *)
LEMMA InCells ==
    ASSUME NEW x \in Nat
    PROVE  x % RingSize \in Cells
BY SMTT(20) DEF Cells

(* What was popped has a first byte, of some packet. *)
LEMMA GotFacts ==
    ASSUME NEW got \in Seq(Seq(Byte)), NEW i \in 1 .. Len(got), got[i] # <<>>
    PROVE  got[i] \in Seq(Byte) /\ got[i][1].packet \in Nat /\ got[i][1].size \in Nat
<1> PICK g \in Seq(Byte) : g = got[i]
    BY ElementOfSeq
<1>1. 1 \in 1 .. Len(g)
    BY EmptySeq
<1>2. g[1] \in Byte
    BY <1>1, ElementOfSeq
<1> QED
    BY <1>2 DEF Byte

(* The length of a sequence of bytes, and the numbers its bytes have. *)
LEMMA SeqFacts ==
    ASSUME NEW a \in Seq(Byte)
    PROVE  /\ Len(a) \in Nat /\ (a # <<>> <=> Len(a) > 0)
           /\ \A i \in 1 .. Len(a) : /\ a[i].packet \in Nat /\ a[i].off \in Nat
                                     /\ a[i].size \in Nat
<1>1. \A i \in 1 .. Len(a) : a[i] \in Byte
    BY ElementOfSeq
<1>2. Len(a) \in Nat /\ (a # <<>> <=> Len(a) > 0)
    BY EmptySeq, LenProperties
<1> QED
    BY <1>1, <1>2 DEF Byte

(* What is cut off a sequence of bytes is one. *)
LEMMA PartOfBytes ==
    ASSUME NEW s \in Seq(Byte), NEW m \in 1 .. Len(s) + 1, NEW n \in m - 1 .. Len(s)
    PROVE  /\ SubSeq(s, m, n) \in Seq(Byte) /\ Len(SubSeq(s, m, n)) = n - m + 1
           /\ \A k \in 1 .. n - m + 1 : SubSeq(s, m, n)[k] = s[m + k - 1]
<1>l. PICK l \in Nat : l = Len(s)
    BY SeqFacts
<1>1. m \in Int /\ n \in Int /\ (IF m <= n THEN n - m + 1 ELSE 0) = n - m + 1
    BY <1>l
<1>2. \A i \in m .. n : s[i] \in Byte
  <2>1. \A i \in m .. n : i \in 1 .. Len(s)
      BY <1>l
  <2> QED
      BY <2>1, ElementOfSeq
<1> QED
    BY <1>1, <1>2, SubSeqProperties

(* The bytes of a packet. *)
LEMMA PacketFacts ==
    ASSUME NEW p \in 0 .. MaxPackets, NEW size \in 0 .. RingSize
    PROVE  /\ BytesOf(p, size) \in Seq(Byte) /\ Len(BytesOf(p, size)) = size
           /\ \A k \in 1 .. size : /\ BytesOf(p, size)[k].packet = p
                                   /\ BytesOf(p, size)[k].off = k - 1
                                   /\ BytesOf(p, size)[k].size = size
<1>1. \A k \in 1 .. size : [packet |-> p, off |-> k - 1, size |-> size] \in Byte
    BY DEF Byte
<1>2. BytesOf(p, size) \in [1 .. size -> Byte]
    BY <1>1 DEF BytesOf
<1>3. BytesOf(p, size) \in Seq(Byte) /\ Len(BytesOf(p, size)) = size
  <2> HIDE DEF Byte
  <2> QED
      BY <1>2
<1> QED
    BY <1>3 DEF BytesOf

(* Where one stretch of bytes ends and the next begins. *)
LEMMA Joined ==
    ASSUME NEW s \in Seq(Byte), NEW t \in Seq(Byte), NEW m \in Nat, NEW n \in Nat,
           m = Len(s), n = Len(t)
    PROVE  /\ s \o t \in Seq(Byte) /\ Len(s \o t) = m + n
           /\ \A i \in 1 .. m : (s \o t)[i] = s[i]
           /\ \A i \in m + 1 .. m + n : (s \o t)[i] = t[i - m]
<1>1. /\ s \o t \in Seq(Byte) /\ Len(s \o t) = m + n
      /\ \A i \in 1 .. m + n : (s \o t)[i] = IF i <= m THEN s[i] ELSE t[i - m]
    BY ConcatProperties
<1>2. \A i \in 1 .. m : i \in 1 .. m + n /\ i <= m
    OBVIOUS
<1>3. \A i \in m + 1 .. m + n : i \in 1 .. m + n /\ ~(i <= m)
    OBVIOUS
<1> QED
    BY <1>1, <1>2, <1>3

(* The places a packet has in the stream are numbers. *)
LEMMA PlaceFacts ==
    ASSUME NEW d \in Seq(Byte), NEW i \in 1 .. Len(d)
    PROVE  /\ Start(d, i) \in Int /\ Start(d, i) <= i /\ End(d, i) \in Int
           /\ Start(d, i) = i - d[i].off /\ End(d, i) = Start(d, i) + d[i].size - 1
<1>1. PICK x \in Nat : x = d[i].off
    BY SeqFacts
<1>2. PICK y \in Nat : y = d[i].size
    BY SeqFacts
<1>3. Len(d) \in Nat /\ i \in Nat
    BY SeqFacts
<1>4. Start(d, i) = i - x
    BY <1>1 DEF Start
<1>5. End(d, i) = Start(d, i) + y - 1
    BY <1>2 DEF End
<1> QED
    BY <1>1, <1>2, <1>3, <1>4, <1>5

(* Before the first byte of a packet no packet is cut ... *)
LEMMA BorderBefore ==
    ASSUME NEW d \in Seq(Byte), NEW top, Shape(d, top), NEW x \in Nat,
           x + 1 <= Len(d), d[x + 1].off = 0
    PROVE  Border(d, x)
<1> SUFFICES ASSUME NEW i \in 1 .. Len(d)
             PROVE  /\ i <= x => End(d, i) <= x
                    /\ i > x => Start(d, i) > x
    BY DEF Border
<1>1. PICK s \in Int : s = Start(d, i) /\ s <= i
    BY PlaceFacts
<1>2. PICK e \in Int : e = End(d, i)
    BY PlaceFacts
<1>3. i <= e /\ i \in Nat
    BY <1>2, SeqFacts DEF Shape
<1>4. x + 1 \in 1 .. Len(d)
    BY SeqFacts
<1>5. x + 1 \in s .. e => d[x + 1].off = (x + 1) - s
    BY <1>1, <1>2, <1>4 DEF Shape
<1>6. x + 1 \in s .. e => x + 1 = s
    BY <1>1, <1>5
<1>7. i <= x => e <= x
    BY <1>1, <1>2, <1>3, <1>6
<1>8. i > x => s > x
    BY <1>1, <1>2, <1>3, <1>6
<1> QED
    BY <1>1, <1>2, <1>7, <1>8

(* ... and none behind the last byte of one. *)
LEMMA BorderBehind ==
    ASSUME NEW d \in Seq(Byte), NEW top, Shape(d, top), NEW x \in 1 .. Len(d),
           d[x].off + 1 = d[x].size
    PROVE  Border(d, x)
<1> SUFFICES ASSUME NEW i \in 1 .. Len(d)
             PROVE  /\ i <= x => End(d, i) <= x
                    /\ i > x => Start(d, i) > x
    BY DEF Border
<1>1. PICK s \in Int : s = Start(d, i) /\ s <= i
    BY PlaceFacts
<1>2. PICK e \in Int : e = End(d, i)
    BY PlaceFacts
<1>3. i <= e /\ i \in Nat /\ x \in Nat
    BY <1>2, SeqFacts DEF Shape
<1>z. PICK z \in Nat : z = d[i].size
    BY SeqFacts
<1>4. e = s + z - 1
    BY <1>1, <1>2, <1>z, PlaceFacts
<1>5. x \in s .. e => d[x].off = x - s /\ d[x].size = z
    BY <1>1, <1>2, <1>z DEF Shape
<1>6. x \in s .. e => x = e
    BY <1>1, <1>2, <1>3, <1>4, <1>5
<1>7. i <= x => e <= x
    BY <1>1, <1>2, <1>3, <1>6
<1>8. i > x => s > x
    BY <1>1, <1>2, <1>3, <1>6
<1> QED
    BY <1>1, <1>2, <1>7, <1>8

(* The borders at both ends. *)
LEMMA BorderEnds ==
    ASSUME NEW d \in Seq(Byte), NEW top, Shape(d, top)
    PROVE  Border(d, 0) /\ Border(d, Len(d))
<1>1. \A i \in 1 .. Len(d) : Start(d, i) >= 1 /\ End(d, i) <= Len(d) /\ i > 0 /\ i <= Len(d)
    BY SeqFacts DEF Shape
<1>2. \A i \in 1 .. Len(d) : Start(d, i) \in Int /\ i \in Int
    BY PlaceFacts
<1>3. Len(d) \in Int
    BY SeqFacts
<1> QED
    BY <1>1, <1>2, <1>3 DEF Border

(* The sequence e is d without the n bytes behind the first x. *)
Without(e, d, x, n) ==
    /\ Len(d) = Len(e) + n /\ x <= Len(e)
    /\ \A i \in 1 .. x : e[i] = d[i]
    /\ \A i \in x + 1 .. Len(e) : e[i] = d[i + n]

(* What is left of whole packets when whole packets are cut out, at the     *)
(* front (popped) or further back (refused), are whole packets.             *)
LEMMA ShapeWithout ==
    ASSUME NEW d \in Seq(Byte), NEW e \in Seq(Byte), NEW top, Shape(d, top),
           NEW x \in Nat, NEW n \in Nat, Without(e, d, x, n),
           Border(d, x), Border(d, x + n)
    PROVE  Shape(e, top)
<1>l. PICK l \in Nat : l = Len(e)
    BY SeqFacts
<1>0. /\ Len(d) = l + n /\ x <= l
      /\ \A i \in 1 .. x : e[i] = d[i]
      /\ \A i \in x + 1 .. l : e[i] = d[i + n]
    BY <1>l DEF Without
<1>1. \A i \in 1 .. l + n :
         /\ Start(d, i) >= 1 /\ i <= End(d, i) /\ End(d, i) <= l + n
         /\ d[i].size >= HeadSize /\ d[i].packet <= top
         /\ Start(d, i) \in Int /\ End(d, i) \in Int /\ Start(d, i) <= i
    BY <1>0, PlaceFacts DEF Shape
<1>2. \A i, j \in 1 .. l + n :
         /\ j \in Start(d, i) .. End(d, i) =>
                /\ d[j].packet = d[i].packet /\ d[j].size = d[i].size
                /\ d[j].off = j - Start(d, i)
         /\ j > End(d, i) => d[i].packet < d[j].packet
    BY <1>0 DEF Shape
<1>3. \A i \in 1 .. l + n : /\ i <= x => End(d, i) <= x
                            /\ i > x + n => Start(d, i) > x + n
    BY <1>0 DEF Border
<1>4. ASSUME NEW i \in 1 .. x
      PROVE  i \in 1 .. l /\ i \in 1 .. l + n /\ Start(e, i) = Start(d, i) /\ End(e, i) = End(d, i)
  <2>1. i \in 1 .. l /\ i \in 1 .. l + n /\ e[i] = d[i]
      BY <1>0
  <2> QED
      BY <2>1 DEF Start, End
<1>5. ASSUME NEW i \in x + 1 .. l
      PROVE  /\ i \in 1 .. l /\ i + n \in 1 .. l + n
             /\ Start(e, i) = Start(d, i + n) - n /\ End(e, i) = End(d, i + n) - n
  <2>1. i \in 1 .. l /\ i + n \in 1 .. l + n /\ e[i] = d[i + n]
      BY <1>0
  <2>o. PICK o \in Nat : o = d[i + n].off
      BY <1>0, <2>1, SeqFacts
  <2>z. PICK z \in Nat : z = d[i + n].size
      BY <1>0, <2>1, SeqFacts
  <2>2. Start(e, i) = i - o /\ Start(d, i + n) = (i + n) - o
      BY <2>1, <2>o DEF Start
  <2>3. End(e, i) = (i - o) + z - 1 /\ End(d, i + n) = ((i + n) - o) + z - 1
      BY <2>1, <2>2, <2>z DEF End
  <2> QED
      BY <2>1, <2>2, <2>3
<1>6. ASSUME NEW i \in 1 .. l
      PROVE  /\ Start(e, i) >= 1 /\ i <= End(e, i) /\ End(e, i) <= l
             /\ e[i].size >= HeadSize /\ e[i].packet <= top
  <2>1. CASE i <= x
    <3>1. i \in 1 .. x
        BY <2>1
    <3>2. i \in 1 .. l + n /\ Start(e, i) = Start(d, i) /\ End(e, i) = End(d, i) /\ e[i] = d[i]
        BY <1>0, <1>4, <3>1
    <3>3. End(d, i) <= x /\ x <= l /\ End(d, i) \in Int
        BY <1>0, <1>1, <1>3, <2>1, <3>2
    <3>4. End(d, i) <= l
        BY <3>3
    <3> QED
        BY <1>1, <3>2, <3>4
  <2>2. CASE i > x
    <3>1. i \in x + 1 .. l
        BY <2>2
    <3>2. /\ i + n \in 1 .. l + n /\ e[i] = d[i + n]
          /\ Start(e, i) = Start(d, i + n) - n /\ End(e, i) = End(d, i + n) - n
        BY <1>0, <1>5, <3>1
    <3>3. Start(d, i + n) > x + n /\ Start(d, i + n) \in Int /\ End(d, i + n) \in Int
          /\ i + n <= End(d, i + n) /\ End(d, i + n) <= l + n
        BY <1>1, <1>3, <2>2, <3>2
    <3>4. e[i].size >= HeadSize /\ e[i].packet <= top
        BY <1>1, <3>2
    <3>5. Start(e, i) >= 1 /\ i <= End(e, i) /\ End(e, i) <= l
        BY <3>2, <3>3
    <3> QED
        BY <3>4, <3>5
  <2> QED
      BY <2>1, <2>2
<1>7. ASSUME NEW i \in 1 .. l, NEW j \in 1 .. l
      PROVE  /\ j \in Start(e, i) .. End(e, i) =>
                    /\ e[j].packet = e[i].packet /\ e[j].size = e[i].size
                    /\ e[j].off = j - Start(e, i)
             /\ j > End(e, i) => e[i].packet < e[j].packet
  <2>1. CASE i <= x /\ j <= x
    <3>1. i \in 1 .. x /\ j \in 1 .. x
        BY <2>1
    <3>2. e[i] = d[i] /\ e[j] = d[j] /\ i \in 1 .. l + n /\ j \in 1 .. l + n
          /\ Start(e, i) = Start(d, i) /\ End(e, i) = End(d, i)
        BY <1>0, <1>4, <3>1
    <3> QED
        BY <1>2, <3>2
  <2>2. CASE i <= x /\ j > x
    <3>1. i \in 1 .. x /\ j \in x + 1 .. l
        BY <2>2
    <3>2. e[i] = d[i] /\ e[j] = d[j + n] /\ i \in 1 .. l + n /\ j + n \in 1 .. l + n
          /\ End(e, i) = End(d, i)
        BY <1>0, <1>4, <1>5, <3>1
    <3>3. End(d, i) \in Int /\ End(d, i) <= x
        BY <1>1, <1>3, <2>2, <3>2
    <3>4. j + n > End(d, i) /\ ~(j <= End(d, i))
        BY <2>2, <3>3
    <3>5. e[i].packet < e[j].packet
        BY <1>2, <3>2, <3>4
    <3>6. ~(j \in Start(e, i) .. End(e, i))
        BY <3>2, <3>4
    <3> QED
        BY <3>5, <3>6
  <2>3. CASE i > x /\ j <= x
    <3>1. i \in x + 1 .. l /\ j \in 1 .. x
        BY <2>3
    <3>2. i + n \in 1 .. l + n
          /\ Start(e, i) = Start(d, i + n) - n /\ End(e, i) = End(d, i + n) - n
        BY <1>5, <3>1
    <3>3. Start(d, i + n) > x + n /\ Start(d, i + n) \in Int /\ End(d, i + n) \in Int
          /\ i + n <= End(d, i + n)
        BY <1>1, <1>3, <2>3, <3>2
    <3>4. ~(j >= Start(e, i)) /\ ~(j > End(e, i))
        BY <2>3, <3>2, <3>3
    <3> QED
        BY <3>4
  <2>4. CASE i > x /\ j > x
    <3>1. i \in x + 1 .. l /\ j \in x + 1 .. l
        BY <2>4
    <3>2. e[i] = d[i + n] /\ e[j] = d[j + n] /\ i + n \in 1 .. l + n /\ j + n \in 1 .. l + n
          /\ Start(e, i) = Start(d, i + n) - n /\ End(e, i) = End(d, i + n) - n
        BY <1>0, <1>5, <3>1
    <3>s. PICK s \in Int : s = Start(d, i + n)
        BY <1>1, <3>2
    <3>e. PICK f \in Int : f = End(d, i + n)
        BY <1>1, <3>2
    <3>3. /\ j \in Start(e, i) .. End(e, i) => j + n \in s .. f
          /\ j > End(e, i) => j + n > f
          /\ (j + n) - s = j - Start(e, i)
      <4>1. Start(e, i) = s - n /\ End(e, i) = f - n
          BY <3>2, <3>s, <3>e
      <4>2. /\ j \in s - n .. f - n => j + n \in s .. f
            /\ j > f - n => j + n > f
            /\ (j + n) - s = j - (s - n)
          OBVIOUS
      <4> QED
          BY <4>1, <4>2
    <3>4. /\ j + n \in s .. f =>
               /\ d[j + n].packet = d[i + n].packet /\ d[j + n].size = d[i + n].size
               /\ d[j + n].off = (j + n) - s
          /\ j + n > f => d[i + n].packet < d[j + n].packet
        BY <1>2, <3>2, <3>s, <3>e
    <3> QED
        BY <3>2, <3>3, <3>4
  <2> QED
      BY <2>1, <2>2, <2>3, <2>4
<1> QED
    BY <1>6, <1>7, <1>l DEF Shape

(* What was popped is before it all the same. *)
LEMMA TakenWithout ==
    ASSUME NEW d \in Seq(Byte), NEW e \in Seq(Byte), NEW top, NEW got, Taken(got, d, top),
           NEW x \in Nat, NEW n \in Nat, Without(e, d, x, n)
    PROVE  Taken(got, e, top)
<1>l. PICK l \in Nat : l = Len(e)
    BY SeqFacts
<1>1. ASSUME NEW k \in 1 .. l
      PROVE  \E i \in 1 .. Len(d) : e[k] = d[i]
  <2>0. Len(d) = l + n /\ x <= l
      BY <1>l DEF Without
  <2>1. CASE k <= x
    <3>1. k \in 1 .. x /\ k \in 1 .. l + n
        BY <2>1
    <3> QED
        BY <2>0, <3>1 DEF Without
  <2>2. CASE k > x
    <3>1. k \in x + 1 .. l /\ k + n \in 1 .. l + n
        BY <2>2
    <3> QED
        BY <1>l, <2>0, <3>1 DEF Without
  <2> QED
      BY <2>1, <2>2
<1> QED
    BY <1>1, <1>l DEF Taken

(* A whole packet more behind whole packets: whole packets. *)
LEMMA ShapeLonger ==
    ASSUME NEW d \in Seq(Byte), NEW top \in Nat, Shape(d, top),
           NEW p \in 0 .. MaxPackets, top < p, NEW size \in HeadSize .. RingSize
    PROVE  d \o BytesOf(p, size) \in Seq(Byte) /\ Shape(d \o BytesOf(p, size), p)
<1>l. PICK l \in Nat : l = Len(d)
    BY SeqFacts
<1>r. PICK r : r = BytesOf(p, size)
    OBVIOUS
<1>1. /\ r \in Seq(Byte) /\ Len(r) = size /\ size \in Nat /\ size >= 1 /\ p \in Nat
      /\ \A k \in 1 .. size : r[k].packet = p /\ r[k].off = k - 1 /\ r[k].size = size
  <2>1. size \in 0 .. RingSize /\ size \in Nat /\ size >= 1 /\ p \in Nat
      OBVIOUS
  <2>2. /\ BytesOf(p, size) \in Seq(Byte) /\ Len(BytesOf(p, size)) = size
        /\ \A k \in 1 .. size : /\ BytesOf(p, size)[k].packet = p
                                /\ BytesOf(p, size)[k].off = k - 1
                                /\ BytesOf(p, size)[k].size = size
      BY <2>1, PacketFacts
  <2> QED
      BY <1>r, <2>1, <2>2
<1>e. PICK e \in Seq(Byte) : e = d \o r
    BY <1>1, ConcatProperties
<1>2. /\ Len(e) = l + size
      /\ \A i \in 1 .. l : e[i] = d[i]
      /\ \A i \in l + 1 .. l + size : e[i] = r[i - l]
  <2>1. r \in Seq(Byte) /\ size \in Nat /\ size = Len(r)
      BY <1>1
  <2>2. /\ Len(d \o r) = l + size
        /\ \A i \in 1 .. l : (d \o r)[i] = d[i]
        /\ \A i \in l + 1 .. l + size : (d \o r)[i] = r[i - l]
      BY <1>l, <2>1, Joined
  <2> QED
      BY <1>e, <2>2
<1>3. ASSUME NEW i \in l + 1 .. l + size
      PROVE  /\ e[i].packet = p /\ e[i].size = size /\ e[i].off = i - l - 1
             /\ Start(e, i) = l + 1 /\ End(e, i) = l + size
  <2>1. i - l \in 1 .. size
      BY <1>1
  <2>2. e[i].packet = p /\ e[i].size = size /\ e[i].off = i - l - 1
      BY <1>1, <1>2, <2>1
  <2>3. Start(e, i) = l + 1
      BY <2>2 DEF Start
  <2>4. End(e, i) = l + size
      BY <1>1, <2>2, <2>3 DEF End
  <2> QED
      BY <2>2, <2>3, <2>4
<1>4. ASSUME NEW i \in 1 .. l
      PROVE  /\ e[i] = d[i] /\ Start(e, i) = Start(d, i) /\ End(e, i) = End(d, i)
             /\ Start(d, i) >= 1 /\ i <= End(d, i) /\ End(d, i) <= l
             /\ d[i].size >= HeadSize /\ d[i].packet <= top /\ d[i].packet < p
             /\ Start(d, i) \in Int /\ End(d, i) \in Int
  <2>1. e[i] = d[i]
      BY <1>2
  <2>2. Start(e, i) = Start(d, i) /\ End(e, i) = End(d, i)
      BY <2>1 DEF Start, End
  <2>3. Start(d, i) \in Int /\ End(d, i) \in Int
      BY <1>l, PlaceFacts
  <2>4. /\ Start(d, i) >= 1 /\ i <= End(d, i) /\ End(d, i) <= l
        /\ d[i].size >= HeadSize /\ d[i].packet <= top
      BY <1>l DEF Shape
  <2>5. d[i].packet < p
    <3>1. d[i].packet \in Nat
        BY <1>l, SeqFacts
    <3> QED
        BY <1>1, <2>4, <3>1
  <2> QED
      BY <2>1, <2>2, <2>3, <2>4, <2>5
<1>5. ASSUME NEW i \in 1 .. l + size
      PROVE  /\ Start(e, i) >= 1 /\ i <= End(e, i) /\ End(e, i) <= l + size
             /\ e[i].size >= HeadSize /\ e[i].packet <= p
  <2>1. CASE i <= l
    <3>1. i \in 1 .. l
        BY <2>1
    <3>2. End(d, i) <= l + size
        BY <1>1, <1>4, <3>1
    <3>3. d[i].packet <= p
      <4>1. PICK q \in Nat : q = d[i].packet
          BY <1>l, <3>1, SeqFacts
      <4>2. q <= top /\ top < p
          BY <1>4, <3>1, <4>1
      <4> QED
          BY <4>1, <4>2
    <3> QED
        BY <1>4, <3>1, <3>2, <3>3
  <2>2. CASE i > l
    <3>1. i \in l + 1 .. l + size
        BY <2>2
    <3>2. Start(e, i) = l + 1 /\ End(e, i) = l + size /\ e[i].size = size /\ e[i].packet = p
        BY <1>3, <3>1
    <3>3. size >= HeadSize /\ p <= p /\ l + 1 >= 1
        BY <1>1
    <3> QED
        BY <3>2, <3>3
  <2> QED
      BY <2>1, <2>2
<1>6. ASSUME NEW i \in 1 .. l + size, NEW j \in 1 .. l + size
      PROVE  /\ j \in Start(e, i) .. End(e, i) =>
                    /\ e[j].packet = e[i].packet /\ e[j].size = e[i].size
                    /\ e[j].off = j - Start(e, i)
             /\ j > End(e, i) => e[i].packet < e[j].packet
  <2>1. CASE i <= l /\ j <= l
    <3>1. i \in 1 .. l /\ j \in 1 .. l
        BY <2>1
    <3>2. e[i] = d[i] /\ e[j] = d[j] /\ Start(e, i) = Start(d, i) /\ End(e, i) = End(d, i)
        BY <1>4, <3>1
    <3> QED
        BY <1>l, <3>1, <3>2 DEF Shape
  <2>2. CASE i <= l /\ j > l
    <3>1. i \in 1 .. l /\ j \in l + 1 .. l + size
        BY <2>2
    <3>2. End(e, i) <= l /\ End(e, i) \in Int /\ e[i].packet < p /\ e[j].packet = p
        BY <1>3, <1>4, <3>1
    <3>3. ~(j <= End(e, i))
        BY <2>2, <3>2
    <3> QED
        BY <3>2, <3>3
  <2>3. CASE i > l /\ j <= l
    <3>1. Start(e, i) = l + 1 /\ End(e, i) = l + size
      <4>1. i \in l + 1 .. l + size
          BY <2>3
      <4> QED
          BY <1>3, <4>1
    <3> QED
        BY <2>3, <3>1
  <2>4. CASE i > l /\ j > l
    <3>1. i \in l + 1 .. l + size /\ j \in l + 1 .. l + size
        BY <2>4
    <3>2. /\ Start(e, i) = l + 1 /\ End(e, i) = l + size /\ e[i].packet = p /\ e[i].size = size
          /\ e[j].packet = p /\ e[j].size = size /\ e[j].off = j - l - 1
        BY <1>3, <3>1
    <3> QED
        BY <3>1, <3>2
  <2> QED
      BY <2>1, <2>2, <2>3, <2>4
<1>7. Shape(e, p)
    BY <1>2, <1>5, <1>6 DEF Shape
<1> QED
    BY <1>7, <1>e, <1>r

(* What was popped is before it, too. *)
LEMMA TakenLonger ==
    ASSUME NEW d \in Seq(Byte), NEW top \in Nat, NEW got \in Seq(Seq(Byte)),
           Taken(got, d, top),
           NEW p \in 0 .. MaxPackets, top < p, NEW size \in HeadSize .. RingSize
    PROVE  Taken(got, d \o BytesOf(p, size), p)
<1>l. PICK l \in Nat : l = Len(d)
    BY SeqFacts
<1>e. PICK e : e = d \o BytesOf(p, size)
    OBVIOUS
<1>1. /\ Len(e) = l + size /\ size \in Nat
      /\ \A i \in 1 .. l : e[i] = d[i]
      /\ \A i \in l + 1 .. l + size : e[i].packet = p
  <2>1. size \in 0 .. RingSize /\ size \in Nat
      OBVIOUS
  <2>2. /\ BytesOf(p, size) \in Seq(Byte) /\ Len(BytesOf(p, size)) = size
        /\ \A k \in 1 .. size : BytesOf(p, size)[k].packet = p
      BY <2>1, PacketFacts
  <2>3. /\ Len(e) = l + size
        /\ \A i \in 1 .. l : e[i] = d[i]
        /\ \A i \in l + 1 .. l + size : e[i] = BytesOf(p, size)[i - l]
    <3> PICK r \in Seq(Byte) : r = BytesOf(p, size)
        BY <2>2
    <3>n. PICK n \in Nat : n = size
        BY <2>1
    <3>1. n = Len(r)
        BY <2>2, <3>n
    <3>2. /\ Len(d \o r) = l + n
          /\ \A i \in 1 .. l : (d \o r)[i] = d[i]
          /\ \A i \in l + 1 .. l + n : (d \o r)[i] = r[i - l]
        BY <1>l, <3>1, Joined
    <3> QED
        BY <1>e, <3>2, <3>n
  <2>4. \A i \in l + 1 .. l + size : i - l \in 1 .. size
      OBVIOUS
  <2> QED
      BY <2>1, <2>2, <2>3, <2>4
<1>2. ASSUME NEW i \in 1 .. Len(got), got[i] # <<>>
      PROVE  /\ got[i][1].packet <= p
             /\ \A k \in 1 .. l + size : got[i][1].packet < e[k].packet
  <2>q. PICK q \in Nat : q = got[i][1].packet
      BY <1>2, GotFacts
  <2>1. q <= top /\ \A k \in 1 .. l : q < d[k].packet
      BY <1>2, <1>l, <2>q DEF Taken
  <2>2. q < p
      BY <2>1
  <2>3. ASSUME NEW k \in 1 .. l + size PROVE q < e[k].packet
    <3>1. CASE k <= l
      <4>1. k \in 1 .. l
          BY <3>1
      <4> QED
          BY <1>1, <2>1, <4>1
    <3>2. CASE k > l
      <4>1. k \in l + 1 .. l + size
          BY <3>2
      <4> QED
          BY <1>1, <2>2, <4>1
    <3> QED
        BY <3>1, <3>2
  <2> QED
      BY <2>2, <2>3, <2>q
<1> QED
    BY <1>1, <1>2, <1>e DEF Taken

(* The first n bytes of some, and the others. *)
LEMMA Front ==
    ASSUME NEW s \in Seq(Byte), NEW n \in 0 .. Len(s)
    PROVE  /\ SubSeq(s, 1, n) \in Seq(Byte) /\ Len(SubSeq(s, 1, n)) = n
           /\ \A k \in 1 .. n : SubSeq(s, 1, n)[k] = s[k]
<1>1. 1 \in 1 .. Len(s) + 1 /\ n \in 1 - 1 .. Len(s) /\ n - 1 + 1 = n
    BY SeqFacts
<1>2. /\ SubSeq(s, 1, n) \in Seq(Byte) /\ Len(SubSeq(s, 1, n)) = n - 1 + 1
      /\ \A k \in 1 .. n - 1 + 1 : SubSeq(s, 1, n)[k] = s[1 + k - 1]
    BY <1>1, PartOfBytes
<1>3. \A k \in 1 .. n : 1 + k - 1 = k
    OBVIOUS
<1> QED
    BY <1>1, <1>2, <1>3

LEMMA Rest ==
    ASSUME NEW s \in Seq(Byte), NEW l \in Nat, l = Len(s), NEW n \in 0 .. l
    PROVE  /\ SubSeq(s, n + 1, l) \in Seq(Byte) /\ Len(SubSeq(s, n + 1, l)) = l - n
           /\ \A k \in 1 .. l - n : SubSeq(s, n + 1, l)[k] = s[n + k]
<1>1. n + 1 \in 1 .. l + 1 /\ l \in (n + 1) - 1 .. l /\ l - (n + 1) + 1 = l - n
    OBVIOUS
<1>2. /\ SubSeq(s, n + 1, l) \in Seq(Byte)
      /\ Len(SubSeq(s, n + 1, l)) = l - (n + 1) + 1
      /\ \A k \in 1 .. l - (n + 1) + 1 : SubSeq(s, n + 1, l)[k] = s[(n + 1) + k - 1]
    BY <1>1, PartOfBytes
<1>3. \A k \in 1 .. l - n : (n + 1) + k - 1 = n + k
    OBVIOUS
<1> QED
    BY <1>1, <1>2, <1>3

(* A receive moves bytes from what TCP has to the ring: what is pending     *)
(* stays.                                                                   *)
LEMMA MovedBorder ==
    ASSUME NEW x \in Seq(Byte), NEW u \in Seq(Byte), NEW n \in 1 .. Len(u)
    PROVE  (x \o SubSeq(u, 1, n)) \o SubSeq(u, n + 1, Len(u)) = x \o u
<1>b. PICK b \in Nat : b = Len(x)
    BY SeqFacts
<1>m. PICK m \in Nat : m = Len(u)
    BY SeqFacts
<1>f. PICK f \in Seq(Byte) : f = SubSeq(u, 1, n) /\ Len(f) = n /\ \A k \in 1 .. n : f[k] = u[k]
  <2>1. n \in 0 .. Len(u)
      BY SeqFacts
  <2>2. /\ SubSeq(u, 1, n) \in Seq(Byte) /\ Len(SubSeq(u, 1, n)) = n
        /\ \A k \in 1 .. n : SubSeq(u, 1, n)[k] = u[k]
      BY <2>1, Front
  <2> QED
      BY <2>2
<1>r. PICK r \in Seq(Byte) : r = SubSeq(u, n + 1, m) /\ Len(r) = m - n
                             /\ \A k \in 1 .. m - n : r[k] = u[n + k]
  <2>1. n \in 0 .. m
      BY <1>m
  <2>2. /\ SubSeq(u, n + 1, m) \in Seq(Byte) /\ Len(SubSeq(u, n + 1, m)) = m - n
        /\ \A k \in 1 .. m - n : SubSeq(u, n + 1, m)[k] = u[n + k]
      BY <1>m, <2>1, Rest
  <2> QED
      BY <2>2
<1>y. PICK y \in Seq(Byte) : y = x \o f
    BY ConcatProperties
<1>1. n \in Nat /\ m - n \in Nat /\ b + n \in Nat /\ n <= m
    BY <1>m
<1>2. /\ Len(y) = b + n
      /\ \A i \in 1 .. b : y[i] = x[i]
      /\ \A i \in b + 1 .. b + n : y[i] = f[i - b]
  <2>1. n = Len(f)
      BY <1>f
  <2> QED
      BY <1>1, <1>b, <1>y, <2>1, Joined
<1>k. PICK k \in Nat : k = m - n
    BY <1>1
<1>c. PICK c \in Nat : c = b + n
    BY <1>1
<1>3. /\ y \o r \in Seq(Byte) /\ Len(y \o r) = c + k
      /\ \A i \in 1 .. c : (y \o r)[i] = y[i]
      /\ \A i \in c + 1 .. c + k : (y \o r)[i] = r[i - c]
  <2>1. k = Len(r) /\ c = Len(y)
      BY <1>2, <1>c, <1>k, <1>r
  <2> QED
      BY <2>1, Joined
<1>4. /\ x \o u \in Seq(Byte) /\ Len(x \o u) = b + m
      /\ \A i \in 1 .. b : (x \o u)[i] = x[i]
      /\ \A i \in b + 1 .. b + m : (x \o u)[i] = u[i - b]
    BY <1>b, <1>m, Joined
<1>5. c + k = b + m
    BY <1>c, <1>k
<1>6. ASSUME NEW i \in 1 .. b + m PROVE (y \o r)[i] = (x \o u)[i]
  <2>1. CASE i <= b
    <3>1. i \in 1 .. b /\ i \in 1 .. c
        BY <1>c, <2>1
    <3> QED
        BY <1>2, <1>3, <1>4, <3>1
  <2>2. CASE i > b /\ i <= c
    <3>1. i \in b + 1 .. b + n /\ i \in 1 .. c /\ i \in b + 1 .. b + m /\ i - b \in 1 .. n
        BY <1>c, <2>2
    <3> QED
        BY <1>2, <1>3, <1>4, <1>f, <3>1
  <2>3. CASE i > c
    <3>1. i \in c + 1 .. c + k /\ i \in b + 1 .. b + m /\ i - c \in 1 .. m - n
          /\ n + (i - c) = i - b
        BY <1>1, <1>5, <1>c, <1>k, <2>3
    <3>2. (y \o r)[i] = u[n + (i - c)]
        BY <1>3, <1>r, <3>1
    <3> QED
        BY <1>4, <3>1, <3>2
  <2>4. i <= b \/ (i > b /\ i <= c) \/ i > c
      OBVIOUS
  <2> QED
      BY <2>1, <2>2, <2>3, <2>4, Zenon
<1>7. y \o r = x \o u
    BY <1>3, <1>4, <1>5, <1>6, SeqEqual
<1> QED
    BY <1>7, <1>f, <1>m, <1>r, <1>y

(* A packet that the client sends comes last of what is pending. *)
LEMMA Joined3 ==
    ASSUME NEW x \in Seq(Byte), NEW u \in Seq(Byte), NEW v \in Seq(Byte)
    PROVE  x \o (u \o v) = (x \o u) \o v
<1>b. PICK b \in Nat : b = Len(x)
    BY SeqFacts
<1>m. PICK m \in Nat : m = Len(u)
    BY SeqFacts
<1>n. PICK n \in Nat : n = Len(v)
    BY SeqFacts
<1>y. PICK y \in Seq(Byte) : y = x \o u
    BY ConcatProperties
<1>z. PICK z \in Seq(Byte) : z = u \o v
    BY ConcatProperties
<1>1. /\ Len(y) = b + m
      /\ \A i \in 1 .. b : y[i] = x[i]
      /\ \A i \in b + 1 .. b + m : y[i] = u[i - b]
    BY <1>b, <1>m, <1>y, Joined
<1>2. /\ Len(z) = m + n
      /\ \A i \in 1 .. m : z[i] = u[i]
      /\ \A i \in m + 1 .. m + n : z[i] = v[i - m]
    BY <1>m, <1>n, <1>z, Joined
<1>c. PICK c \in Nat : c = b + m
    OBVIOUS
<1>k. PICK k \in Nat : k = m + n
    OBVIOUS
<1>3. /\ y \o v \in Seq(Byte) /\ Len(y \o v) = c + n
      /\ \A i \in 1 .. c : (y \o v)[i] = y[i]
      /\ \A i \in c + 1 .. c + n : (y \o v)[i] = v[i - c]
  <2>1. c = Len(y)
      BY <1>1, <1>c
  <2> QED
      BY <1>n, <2>1, Joined
<1>4. /\ x \o z \in Seq(Byte) /\ Len(x \o z) = b + k
      /\ \A i \in 1 .. b : (x \o z)[i] = x[i]
      /\ \A i \in b + 1 .. b + k : (x \o z)[i] = z[i - b]
  <2>1. k = Len(z)
      BY <1>2, <1>k
  <2> QED
      BY <1>b, <2>1, Joined
<1>5. ASSUME NEW i \in 1 .. c + n PROVE (x \o z)[i] = (y \o v)[i]
  <2>1. CASE i <= b
    <3>1. i \in 1 .. b /\ i \in 1 .. c
        BY <1>c, <2>1
    <3> QED
        BY <1>1, <1>3, <1>4, <3>1
  <2>2. CASE i > b /\ i <= c
    <3>1. i \in b + 1 .. b + m /\ i \in 1 .. c /\ i \in b + 1 .. b + k /\ i - b \in 1 .. m
        BY <1>c, <1>k, <2>2
    <3> QED
        BY <1>1, <1>2, <1>3, <1>4, <3>1
  <2>3. CASE i > c
    <3>1. i \in c + 1 .. c + n /\ i \in b + 1 .. b + k /\ i - b \in m + 1 .. m + n
          /\ (i - b) - m = i - c
        BY <1>c, <1>k, <2>3
    <3>2. (x \o z)[i] = z[i - b] /\ z[i - b] = v[(i - b) - m]
        BY <1>2, <1>4, <3>1
    <3>3. (y \o v)[i] = v[i - c]
        BY <1>3, <3>1
    <3> QED
        BY <3>1, <3>2, <3>3
  <2>4. i <= b \/ (i > b /\ i <= c) \/ i > c
      OBVIOUS
  <2> QED
      BY <2>1, <2>2, <2>3, <2>4, Zenon
<1>6. c + n = b + k
    BY <1>c, <1>k
<1>7. x \o z = y \o v
    BY <1>3, <1>4, <1>5, <1>6, SeqEqual
<1> QED
    BY <1>7, <1>y, <1>z

(* Going on from a place of the ring, it does not matter where it wrapped. *)
LEMMA ModSum ==
    ASSUME NEW x \in Nat, NEW k \in Nat, x + k < 2 * RingSize
    PROVE  ((x % RingSize) + k) % RingSize = (x + k) % RingSize
<1>1. CASE x < RingSize
  <2>1. x % RingSize = x
      BY <1>1, ModSmall
  <2> QED
      BY <2>1
<1>2. CASE x >= RingSize
  <2>1. x % RingSize = x - RingSize
      BY <1>2, ModSmall
  <2>2. ((x - RingSize) + k) % RingSize = (x - RingSize) + k
    <3>1. PICK y \in Nat : y = (x - RingSize) + k
        BY <1>2
    <3>2. y < RingSize
        BY <3>1
    <3>3. y % RingSize = y
        BY <3>2, ModSmall
    <3> QED
        BY <3>1, <3>3
  <2>3. (x + k) % RingSize = (x + k) - RingSize
    <3>1. PICK y \in Nat : y = x + k
        OBVIOUS
    <3>2. y >= RingSize /\ y < 2 * RingSize
        BY <1>2, <3>1
    <3>3. y % RingSize = y - RingSize
        BY <3>2, ModSmall
    <3> QED
        BY <3>1, <3>3
  <2> QED
      BY <1>2, <2>1, <2>2, <2>3
<1> QED
    BY <1>1, <1>2

(* Where the k-th byte behind the head h is. *)
Place(h, k) == (h + k) % RingSize

(* The place k behind the head h, wrapped at most once. *)
LEMMA PlaceIs ==
    ASSUME NEW h \in Cells, NEW k \in 0 .. RingSize
    PROVE  /\ h + k < RingSize => Place(h, k) = h + k
           /\ h + k >= RingSize => Place(h, k) = h + k - RingSize
<1>1. PICK y \in Nat : y = h + k
    BY DEF Cells
<1>2. y < 2 * RingSize
    BY <1>1 DEF Cells
<1>3. PICK z : z = y % RingSize
    OBVIOUS
<1>4. /\ y < RingSize => z = y
      /\ y >= RingSize => z = y - RingSize
    BY <1>2, <1>3, ModSmall
<1>5. Place(h, k) = z
    BY <1>1, <1>3 DEF Place
<1> QED
    BY <1>1, <1>4, <1>5 DEF Cells

(* How far the place of the k-th byte is behind the tail. *)
LEMMA FromTail ==
    ASSUME NEW h \in Cells, NEW b \in 0 .. RingSize, NEW k \in 0 .. RingSize - 1,
           NEW t, t = Place(h, b), NEW i, i = Place(h, k)
    PROVE  /\ k < b => (i + RingSize - t) % RingSize = k + RingSize - b
           /\ k >= b => (i + RingSize - t) % RingSize = k - b
<1>1. /\ h + b < RingSize => t = h + b
      /\ h + b >= RingSize => t = h + b - RingSize
    BY PlaceIs
<1>2. /\ h + k < RingSize => i = h + k
      /\ h + k >= RingSize => i = h + k - RingSize
    BY PlaceIs
<1>3. PICK y \in Int : y = i + RingSize - t
    BY <1>1, <1>2 DEF Cells
<1>4. y \in Nat /\ y < 2 * RingSize
    BY <1>1, <1>2, <1>3 DEF Cells
<1>5. /\ k < b => IF y < RingSize THEN y = k + RingSize - b
                                  ELSE y - RingSize = k + RingSize - b
      /\ k >= b => IF y < RingSize THEN y = k - b ELSE y - RingSize = k - b
    BY <1>1, <1>2, <1>3 DEF Cells
<1>6. /\ y < RingSize => y % RingSize = y
      /\ y >= RingSize => y % RingSize = y - RingSize
    BY <1>4, ModSmall
<1> QED
    BY <1>3, <1>4, <1>5, <1>6

(* SetDataOnBuf keeps the types ... *)
LEMMA SetDataType ==
    ASSUME TypeOK, NEW data \in Seq(Byte), SetDataOnBuf(data)
    PROVE  /\ SessionRecvBuf' \in [Cells -> Byte]
           /\ BufHead' \in Cells /\ BufTail' \in Cells /\ BufDataSize' \in 0 .. Width - 1
           /\ accepted' \in Seq(Byte)
<1>1. CASE ~Fits(data)
    BY <1>1 DEF SetDataOnBuf, TypeOK, ringVars
<1>2. CASE Fits(data)
  <2>1. /\ SessionRecvBuf' = Written(data) /\ BufTail' = TailAfter(data)
        /\ BufDataSize' = BufDataSize + Len(data) /\ accepted' = accepted \o data
        /\ BufHead' = BufHead
      BY <1>2 DEF SetDataOnBuf
  <2>2. Len(data) \in Nat /\ BufTail \in Cells
      BY SeqFacts DEF TypeOK
  <2>3. BufTail' \in Cells
    <3>1. PICK y \in Nat : y = BufTail + Len(data)
        BY <2>2 DEF Cells
    <3> QED
        BY <2>1, <3>1, InCells DEF TailAfter
  <2>4. BufDataSize' \in 0 .. Width - 1
      BY <1>2, <2>1, <2>2 DEF Fits, TypeOK
  <2>5. Written(data) \in [Cells -> Byte]
    <3> SUFFICES ASSUME NEW i \in Cells
                 PROVE  LET k == (i + RingSize - BufTail) % RingSize
                        IN  (IF k < Len(data) THEN data[k + 1] ELSE SessionRecvBuf[i]) \in Byte
        BY DEF Written
    <3>1. PICK y \in Nat : y = i + RingSize - BufTail
        BY <2>2 DEF Cells
    <3>2. PICK k \in Nat : k = (i + RingSize - BufTail) % RingSize
        BY <3>1, InCells DEF Cells
    <3>3. k < Len(data) => data[k + 1] \in Byte
      <4>1. k < Len(data) => k + 1 \in 1 .. Len(data)
          BY <2>2
      <4> QED
          BY <4>1, ElementOfSeq
    <3>4. SessionRecvBuf[i] \in Byte
        BY DEF TypeOK
    <3> QED
        BY <3>2, <3>3, <3>4
  <2>6. accepted' \in Seq(Byte)
      BY <2>1, ConcatProperties DEF TypeOK
  <2> QED
      BY <2>1, <2>3, <2>4, <2>5, <2>6 DEF TypeOK
<1> QED
    BY <1>1, <1>2

(* ... and appends to what the ring holds. *)
LEMMA RingWritten ==
    ASSUME TypeOK, Holds, NEW data \in Seq(Byte), Fits(data), SetDataOnBuf(data)
    PROVE  /\ Holds'
           /\ accepted' = accepted \o data /\ BufDataSize' = BufDataSize + Len(data)
<1>1. /\ SessionRecvBuf' = Written(data) /\ BufTail' = TailAfter(data)
      /\ BufDataSize' = BufDataSize + Len(data) /\ accepted' = accepted \o data
      /\ BufHead' = BufHead
    BY DEF SetDataOnBuf
<1>n. PICK n \in Nat : n = Len(data)
    BY SeqFacts
<1>l. PICK l \in Nat : l = Len(accepted)
    BY SeqFacts DEF TypeOK
<1>b. PICK b \in Nat : b = BufDataSize
    BY DEF Holds
<1>2. b + n <= RingSize /\ b <= l
    BY <1>n, <1>l, <1>b DEF Holds, Fits
<1>3. BufHead \in Cells /\ BufTail = (BufHead + b) % RingSize
    BY <1>b DEF Holds, TypeOK
<1>4. /\ Len(accepted') = l + n
      /\ \A i \in 1 .. l : accepted'[i] = accepted[i]
      /\ \A i \in 1 .. n : accepted'[l + i] = data[i]
  <2>1. /\ Len(accepted \o data) = l + n
        /\ \A i \in 1 .. l + n : (accepted \o data)[i] =
               IF i <= l THEN accepted[i] ELSE data[i - l]
      BY <1>l, <1>n, ConcatProperties DEF TypeOK
  <2>2. \A i \in 1 .. l : i \in 1 .. l + n /\ i <= l
      OBVIOUS
  <2>3. \A i \in 1 .. n : l + i \in 1 .. l + n /\ ~(l + i <= l) /\ (l + i) - l = i
      OBVIOUS
  <2> QED
      BY <1>1, <2>1, <2>2, <2>3
<1>5. BufDataSize' = b + n
    BY <1>1, <1>b, <1>n
<1>6. Oldest(accepted, BufDataSize) = l - b + 1
      /\ Oldest(accepted', BufDataSize') = l - b + 1
  <2>1. (l + n) - (b + n) + 1 = l - b + 1
      OBVIOUS
  <2> QED
      BY <1>4, <1>5, <1>l, <1>b, <2>1 DEF Oldest
<1>7. BufTail' = (BufHead' + BufDataSize') % RingSize
  <2>1. BufHead + b \in Nat /\ (BufHead + b) + n < 2 * RingSize
        /\ (BufHead + b) + n = BufHead + (b + n)
      BY <1>2, <1>3 DEF Cells
  <2>2. (((BufHead + b) % RingSize) + n) % RingSize = ((BufHead + b) + n) % RingSize
      BY <2>1, ModSum
  <2> QED
      BY <1>1, <1>3, <1>5, <1>n, <2>1, <2>2 DEF TailAfter
<1>8. ASSUME NEW k \in 0 .. (b + n) - 1
      PROVE  Cell(k)' = accepted'[(l - b + 1) + k]
  <2>i. PICK i \in Cells : i = (BufHead + k) % RingSize
    <3>1. PICK y \in Nat : y = BufHead + k
        BY <1>3 DEF Cells
    <3> QED
        BY <3>1, InCells
  <2>x. PICK x : x = (i + RingSize - BufTail) % RingSize
      OBVIOUS
  <2>1. (k < b => x = k + RingSize - b) /\ (k >= b => x = k - b)
    <3>1. b \in 0 .. RingSize /\ k \in 0 .. RingSize - 1
        BY <1>2
    <3>2. BufTail = Place(BufHead, b) /\ i = Place(BufHead, k)
        BY <1>3, <2>i DEF Place
    <3> QED
      <4>1. BufHead \in Cells
          BY <1>3
      <4>2. /\ k < b => (i + RingSize - BufTail) % RingSize = k + RingSize - b
            /\ k >= b => (i + RingSize - BufTail) % RingSize = k - b
          BY <3>1, <3>2, <4>1, FromTail
      <4> QED
          BY <2>x, <4>2
  <2>2. Cell(k)' = IF x < n THEN data[x + 1] ELSE SessionRecvBuf[i]
      BY <1>1, <1>n, <2>i, <2>x DEF Cell, Written
  <2>3. CASE k < b
    <3>1. ~(x < n) /\ k \in 0 .. b - 1 /\ (l - b + 1) + k \in 1 .. l
        BY <1>2, <2>1, <2>3
    <3>2. Cell(k) = accepted[(l - b + 1) + k]
        BY <1>6, <1>b, <3>1 DEF Holds
    <3> QED
        BY <1>4, <2>2, <2>i, <3>1, <3>2 DEF Cell
  <2>4. CASE k >= b
    <3>1. x < n /\ x + 1 \in 1 .. n /\ (l - b + 1) + k = l + (x + 1)
        BY <2>1, <2>4
    <3> QED
        BY <1>4, <2>2, <3>1
  <2> QED
      BY <2>3, <2>4
<1>9. BufDataSize' \in 0 .. RingSize /\ BufDataSize' <= Len(accepted')
    BY <1>2, <1>4, <1>5
<1> QED
    BY <1>1, <1>5, <1>6, <1>7, <1>8, <1>9 DEF Holds

(* Taking out what has come leaves the rest. *)
LEMMA RingPopped ==
    ASSUME TypeOK, Holds, NEW size \in 0 .. BufDataSize,
           BufHead' = (BufHead + size) % RingSize, BufDataSize' = BufDataSize - size,
           UNCHANGED <<SessionRecvBuf, BufTail, accepted>>
    PROVE  Holds'
<1>l. PICK l \in Nat : l = Len(accepted)
    BY SeqFacts DEF TypeOK
<1>b. PICK b \in Nat : b = BufDataSize
    BY DEF Holds
<1>1. BufHead \in Cells /\ BufTail = (BufHead + b) % RingSize /\ b <= RingSize /\ b <= l
      /\ size \in 0 .. b
    BY <1>b, <1>l DEF Holds, TypeOK
<1>2. BufDataSize' = b - size /\ b - size \in 0 .. RingSize /\ b - size <= l
    BY <1>1, <1>b
<1>3. \A k \in 0 .. b - size :
          (BufHead' + k) % RingSize = (BufHead + (size + k)) % RingSize
  <2> TAKE k \in 0 .. b - size
  <2>1. BufHead + size \in Nat /\ k \in Nat /\ (BufHead + size) + k < 2 * RingSize
        /\ (BufHead + size) + k = BufHead + (size + k)
      BY <1>1 DEF Cells
  <2>2. (((BufHead + size) % RingSize) + k) % RingSize = ((BufHead + size) + k) % RingSize
      BY <2>1, ModSum
  <2> QED
      BY <2>1, <2>2
<1>4. BufTail' = (BufHead' + BufDataSize') % RingSize
  <2>1. b - size \in 0 .. b - size /\ size + (b - size) = b
      BY <1>1
  <2> QED
      BY <1>1, <1>2, <1>3, <2>1
<1>5. Oldest(accepted, BufDataSize) = l - b + 1
      /\ Oldest(accepted', BufDataSize') = (l - b + 1) + size
  <2>1. l - (b - size) + 1 = (l - b + 1) + size
      BY <1>1
  <2> QED
      BY <1>2, <1>b, <1>l, <2>1 DEF Oldest
<1>6. ASSUME NEW k \in 0 .. (b - size) - 1
      PROVE  Cell(k)' = accepted'[((l - b + 1) + size) + k]
  <2>1. k \in 0 .. b - size /\ size + k \in 0 .. b - 1
        /\ ((l - b + 1) + size) + k = (l - b + 1) + (size + k)
      BY <1>1
  <2>2. Cell(k)' = Cell(size + k)
      BY <1>3, <2>1 DEF Cell
  <2>3. Cell(size + k) = accepted[(l - b + 1) + (size + k)]
      BY <1>5, <1>b, <2>1 DEF Holds
  <2> QED
      BY <2>1, <2>2, <2>3
<1> QED
    BY <1>2, <1>4, <1>5, <1>6, <1>l DEF Holds

-----------------------------------------------------------------------------
(* The ring as a sequence: its bytes are the last that were accepted. *)
LEMMA HeldFacts ==
    TypeOK /\ Holds =>
        /\ BufDataSize \in Nat /\ Held \in Seq(Byte) /\ Len(Held) = BufDataSize
        /\ Len(accepted) \in Nat /\ BufDataSize <= Len(accepted)
        /\ \A k \in 1 .. BufDataSize : Held[k] = accepted[Len(accepted) - BufDataSize + k]
<1> SUFFICES ASSUME TypeOK, Holds
             PROVE  /\ BufDataSize \in Nat /\ Held \in Seq(Byte) /\ Len(Held) = BufDataSize
                    /\ Len(accepted) \in Nat /\ BufDataSize <= Len(accepted)
                    /\ \A k \in 1 .. BufDataSize :
                           Held[k] = accepted[Len(accepted) - BufDataSize + k]
    OBVIOUS
<1>b. PICK b \in Nat : b = BufDataSize
    BY DEF Holds
<1>l. PICK l \in Nat : l = Len(accepted)
    BY SeqFacts DEF TypeOK
<1>2. b <= l /\ \A k \in 0 .. b - 1 : Cell(k) = accepted[(l - b + 1) + k]
    BY <1>b, <1>l DEF Holds, Oldest
<1>x. PICK x : x = [k \in 1 .. b |-> Cell(k - 1)]
    OBVIOUS
<1>3. ASSUME NEW k \in 1 .. b
      PROVE  x[k] = accepted[l - b + k] /\ x[k] \in Byte
  <2>1. k - 1 \in 0 .. b - 1 /\ (l - b + 1) + (k - 1) = l - b + k
        /\ l - b + k \in 1 .. l
      BY <1>2
  <2>2. x[k] = accepted[l - b + k]
      BY <1>2, <1>x, <2>1
  <2>3. accepted \in Seq(Byte)
      BY DEF TypeOK
  <2> QED
      BY <1>l, <2>1, <2>2, <2>3, ElementOfSeq
<1>4. x \in Seq(Byte) /\ Len(x) = b
  <2>1. x \in [1 .. b -> Byte]
      BY <1>3, <1>x
  <2> HIDE DEF Byte
  <2> QED
      BY <2>1
<1>5. Held = x
    BY <1>b, <1>x DEF Held
<1> QED
    BY <1>2, <1>3, <1>4, <1>5, <1>b, <1>l

LEMMA HeldFactsNext ==
    (TypeOK /\ Holds =>
        /\ BufDataSize \in Nat /\ Held \in Seq(Byte) /\ Len(Held) = BufDataSize
        /\ Len(accepted) \in Nat /\ BufDataSize <= Len(accepted)
        /\ \A k \in 1 .. BufDataSize : Held[k] = accepted[Len(accepted) - BufDataSize + k])'
BY HeldFacts, PTL

(* What the ring accepts is behind what it holds. *)
LEMMA HeldGrows ==
    ASSUME TypeOK, TypeOK', Holds, NEW data \in Seq(Byte), Fits(data), SetDataOnBuf(data)
    PROVE  Held' = Held \o data
<1>1. Holds' /\ accepted' = accepted \o data /\ BufDataSize' = BufDataSize + Len(data)
    BY RingWritten
<1>b. PICK b \in Nat : b = BufDataSize
    BY HeldFacts
<1>l. PICK l \in Nat : l = Len(accepted)
    BY HeldFacts
<1>n. PICK n \in Nat : n = Len(data)
    BY SeqFacts
<1>x. PICK x \in Seq(Byte) : x = Held
    BY HeldFacts
<1>y. PICK y : y = Held'
    OBVIOUS
<1>2. /\ Len(x) = b /\ b <= l
      /\ \A k \in 1 .. b : x[k] = accepted[l - b + k]
    BY HeldFacts, <1>b, <1>l, <1>x
<1>3. /\ Len(accepted') = l + n
      /\ \A i \in 1 .. l : accepted'[i] = accepted[i]
      /\ \A i \in l + 1 .. l + n : accepted'[i] = data[i - l]
  <2>1. accepted \in Seq(Byte)
      BY DEF TypeOK
  <2> QED
      BY <1>1, <1>l, <1>n, <2>1, Joined
<1>4. /\ y \in Seq(Byte) /\ Len(y) = b + n
      /\ \A k \in 1 .. b + n : y[k] = accepted'[(l + n) - (b + n) + k]
    BY HeldFactsNext, <1>1, <1>3, <1>b, <1>n, <1>y
<1>5. /\ x \o data \in Seq(Byte) /\ Len(x \o data) = b + n
      /\ \A k \in 1 .. b : (x \o data)[k] = x[k]
      /\ \A k \in b + 1 .. b + n : (x \o data)[k] = data[k - b]
  <2>1. b = Len(x)
      BY <1>2
  <2> QED
      BY <1>n, <2>1, Joined
<1>6. ASSUME NEW k \in 1 .. b + n PROVE y[k] = (x \o data)[k]
  <2>1. CASE k <= b
    <3>1. k \in 1 .. b /\ (l + n) - (b + n) + k = l - b + k /\ l - b + k \in 1 .. l
        BY <1>2, <2>1
    <3>2. y[k] = accepted'[l - b + k]
        BY <1>4, <3>1
    <3>3. accepted'[l - b + k] = accepted[l - b + k]
        BY <1>3, <3>1
    <3>4. x[k] = accepted[l - b + k] /\ (x \o data)[k] = x[k]
        BY <1>2, <1>5, <3>1
    <3> QED
        BY <3>2, <3>3, <3>4
  <2>2. CASE k > b
    <3>1. k \in b + 1 .. b + n /\ (l + n) - (b + n) + k = l + (k - b)
          /\ l + (k - b) \in l + 1 .. l + n /\ (l + (k - b)) - l = k - b
        BY <2>2
    <3>2. y[k] = accepted'[l + (k - b)]
        BY <1>4, <3>1
    <3>3. accepted'[l + (k - b)] = data[k - b]
        BY <1>3, <3>1
    <3>4. (x \o data)[k] = data[k - b]
        BY <1>5, <3>1
    <3> QED
        BY <3>2, <3>3, <3>4
  <2>3. k <= b \/ k > b
      OBVIOUS
  <2> QED
      BY <2>1, <2>2, <2>3, Zenon
<1>7. y = x \o data
    BY <1>4, <1>5, <1>6, SeqEqual
<1> QED
    BY <1>7, <1>x, <1>y

(* What is taken out is in front of what stays. *)
LEMMA HeldTaken ==
    ASSUME TypeOK, TypeOK', Holds, NEW size \in 0 .. BufDataSize,
           BufHead' = (BufHead + size) % RingSize, BufDataSize' = BufDataSize - size,
           UNCHANGED <<SessionRecvBuf, BufTail, accepted>>
    PROVE  /\ Held' = SubSeq(Held, size + 1, Len(Held))
           /\ [k \in 1 .. size |-> Cell(k - 1)] = SubSeq(Held, 1, size)
<1>1. Holds'
    BY RingPopped
<1>b. PICK b \in Nat : b = BufDataSize
    BY HeldFacts
<1>l. PICK l \in Nat : l = Len(accepted)
    BY HeldFacts
<1>x. PICK x \in Seq(Byte) : x = Held
    BY HeldFacts
<1>y. PICK y : y = Held'
    OBVIOUS
<1>2. /\ Len(x) = b /\ b <= l
      /\ \A k \in 1 .. b : x[k] = accepted[l - b + k]
    BY HeldFacts, <1>b, <1>l, <1>x
<1>3. size \in 0 .. b /\ size \in Nat
    BY <1>b
<1>4. y = SubSeq(x, size + 1, b)
  <2>1. /\ y \in Seq(Byte) /\ Len(y) = b - size
        /\ \A k \in 1 .. b - size : y[k] = accepted[l - (b - size) + k]
      BY HeldFactsNext, <1>1, <1>b, <1>l, <1>y
  <2>2. /\ SubSeq(x, size + 1, b) \in Seq(Byte) /\ Len(SubSeq(x, size + 1, b)) = b - size
        /\ \A k \in 1 .. b - size : SubSeq(x, size + 1, b)[k] = x[size + k]
      BY <1>2, <1>3, Rest
  <2>3. \A k \in 1 .. b - size : y[k] = SubSeq(x, size + 1, b)[k]
    <3> TAKE k \in 1 .. b - size
    <3>1. size + k \in 1 .. b /\ l - b + (size + k) = l - (b - size) + k
        BY <1>3
    <3> QED
        BY <1>2, <2>1, <2>2, <3>1
  <2> QED
      BY <2>1, <2>2, <2>3, SeqEqual
<1>p. PICK piece : piece = SubSeq(x, 1, size)
    OBVIOUS
<1>5. /\ piece \in Seq(Byte) /\ Len(piece) = size
      /\ \A k \in 1 .. size : piece[k] = x[k]
    BY <1>2, <1>3, <1>p, Front
<1>6. piece = [k \in 1 .. size |-> Cell(k - 1)]
  <2>1. \A k \in 1 .. size : k \in 1 .. b
      BY <1>3
  <2>2. \A k \in 1 .. size : piece[k] = Cell(k - 1)
      BY <1>5, <1>b, <1>x, <2>1 DEF Held
  <2>3. piece = [k \in 1 .. size |-> piece[k]]
    <3>1. piece \in [1 .. size -> Byte]
        BY <1>5
    <3> HIDE DEF Byte
    <3> QED
        BY <3>1
  <2> QED
      BY <2>2, <2>3
<1> QED
    BY <1>2, <1>4, <1>6, <1>p, <1>x, <1>y

-----------------------------------------------------------------------------
(* A receive of whole packets that is refused cuts them out.  Here x is     *)
(* what the ring holds and u what TCP has.                                  *)
LEMMA Refused ==
    ASSUME NEW x \in Seq(Byte), NEW u \in Seq(Byte), NEW top, Shape(x \o u, top),
           NEW n \in 1 .. Len(u), u[1].off = 0, u[n].off + 1 = u[n].size
    PROVE  /\ Without(x \o SubSeq(u, n + 1, Len(u)), x \o u, Len(x), n)
           /\ Border(x \o u, Len(x)) /\ Border(x \o u, Len(x) + n)
<1>b. PICK b \in Nat : b = Len(x)
    BY SeqFacts
<1>m. PICK m \in Nat : m = Len(u)
    BY SeqFacts
<1>d. PICK d \in Seq(Byte) : d = x \o u
    BY ConcatProperties
<1>1. n \in Nat /\ n <= m /\ 1 <= n /\ n \in 0 .. m /\ m - n \in Nat
    BY <1>m
<1>r. PICK r \in Seq(Byte) : r = SubSeq(u, n + 1, m) /\ Len(r) = m - n
                             /\ \A k \in 1 .. m - n : r[k] = u[n + k]
  <2>1. /\ SubSeq(u, n + 1, m) \in Seq(Byte) /\ Len(SubSeq(u, n + 1, m)) = m - n
        /\ \A k \in 1 .. m - n : SubSeq(u, n + 1, m)[k] = u[n + k]
      BY <1>1, <1>m, Rest
  <2> QED
      BY <2>1
<1>2. /\ Len(d) = b + m
      /\ \A i \in 1 .. b : d[i] = x[i]
      /\ \A i \in b + 1 .. b + m : d[i] = u[i - b]
    BY <1>b, <1>d, <1>m, Joined
<1>k. PICK k \in Nat : k = m - n
    BY <1>1
<1>e. PICK e : e = x \o r
    OBVIOUS
<1>3. /\ Len(e) = b + k
      /\ \A i \in 1 .. b : e[i] = x[i]
      /\ \A i \in b + 1 .. b + k : e[i] = r[i - b]
  <2>1. k = Len(r)
      BY <1>k, <1>r
  <2> QED
      BY <1>b, <1>e, <2>1, Joined
<1>4. Without(e, d, b, n)
  <2>1. ASSUME NEW i \in b + 1 .. b + k PROVE e[i] = d[i + n]
    <3>1. i - b \in 1 .. m - n /\ i + n \in b + 1 .. b + m /\ n + (i - b) = (i + n) - b
        BY <1>1, <1>k
    <3>2. e[i] = u[n + (i - b)]
        BY <1>3, <1>r, <3>1
    <3>3. d[i + n] = u[(i + n) - b]
        BY <1>2, <3>1
    <3> QED
        BY <3>1, <3>2, <3>3
  <2>2. b + m = (b + k) + n /\ b <= b + k
      BY <1>1, <1>k
  <2> QED
      BY <1>2, <1>3, <2>1, <2>2 DEF Without
<1>5. Border(d, b)
  <2>1. b + 1 \in b + 1 .. b + m /\ (b + 1) - b = 1 /\ b + 1 <= b + m
      BY <1>1
  <2>2. d[b + 1].off = 0
      BY <1>2, <2>1
  <2> QED
      BY <1>2, <1>d, <2>1, <2>2, BorderBefore
<1>6. Border(d, b + n)
  <2>c. PICK c \in Nat : c = b + n
      BY <1>1
  <2>1. c \in b + 1 .. b + m /\ c - b = n /\ c \in 1 .. Len(d)
      BY <1>1, <1>2, <2>c
  <2>2. d[c].off + 1 = d[c].size
      BY <1>2, <2>1
  <2>3. Border(d, c)
      BY <1>d, <2>1, <2>2, BorderBehind
  <2> QED
      BY <2>3, <2>c
<1> QED
    BY <1>4, <1>5, <1>6, <1>b, <1>d, <1>e, <1>m, <1>r

(* What TCP still has when a connection ends is cut out. *)
LEMMA CutOff ==
    ASSUME NEW x \in Seq(Byte), NEW u \in Seq(Byte), NEW top, Shape(x \o u, top),
           u = <<>> \/ u[1].off = 0
    PROVE  /\ Without(x, x \o u, Len(x), Len(u))
           /\ Border(x \o u, Len(x)) /\ Border(x \o u, Len(x) + Len(u))
<1>b. PICK b \in Nat : b = Len(x)
    BY SeqFacts
<1>m. PICK m \in Nat : m = Len(u)
    BY SeqFacts
<1>d. PICK d \in Seq(Byte) : d = x \o u
    BY ConcatProperties
<1>2. /\ Len(d) = b + m
      /\ \A i \in 1 .. b : d[i] = x[i]
      /\ \A i \in b + 1 .. b + m : d[i] = u[i - b]
    BY <1>b, <1>d, <1>m, Joined
<1>3. Without(x, d, b, m)
  <2>1. \A i \in b + 1 .. b : FALSE
      OBVIOUS
  <2> QED
      BY <1>2, <1>b, <2>1 DEF Without
<1>4. Border(d, b + m)
    BY <1>2, <1>d, BorderEnds
<1>5. Border(d, b)
  <2>1. CASE m = 0
    <3>1. b = b + m
        BY <2>1
    <3> QED
        BY <1>4, <3>1
  <2>2. CASE m > 0
    <3>1. b + 1 \in b + 1 .. b + m /\ (b + 1) - b = 1 /\ b + 1 <= b + m
        BY <2>2
    <3>2. u # <<>>
        BY <1>m, <2>2, SeqFacts
    <3>3. d[b + 1].off = 0
        BY <1>2, <3>1, <3>2
    <3> QED
        BY <1>2, <1>d, <3>1, <3>3, BorderBefore
  <2> QED
      BY <2>1, <2>2
<1> QED
    BY <1>3, <1>4, <1>5, <1>b, <1>d, <1>m

(* The header in front of the ring is that of a packet: it is in the ring,  *)
(* or TCP has the end of it.                                                *)
LEMMA FirstPacket ==
    ASSUME NEW x \in Seq(Byte), NEW u \in Seq(Byte), NEW top, Shape(x \o u, top),
           Len(x) >= HeadSize, NEW size \in Nat, size = x[1].size
    PROVE  /\ size >= HeadSize /\ x[1].packet <= top
           /\ \A k \in 1 .. Len(x) : k <= size =>
                  x[k].packet = x[1].packet /\ x[k].off = k - 1 /\ x[k].size = size
           /\ size <= Len(x) => Border(x \o u, size)
           /\ size > Len(x) => u # <<>> /\ u[1].off # 0
<1>b. PICK b \in Nat : b = Len(x)
    BY SeqFacts
<1>m. PICK m \in Nat : m = Len(u)
    BY SeqFacts
<1>d. PICK d \in Seq(Byte) : d = x \o u
    BY ConcatProperties
<1>2. /\ Len(d) = b + m
      /\ \A i \in 1 .. b : d[i] = x[i]
      /\ \A i \in b + 1 .. b + m : d[i] = u[i - b]
    BY <1>b, <1>d, <1>m, Joined
<1>3. b >= 1 /\ b >= HeadSize /\ 1 \in 1 .. b /\ 1 \in 1 .. b + m /\ d[1] = x[1]
    BY <1>2, <1>b
<1>5. Start(d, 1) = 1
  <2>1. PICK s \in Int : s = Start(d, 1) /\ s <= 1
      BY <1>2, <1>3, PlaceFacts
  <2>2. s >= 1
      BY <1>2, <1>3, <1>d, <2>1 DEF Shape
  <2> QED
      BY <2>1, <2>2
<1>6. End(d, 1) = size
    BY <1>3, <1>5 DEF End
<1>7. size >= HeadSize /\ d[1].packet <= top /\ size <= b + m
  <2>1. d[1].size >= HeadSize /\ d[1].packet <= top /\ End(d, 1) <= b + m
      BY <1>2, <1>3, <1>d DEF Shape
  <2> QED
      BY <1>3, <1>6, <2>1
<1>8. \A j \in 1 .. b + m : j \in 1 .. size =>
          /\ d[j].packet = d[1].packet /\ d[j].size = size /\ d[j].off = j - 1
  <2>1. \A j \in 1 .. b + m : j \in Start(d, 1) .. End(d, 1) =>
            /\ d[j].packet = d[1].packet /\ d[j].size = d[1].size
            /\ d[j].off = j - Start(d, 1)
      BY <1>2, <1>3, <1>d DEF Shape
  <2> QED
      BY <1>3, <1>5, <1>6, <2>1
<1>9. ASSUME NEW k \in 1 .. b, k <= size
      PROVE  x[k].packet = x[1].packet /\ x[k].off = k - 1 /\ x[k].size = size
  <2>1. k \in 1 .. b + m /\ k \in 1 .. size
      BY <1>9
  <2> QED
      BY <1>2, <1>3, <1>8, <2>1
<1>10. ASSUME size <= b PROVE Border(d, size)
  <2>1. size \in 1 .. b + m /\ size \in 1 .. size
      BY <1>7, <1>10
  <2>2. d[size].off + 1 = d[size].size
      BY <1>8, <2>1
  <2> QED
      BY <1>2, <1>d, <2>1, <2>2, BorderBehind
<1>11. ASSUME size > b PROVE u # <<>> /\ u[1].off # 0
  <2>1. b + 1 \in 1 .. b + m /\ b + 1 \in 1 .. size /\ b + 1 \in b + 1 .. b + m
        /\ (b + 1) - b = 1 /\ m > 0
      BY <1>7, <1>11
  <2>2. d[b + 1].off = (b + 1) - 1 /\ d[b + 1] = u[1]
      BY <1>2, <1>8, <2>1
  <2>3. (b + 1) - 1 # 0
      BY <1>3
  <2> QED
      BY <1>m, <2>1, <2>2, <2>3, SeqFacts
<1> QED
    BY <1>3, <1>7, <1>9, <1>10, <1>11, <1>b, <1>d

(* A byte is its packet, place and size. *)
LEMMA ByteIs ==
    ASSUME NEW z \in Byte
    PROVE  z = [packet |-> z.packet, off |-> z.off, size |-> z.size]
BY DEF Byte

(* A packet that is in the ring comes out whole, and leaves whole ones. *)
LEMMA PacketPopped ==
    ASSUME NEW x \in Seq(Byte), NEW u \in Seq(Byte), NEW top, NEW size \in Nat
    PROVE  Shape(x \o u, top) /\ Len(x) >= HeadSize /\ size = x[1].size /\ size <= Len(x) =>
           /\ SubSeq(x, 1, size) = BytesOf(x[1].packet, size)
           /\ SubSeq(x, 1, size) # <<>> /\ SubSeq(x, 1, size)[1] = x[1]
           /\ SubSeq(x, 1, size) \in Seq(Byte) /\ SubSeq(x, size + 1, Len(x)) \in Seq(Byte)
           /\ Shape(SubSeq(x, size + 1, Len(x)) \o u, top)
           /\ Without(SubSeq(x, size + 1, Len(x)) \o u, x \o u, 0, size)
           /\ \A k \in 1 .. Len(SubSeq(x, size + 1, Len(x)) \o u) :
                  x[1].packet < (SubSeq(x, size + 1, Len(x)) \o u)[k].packet
<1>s. SUFFICES ASSUME Shape(x \o u, top), Len(x) >= HeadSize, size = x[1].size, size <= Len(x)
               PROVE  /\ SubSeq(x, 1, size) = BytesOf(x[1].packet, size)
                      /\ SubSeq(x, 1, size) # <<>> /\ SubSeq(x, 1, size)[1] = x[1]
                      /\ SubSeq(x, 1, size) \in Seq(Byte) /\ SubSeq(x, size + 1, Len(x)) \in Seq(Byte)
                      /\ Shape(SubSeq(x, size + 1, Len(x)) \o u, top)
                      /\ Without(SubSeq(x, size + 1, Len(x)) \o u, x \o u, 0, size)
                      /\ \A k \in 1 .. Len(SubSeq(x, size + 1, Len(x)) \o u) :
                             x[1].packet < (SubSeq(x, size + 1, Len(x)) \o u)[k].packet
    OBVIOUS
<1>b. PICK b \in Nat : b = Len(x)
    BY SeqFacts
<1>m. PICK m \in Nat : m = Len(u)
    BY SeqFacts
<1>d. PICK d \in Seq(Byte) : d = x \o u
    BY ConcatProperties
<1>n. PICK n \in Nat : n = size
    OBVIOUS
<1>1. /\ n \in Nat /\ n >= HeadSize
      /\ \A k \in 1 .. b : k <= n =>
             x[k].packet = x[1].packet /\ x[k].off = k - 1 /\ x[k].size = n
      /\ Border(d, n)
  <2>1. /\ size >= HeadSize
        /\ \A k \in 1 .. Len(x) : k <= size =>
               x[k].packet = x[1].packet /\ x[k].off = k - 1 /\ x[k].size = size
        /\ size <= Len(x) => Border(x \o u, size)
      BY <1>s, FirstPacket
  <2> QED
      BY <1>b, <1>d, <1>n, <1>s, <2>1
<1>2. n >= 1 /\ n <= b /\ n \in 0 .. b /\ b - n \in Nat
    BY <1>1, <1>b, <1>n, <1>s
<1>p. PICK p \in Seq(Byte) : p = SubSeq(x, 1, n) /\ Len(p) = n
                             /\ \A k \in 1 .. n : p[k] = x[k]
  <2>1. /\ SubSeq(x, 1, n) \in Seq(Byte) /\ Len(SubSeq(x, 1, n)) = n
        /\ \A k \in 1 .. n : SubSeq(x, 1, n)[k] = x[k]
      BY <1>2, <1>b, Front
  <2> QED
      BY <2>1
<1>r. PICK r \in Seq(Byte) : r = SubSeq(x, n + 1, b) /\ Len(r) = b - n
                             /\ \A k \in 1 .. b - n : r[k] = x[n + k]
  <2>1. /\ SubSeq(x, n + 1, b) \in Seq(Byte) /\ Len(SubSeq(x, n + 1, b)) = b - n
        /\ \A k \in 1 .. b - n : SubSeq(x, n + 1, b)[k] = x[n + k]
      BY <1>2, <1>b, Rest
  <2> QED
      BY <2>1
<1>q. p \in Seq(Byte) /\ Len(p) = n /\ n \in Nat /\ \A k \in 1 .. n : p[k] = x[k]
    BY <1>p
<1>3. p = BytesOf(x[1].packet, n)
  <2>1. ASSUME NEW k \in 1 .. n
        PROVE  p[k] = [packet |-> x[1].packet, off |-> k - 1, size |-> n]
    <3>1. k \in 1 .. b /\ k <= n
        BY <1>2
    <3>2. x[k].packet = x[1].packet /\ x[k].off = k - 1 /\ x[k].size = n
        BY <1>1, <3>1
    <3>3. x[k] \in Byte
        BY <1>b, <3>1, ElementOfSeq
    <3> QED
        BY <1>p, <3>2, <3>3, ByteIs
  <2>2. p = [k \in 1 .. n |-> p[k]]
    <3>1. p \in [1 .. n -> Byte]
        BY <1>q
    <3> HIDE DEF Byte
    <3> QED
        BY <3>1
  <2> QED
      BY <2>1, <2>2 DEF BytesOf
<1>4. p # <<>> /\ p[1] = x[1]
  <2>1. 1 \in 1 .. n /\ n # 0
      BY <1>2
  <2>2. p[1] = x[1]
      BY <1>q, <2>1
  <2>3. p # <<>>
      BY <1>q, <2>1, SeqFacts
  <2> QED
      BY <2>2, <2>3
<1>5. /\ Len(d) = b + m
      /\ \A i \in 1 .. b : d[i] = x[i]
      /\ \A i \in b + 1 .. b + m : d[i] = u[i - b]
    BY <1>b, <1>d, <1>m, Joined
<1>k. PICK k \in Nat : k = b - n
    BY <1>2
<1>e. PICK e \in Seq(Byte) : e = r \o u
    BY ConcatProperties
<1>6. /\ Len(e) = k + m
      /\ \A i \in 1 .. k : e[i] = r[i]
      /\ \A i \in k + 1 .. k + m : e[i] = u[i - k]
  <2>1. k = Len(r)
      BY <1>k, <1>r
  <2> QED
      BY <1>e, <1>m, <2>1, Joined
<1>7. ASSUME NEW i \in 1 .. k + m
      PROVE  e[i] = d[i + n] /\ i + n \in 1 .. b + m
  <2>0. i + n \in 1 .. b + m
      BY <1>1, <1>k
  <2>1. CASE i <= k
    <3>1. i \in 1 .. k /\ i \in 1 .. b - n /\ n + i \in 1 .. b /\ n + i = i + n
        BY <1>1, <1>k, <2>1
    <3>2. e[i] = x[n + i] /\ d[n + i] = x[n + i]
        BY <1>5, <1>6, <1>r, <3>1
    <3> QED
        BY <2>0, <3>1, <3>2
  <2>2. CASE i > k
    <3>1. i \in k + 1 .. k + m /\ i + n \in b + 1 .. b + m /\ (i + n) - b = i - k
        BY <1>1, <1>k, <2>2
    <3>2. e[i] = u[i - k] /\ d[i + n] = u[(i + n) - b]
        BY <1>5, <1>6, <3>1
    <3> QED
        BY <2>0, <3>1, <3>2
  <2>3. i <= k \/ i > k
      OBVIOUS
  <2> QED
      BY <2>1, <2>2, <2>3, Zenon
<1>8. Without(e, d, 0, n)
  <2>1. b + m = (k + m) + n /\ 0 <= k + m /\ (\A i \in 1 .. 0 : FALSE) /\ 0 + 1 = 1
      BY <1>1, <1>k
  <2> QED
      BY <1>5, <1>6, <1>7, <2>1 DEF Without
<1>9. Shape(e, top)
  <2>1. Border(d, 0)
    <3>1. Shape(d, top)
        BY <1>d, <1>s
    <3> QED
        BY <3>1, BorderEnds
  <2>2. Border(d, 0 + n)
    <3>1. 0 + n = n
        OBVIOUS
    <3> QED
        BY <1>1, <3>1
  <2> QED
      BY <1>8, <1>d, <1>s, <2>1, <2>2, ShapeWithout
<1>10. ASSUME NEW i \in 1 .. k + m PROVE x[1].packet < e[i].packet
  <2>1. e[i] = d[i + n] /\ i + n \in 1 .. b + m
      BY <1>7
  <2>c. PICK c \in 1 .. b + m : c = i + n /\ c > n
      BY <2>1
  <2>2. 1 \in 1 .. b + m /\ 1 \in 1 .. b /\ 1 <= n
      BY <1>2
  <2>3. d[1] = x[1] /\ x[1].off = 0 /\ x[1].size = n
    <3>1. x[1].off = 1 - 1 /\ x[1].size = n
        BY <1>1, <2>2
    <3> QED
        BY <1>5, <2>2, <3>1
  <2>4. Start(d, 1) = 1
      BY <2>3 DEF Start
  <2>5. End(d, 1) = n
      BY <2>3, <2>4 DEF End
  <2>6. \A j \in 1 .. b + m : j > End(d, 1) => d[1].packet < d[j].packet
    <3>1. Shape(d, top)
        BY <1>d, <1>s
    <3> QED
        BY <1>5, <2>2, <3>1 DEF Shape
  <2>7. d[1].packet < d[c].packet
      BY <2>5, <2>6, <2>c
  <2> QED
      BY <2>1, <2>3, <2>7, <2>c
<1> QED
    BY <1>3, <1>4, <1>6, <1>8, <1>9, <1>10, <1>b, <1>d, <1>e, <1>n, <1>p, <1>r

(* What was popped before and the packet that is popped now. *)
LEMMA TakenMore ==
    ASSUME NEW d \in Seq(Byte), NEW e \in Seq(Byte), NEW top, NEW got \in Seq(Seq(Byte)),
           Taken(got, d, top), Taken(got, e, top),
           NEW piece \in Seq(Byte),
           \/ piece = <<>>
           \/ /\ piece # <<>> /\ piece = BytesOf(piece[1].packet, piece[1].size)
              /\ piece[1].packet <= top /\ Len(d) > 0 /\ piece[1] = d[1]
              /\ \A k \in 1 .. Len(e) : piece[1].packet < e[k].packet
    PROVE  Append(got, piece) \in Seq(Seq(Byte)) /\ Taken(Append(got, piece), e, top)
<1>t. PICK new \in Seq(Seq(Byte)) : new = Append(got, piece)
    BY AppendProperties
<1>1. /\ Len(got) \in Nat /\ Len(new) = Len(got) + 1 /\ new[Len(got) + 1] = piece
      /\ \A i \in 1 .. Len(got) : new[i] = got[i]
    BY <1>t, AppendProperties
<1>n. PICK n \in Nat : n = Len(got)
    BY <1>1
<1>2. ASSUME NEW i \in 1 .. n + 1, new[i] # <<>>
      PROVE  /\ new[i] = BytesOf(new[i][1].packet, new[i][1].size)
             /\ new[i][1].packet <= top
             /\ \A k \in 1 .. Len(e) : new[i][1].packet < e[k].packet
             /\ \A j \in 1 .. i - 1 : new[j] # <<>> => new[j][1].packet < new[i][1].packet
  <2>0. \A j \in 1 .. i - 1 : j \in 1 .. n
      OBVIOUS
  <2>1. CASE i <= n
    <3>1. i \in 1 .. n /\ new[i] = got[i] /\ \A j \in 1 .. i - 1 : new[j] = got[j]
        BY <1>1, <1>n, <2>0, <2>1
    <3> QED
        BY <1>2, <1>n, <3>1 DEF Taken
  <2>2. CASE i = n + 1
    <3>1. new[i] = piece /\ piece # <<>> /\ \A j \in 1 .. i - 1 : new[j] = got[j]
        BY <1>1, <1>2, <1>n, <2>0, <2>2
    <3>2. /\ piece = BytesOf(piece[1].packet, piece[1].size)
          /\ piece[1].packet <= top /\ Len(d) > 0 /\ piece[1] = d[1]
          /\ \A k \in 1 .. Len(e) : piece[1].packet < e[k].packet
        BY <3>1
    <3>3. 1 \in 1 .. Len(d)
        BY <3>2, SeqFacts
    <3>4. \A j \in 1 .. i - 1 : got[j] # <<>> => got[j][1].packet < d[1].packet
        BY <1>n, <2>0, <3>3 DEF Taken
    <3> QED
        BY <3>1, <3>2, <3>4
  <2>3. i <= n \/ i = n + 1
      OBVIOUS
  <2> QED
      BY <2>1, <2>2, <2>3, Zenon
<1>3. Taken(new, e, top)
  <2>1. Len(new) = n + 1
      BY <1>1, <1>n
  <2> QED
      BY <1>2, <2>1 DEF Taken
<1> QED
    BY <1>3, <1>t

-----------------------------------------------------------------------------
(* Every place of the ring has a byte. *)
LEMMA CellType ==
    ASSUME TypeOK, NEW k \in Nat
    PROVE  Cell(k) \in Byte
<1>1. PICK y \in Nat : y = BufHead + k
    BY DEF TypeOK, Cells
<1>2. y % RingSize \in Cells
    BY InCells
<1> QED
    BY <1>1, <1>2 DEF Cell, TypeOK

(* BufDataSize goes round at Width. *)
LEMMA ModWidth ==
    ASSUME NEW x \in Nat
    PROVE  /\ x % Width \in 0 .. Width - 1
           /\ x >= Width /\ x < 2 * Width => x % Width = x - Width
BY SMTT(20)

(* The header in front of the ring is that of the packet there. *)
LEMMA HeaderTells ==
    ASSUME TypeOK, Holds, Shape(Pending, made), BufDataSize >= HeadSize,
           NEW size \in HeaderSizes
    PROVE  size \in Nat /\ size = Held[1].size
<1>b. PICK b \in Nat : b = BufDataSize
    BY HeldFacts
<1>x. PICK x \in Seq(Byte) : x = Held
    BY HeldFacts
<1>u. PICK u \in Seq(Byte) : u = unsent
    BY DEF TypeOK
<1>1. Len(x) = b /\ b >= HeadSize /\ Shape(x \o u, made) /\ HeadSize \in Nat /\ HeadSize >= 1
    BY HeldFacts, <1>b, <1>x, <1>u DEF Pending
<1>2. \A k \in 0 .. b - 1 : Cell(k) = x[k + 1]
  <2>1. \A k \in 0 .. b - 1 : k + 1 \in 1 .. b /\ (k + 1) - 1 = k
      OBVIOUS
  <2> QED
      BY <1>b, <1>x, <2>1 DEF Held
<1>z. PICK z \in Nat : z = x[1].size
  <2>1. 1 \in 1 .. Len(x)
      BY <1>1
  <2> QED
      BY <2>1, SeqFacts
<1>3. /\ z >= HeadSize
      /\ \A k \in 1 .. b : k <= z => x[k].packet = x[1].packet /\ x[k].off = k - 1
  <2>1. Len(x) >= HeadSize
      BY <1>1
  <2>2. /\ z >= HeadSize
        /\ \A k \in 1 .. Len(x) : k <= z => x[k].packet = x[1].packet /\ x[k].off = k - 1
      BY <1>1, <1>z, <2>1, FirstPacket
  <2> QED
      BY <1>1, <2>2
<1>4. Cell(0) = x[1]
  <2>1. 0 \in 0 .. b - 1 /\ 0 + 1 = 1
      BY <1>1
  <2> QED
      BY <1>2, <2>1
<1>5. ASSUME NEW k \in 0 .. HeadSize - 1
      PROVE  Cell(k).off = k /\ Cell(k).packet = Cell(0).packet
  <2>1. k \in 0 .. b - 1 /\ k + 1 \in 1 .. b /\ k + 1 <= z /\ (k + 1) - 1 = k
      BY <1>1, <1>3
  <2>2. Cell(k) = x[k + 1]
      BY <1>2, <2>1
  <2>3. x[k + 1].packet = x[1].packet /\ x[k + 1].off = (k + 1) - 1
      BY <1>3, <2>1
  <2> QED
      BY <1>4, <2>1, <2>2, <2>3
<1>6. HeaderSizes = {Cell(0).size}
    BY <1>5 DEF HeaderSizes
<1> QED
    BY <1>4, <1>6, <1>x, <1>z

(* What GetDataOnBuf leaves, and its types. *)
LEMMA GetType ==
    ASSUME TypeOK, NEW size \in HeaderSizes,
           BufHead' = (BufHead + size) % RingSize,
           BufDataSize' = (BufDataSize + Width - size) % Width
    PROVE  /\ size \in 0 .. RingSize
           /\ BufHead' \in Cells /\ BufDataSize' \in 0 .. Width - 1
           /\ size <= BufDataSize => BufDataSize' = BufDataSize - size
           /\ [k \in 1 .. size |-> Cell(k - 1)] \in Seq(Byte)
<1>b. PICK b \in 0 .. Width - 1 : b = BufDataSize
    BY DEF TypeOK
<1>s. size \in 0 .. RingSize
  <2>1. 0 \in Nat
      OBVIOUS
  <2>2. Cell(0) \in Byte
      BY <2>1, CellType
  <2>3. Cell(0).size \in 0 .. RingSize
      BY <2>2 DEF Byte
  <2> QED
      BY <2>3 DEF HeaderSizes
<1>1. BufDataSize' \in 0 .. Width - 1 /\ (size <= b => BufDataSize' = b - size)
  <2>1. PICK y \in Nat : y = b + Width - size
      BY <1>s
  <2>2. y >= Width => y < 2 * Width
      BY <1>s, <2>1
  <2>3. size <= b => y >= Width /\ y - Width = b - size
      BY <1>s, <2>1
  <2>4. y % Width \in 0 .. Width - 1 /\ (y >= Width => y % Width = y - Width)
      BY <2>2, ModWidth
  <2>5. BufDataSize' = y % Width
      BY <1>b, <2>1
  <2> QED
      BY <2>3, <2>4, <2>5
<1>2. [k \in 1 .. size |-> Cell(k - 1)] \in Seq(Byte)
  <2>p. PICK piece : piece = [k \in 1 .. size |-> Cell(k - 1)]
      OBVIOUS
  <2>1. \A k \in 1 .. size : Cell(k - 1) \in Byte
    <3> TAKE k \in 1 .. size
    <3>1. PICK u \in Nat : u = k - 1
        BY <1>s
    <3> QED
        BY <3>1, CellType
  <2>2. piece \in [1 .. size -> Byte]
      BY <2>1, <2>p
  <2>3. size \in Nat
      BY <1>s
  <2>4. \A f \in [1 .. size -> Byte] : f \in Seq(Byte)
    <3> HIDE DEF Byte
    <3> QED
        BY <2>3
  <2> QED
      BY <2>2, <2>4, <2>p
<1>3. BufHead' \in Cells
  <2>1. PICK y \in Nat : y = BufHead + size
      BY <1>s DEF TypeOK, Cells
  <2> QED
      BY <2>1, InCells
<1> QED
    BY <1>1, <1>2, <1>3, <1>b, <1>s

-----------------------------------------------------------------------------
(* No bytes before or behind others change them. *)
LEMMA NoBytes == ASSUME NEW s \in Seq(Byte) PROVE s \o <<>> = s /\ <<>> \o s = s
BY ConcatEmptySeq

(* The empty ring. *)
LEMMA InitInv == Init => Inv
<1> SUFFICES ASSUME Init PROVE Inv
    OBVIOUS
<1>1. Len(<<>>) = 0 /\ 0 \in Cells /\ made = 0 /\ BufDataSize = 0 /\ BufHead = 0
      /\ BufTail = 0 /\ accepted = <<>> /\ popped = <<>> /\ unsent = <<>>
    BY DEF Init, Cells
<1>2. TypeOK
  <2>1. Junk \in Byte
      BY DEF Junk, Byte
  <2>2. SessionRecvBuf \in [Cells -> Byte]
      BY <2>1 DEF Init
  <2>3. 0 \in 0 .. Width - 1 /\ 0 \in 0 .. MaxPackets
      OBVIOUS
  <2>4. <<>> \in Seq(Byte) /\ <<>> \in Seq(Seq(Byte))
      BY EmptySeq
  <2> QED
      BY <1>1, <2>2, <2>3, <2>4 DEF Init, TypeOK
<1>3. Holds
  <2>1. PICK z \in Nat : z = 0
      OBVIOUS
  <2>2. z % RingSize = z
      BY <2>1, ModSmall
  <2>3. (0 + 0) % RingSize = 0 /\ 0 \in 0 .. RingSize /\ \A k \in 0 .. 0 - 1 : FALSE
      BY <2>1, <2>2
  <2> QED
      BY <1>1, <2>3 DEF Holds
<1>4. Pending = <<>>
  <2>1. Held = <<>>
      BY <1>1 DEF Held
  <2>2. <<>> \in Seq(Byte)
      BY EmptySeq
  <2> QED
      BY <1>1, <2>1, <2>2, NoBytes DEF Pending
<1>5. Shape(Pending, made) /\ Taken(popped, Pending, made)
  <2>1. \A i \in 1 .. 0 : FALSE
      OBVIOUS
  <2> QED
      BY <1>1, <1>4, <2>1 DEF Shape, Taken
<1> QED
    BY <1>1, <1>2, <1>3, <1>5 DEF Inv, Init

(* The histories and queues of a step, and what Inv says while it goes on. *)
LEMMA InvFacts ==
    Inv => /\ TypeOK /\ unsent \in Seq(Byte) /\ accepted \in Seq(Byte)
           /\ popped \in Seq(Seq(Byte)) /\ made \in Nat
           /\ ~torn => /\ ~overrun /\ Holds /\ Held \in Seq(Byte) /\ Pending \in Seq(Byte)
                       /\ Shape(Pending, made) /\ Taken(popped, Pending, made)
<1> SUFFICES ASSUME Inv
             PROVE  /\ TypeOK /\ unsent \in Seq(Byte) /\ accepted \in Seq(Byte)
                    /\ popped \in Seq(Seq(Byte)) /\ made \in Nat
                    /\ ~torn => /\ ~overrun /\ Holds /\ Held \in Seq(Byte)
                                /\ Pending \in Seq(Byte)
                                /\ Shape(Pending, made) /\ Taken(popped, Pending, made)
    OBVIOUS
<1>1. /\ TypeOK /\ unsent \in Seq(Byte) /\ accepted \in Seq(Byte)
      /\ popped \in Seq(Seq(Byte)) /\ made \in Nat
    BY DEF Inv, TypeOK
<1>2. ASSUME ~torn
      PROVE  /\ ~overrun /\ Holds /\ Shape(Pending, made) /\ Taken(popped, Pending, made)
    BY <1>2 DEF Inv
<1>3. ASSUME ~torn PROVE Held \in Seq(Byte) /\ Pending \in Seq(Byte)
  <2>1. Held \in Seq(Byte)
      BY <1>1, <1>2, <1>3, HeldFacts
  <2> QED
      BY <1>1, <2>1, ConcatProperties DEF Pending
<1> QED
    BY <1>1, <1>2, <1>3

(* The client sends a packet. *)
LEMMA SendStep == ASSUME Inv, Send PROVE Inv'
<1>1. /\ UNCHANGED <<ringVars, RecvPacketQueue, accepted, popped, torn, overrun,
                     bundled, split>>
      /\ made' = made + 1 /\ made < MaxPackets
    BY DEF Send
<1>2. PICK size \in Sizes : unsent' = unsent \o BytesOf(made + 1, size)
    BY DEF Send
<1>3. /\ TypeOK /\ unsent \in Seq(Byte) /\ made \in Nat /\ popped \in Seq(Seq(Byte))
      /\ size \in HeadSize .. RingSize /\ size \in 0 .. RingSize
      /\ made + 1 \in 0 .. MaxPackets /\ made < made + 1
    BY <1>1, InvFacts
<1>p. PICK v \in Seq(Byte) : /\ v = BytesOf(made + 1, size) /\ Len(v) = size
                             /\ \A k \in 1 .. size : v[k].off = k - 1
    BY <1>3, PacketFacts
<1>4. unsent' \in Seq(Byte)
    BY <1>2, <1>3, <1>p, ConcatProperties
<1>5. TypeOK'
    BY <1>1, <1>3, <1>4 DEF TypeOK, ringVars
<1>6. Held' = Held
    BY <1>1 DEF Held, Cell, ringVars
<1>7. ~overrun' => Holds'
  <2>1. ~overrun' => Holds
      BY <1>1 DEF Inv
  <2> QED
      BY <1>1, <2>1 DEF Holds, Cell, ringVars
<1>8. unsent'[1].off # 0 => split'
  <2>m. PICK m \in Nat : m = Len(unsent)
      BY <1>3, SeqFacts
  <2>n. PICK n \in Nat : n = size
      BY <1>3
  <2>1. /\ \A i \in 1 .. m : unsent'[i] = unsent[i]
        /\ \A i \in m + 1 .. m + n : unsent'[i] = v[i - m]
    <3>1. n = Len(v)
        BY <1>p, <2>n
    <3>2. /\ \A i \in 1 .. m : (unsent \o v)[i] = unsent[i]
          /\ \A i \in m + 1 .. m + n : (unsent \o v)[i] = v[i - m]
        BY <1>3, <2>m, <3>1, Joined
    <3>3. unsent' = unsent \o v
        BY <1>2, <1>p
    <3> QED
        BY <3>2, <3>3
  <2>2. CASE m = 0
    <3>1. 1 \in m + 1 .. m + n /\ 1 - m = 1 /\ 1 \in 1 .. size /\ 1 - 1 = 0
        BY <1>3, <2>2, <2>n
    <3>2. unsent'[1] = v[1]
        BY <2>1, <3>1
    <3>3. v[1].off = 1 - 1
        BY <1>p, <3>1
    <3> QED
        BY <3>1, <3>2, <3>3
  <2>3. CASE m > 0
    <3>1. 1 \in 1 .. m
        BY <2>3
    <3>2. unsent'[1] = unsent[1]
        BY <2>1, <3>1
    <3>3. unsent # <<>>
        BY <1>3, <2>3, <2>m, SeqFacts
    <3> QED
        BY <1>1, <3>2, <3>3 DEF Inv
  <2>4. m = 0 \/ m > 0
      OBVIOUS
  <2> QED
      BY <2>2, <2>3, <2>4, Zenon
<1>9. ASSUME ~torn' PROVE Shape(Pending', made') /\ Taken(popped', Pending', made')
  <2>1. ~torn
      BY <1>1, <1>9
  <2>2. /\ Held \in Seq(Byte) /\ Pending \in Seq(Byte)
        /\ Shape(Pending, made) /\ Taken(popped, Pending, made)
      BY <2>1, InvFacts
  <2>3. Pending' = Pending \o BytesOf(made + 1, size)
    <3>1. Held \o (unsent \o v) = (Held \o unsent) \o v
        BY <1>3, <2>2, Joined3
    <3> QED
        BY <1>2, <1>6, <1>p, <3>1 DEF Pending
  <2>4. Shape(Pending \o BytesOf(made + 1, size), made + 1)
      BY <1>3, <2>2, ShapeLonger
  <2>5. Taken(popped, Pending \o BytesOf(made + 1, size), made + 1)
      BY <1>3, <2>2, TakenLonger
  <2> QED
      BY <1>1, <2>3, <2>4, <2>5
<1> QED
    BY <1>1, <1>5, <1>7, <1>8, <1>9 DEF Inv

(* Where no packet lies across a border, the next one begins. *)
LEMMA BorderOff ==
    ASSUME NEW d \in Seq(Byte), NEW x \in Nat, Border(d, x), x + 1 <= Len(d)
    PROVE  d[x + 1].off = 0
<1>l. PICK l \in Nat : l = Len(d)
    BY SeqFacts
<1>c. PICK c \in 1 .. l : c = x + 1
    BY <1>l
<1>1. c \in 1 .. Len(d) /\ c > x
    BY <1>c, <1>l
<1>o. PICK o \in Nat : o = d[c].off
    BY <1>1, SeqFacts
<1>2. Start(d, c) = c - o
    BY <1>o DEF Start
<1>3. Start(d, c) > x
    BY <1>1 DEF Border
<1>4. o = 0
    BY <1>2, <1>3, <1>c
<1> QED
    BY <1>4, <1>c, <1>o

(* Between what is in the ring and what TCP still has: where TCP's bytes    *)
(* begin with a packet they do so after whole packets, too.                 *)
LEMMA NextOff ==
    ASSUME NEW x \in Seq(Byte), NEW u \in Seq(Byte), NEW top, Shape(x \o u, top),
           NEW n \in 1 .. Len(u), u[n].off + 1 = u[n].size, n < Len(u)
    PROVE  u[n + 1].off = 0
<1>b. PICK b \in Nat : b = Len(x)
    BY SeqFacts
<1>m. PICK m \in Nat : m = Len(u)
    BY SeqFacts
<1>d. PICK d \in Seq(Byte) : d = x \o u
    BY ConcatProperties
<1>1. /\ Len(d) = b + m
      /\ \A i \in b + 1 .. b + m : d[i] = u[i - b]
    BY <1>b, <1>d, <1>m, Joined
<1>c. PICK c \in Nat : c = b + n
    OBVIOUS
<1>2. c \in b + 1 .. b + m /\ c + 1 \in b + 1 .. b + m /\ c - b = n /\ (c + 1) - b = n + 1
      /\ c \in 1 .. b + m /\ c + 1 <= b + m
    BY <1>c, <1>m
<1>3. d[c].off + 1 = d[c].size
    BY <1>1, <1>2
<1>4. Border(d, c)
  <2>1. c \in 1 .. Len(d) /\ Shape(d, top)
      BY <1>1, <1>2, <1>d
  <2> QED
      BY <1>3, <2>1, BorderBehind
<1>5. d[c + 1].off = 0
    BY <1>1, <1>2, <1>4, BorderOff
<1> QED
    BY <1>1, <1>2, <1>5

(* A receive has the next bytes of what was sent.                           *)
LEMMA ReceiveStep == ASSUME Inv, Receive PROVE Inv'
<1>n. PICK n \in 1 .. Len(unsent) :
          /\ PushRecvPacket(SubSeq(unsent, 1, n))
          /\ unsent' = SubSeq(unsent, n + 1, Len(unsent))
          /\ split' = (split \/ ~Aligned(SubSeq(unsent, 1, n)))
          /\ torn' = (torn \/ (/\ ~Fits(SubSeq(unsent, 1, n))
                               /\ ~Aligned(SubSeq(unsent, 1, n))))
          /\ bundled' = (bundled \/ unsent[1].packet # unsent[n].packet)
          /\ UNCHANGED <<made, overrun>>
    BY DEF Receive
<1>1. /\ TypeOK /\ unsent \in Seq(Byte) /\ made \in Nat /\ ~overrun /\ ~overrun' /\ Holds
    BY <1>n, InvFacts DEF Receive, Inv
<1>m. PICK m \in Nat : m = Len(unsent)
    BY <1>1, SeqFacts
<1>2. n \in Nat /\ 1 <= n /\ n <= m /\ n \in 0 .. m /\ 1 \in 1 .. n /\ n \in 1 .. n
    BY <1>m
<1>d. PICK data \in Seq(Byte) : /\ data = SubSeq(unsent, 1, n) /\ Len(data) = n
                                /\ \A k \in 1 .. n : data[k] = unsent[k]
  <2>1. /\ SubSeq(unsent, 1, n) \in Seq(Byte) /\ Len(SubSeq(unsent, 1, n)) = n
        /\ \A k \in 1 .. n : SubSeq(unsent, 1, n)[k] = unsent[k]
      BY <1>1, <1>2, <1>m, Front
  <2> QED
      BY <2>1
<1>r. /\ unsent' \in Seq(Byte) /\ Len(unsent') = m - n
      /\ \A k \in 1 .. m - n : unsent'[k] = unsent[n + k]
  <2>1. /\ SubSeq(unsent, n + 1, m) \in Seq(Byte) /\ Len(SubSeq(unsent, n + 1, m)) = m - n
        /\ \A k \in 1 .. m - n : SubSeq(unsent, n + 1, m)[k] = unsent[n + k]
      BY <1>1, <1>2, <1>m, Rest
  <2>2. unsent' = SubSeq(unsent, n + 1, m)
      BY <1>m, <1>n
  <2> QED
      BY <2>1, <2>2
<1>3. /\ SetDataOnBuf(data) /\ popped' = popped
      /\ RecvPacketQueue' = RecvPacketQueue + IF Fits(data) THEN 1 ELSE 0
      /\ split' = (split \/ ~Aligned(data))
      /\ torn' = (torn \/ (~Fits(data) /\ ~Aligned(data)))
    BY <1>d, <1>n DEF PushRecvPacket
<1>4. TypeOK'
  <2>1. RecvPacketQueue' \in Nat
      BY <1>1, <1>3 DEF TypeOK
  <2>2. split' \in BOOLEAN
      BY <1>3, Zenon
  <2>3. torn' \in BOOLEAN
      BY <1>3, Zenon
  <2>4. bundled' \in BOOLEAN
      BY <1>n, Zenon
  <2>5. /\ SessionRecvBuf' \in [Cells -> Byte]
        /\ BufHead' \in Cells /\ BufTail' \in Cells /\ BufDataSize' \in 0 .. Width - 1
        /\ accepted' \in Seq(Byte)
      BY <1>1, <1>3, SetDataType
  <2>6. made' \in 0 .. MaxPackets /\ popped' \in Seq(Seq(Byte)) /\ overrun' \in BOOLEAN
      BY <1>1, <1>3, <1>n DEF TypeOK
  <2> QED
      BY <1>r, <2>1, <2>2, <2>3, <2>4, <2>5, <2>6 DEF TypeOK
<1>5. Holds'
  <2>1. CASE Fits(data)
      BY <1>1, <1>3, <2>1, RingWritten
  <2>2. CASE ~Fits(data)
    <3>1. UNCHANGED <<ringVars, accepted>>
        BY <1>3, <2>2 DEF SetDataOnBuf
    <3> QED
        BY <1>1, <3>1 DEF Holds, Cell, ringVars
  <2> QED
      BY <2>1, <2>2
<1>6. torn' => split'
  <2>1. torn => split
      BY DEF Inv
  <2> QED
      BY <1>3, <2>1, Zenon
<1>7. ASSUME unsent' # <<>>, unsent'[1].off # 0 PROVE split'
  <2>1. CASE torn
      BY <1>3, <2>1, Zenon DEF Inv
  <2>2. CASE ~Aligned(data)
      BY <1>3, <2>2, Zenon
  <2>3. CASE ~torn /\ Aligned(data)
    <3>1. Held \in Seq(Byte) /\ Shape(Held \o unsent, made)
        BY <2>3, InvFacts DEF Pending
    <3>2. unsent[n].off + 1 = unsent[n].size
      <4>1. data[n].off + 1 = data[n].size
          BY <1>d, <2>3 DEF Aligned
      <4> QED
          BY <1>2, <1>d, <4>1
    <3>3. n < m
      <4>1. m - n # 0
          BY <1>7, <1>r, SeqFacts
      <4> QED
          BY <1>2, <4>1
    <3>4. unsent[n + 1].off = 0
        BY <1>1, <1>m, <3>1, <3>2, <3>3, NextOff
    <3>5. unsent'[1] = unsent[n + 1]
      <4>1. 1 \in 1 .. m - n
          BY <1>2, <3>3
      <4> QED
          BY <1>r, <4>1
    <3> QED
        BY <1>7, <3>4, <3>5
  <2>4. torn \/ ~Aligned(data) \/ (~torn /\ Aligned(data))
      OBVIOUS
  <2> QED
      BY <2>1, <2>2, <2>3, <2>4, Zenon
<1>8. ASSUME ~torn' PROVE Shape(Pending', made') /\ Taken(popped', Pending', made')
  <2>1. ~torn /\ (Fits(data) \/ Aligned(data))
      BY <1>3, <1>8, Zenon
  <2>2. /\ Held \in Seq(Byte) /\ Pending \in Seq(Byte) /\ Pending = Held \o unsent
        /\ Shape(Pending, made) /\ Taken(popped, Pending, made)
      BY <2>1, InvFacts DEF Pending
  <2>3. ASSUME Fits(data) PROVE Pending' = Pending
    <3>1. Held' = Held \o data
        BY <1>1, <1>3, <1>4, <2>3, HeldGrows
    <3>2. (Held \o SubSeq(unsent, 1, n)) \o SubSeq(unsent, n + 1, Len(unsent)) = Held \o unsent
        BY <1>1, <2>2, MovedBorder
    <3> QED
        BY <1>d, <1>n, <3>1, <3>2 DEF Pending
  <2>4. CASE Fits(data)
      BY <1>3, <1>n, <2>2, <2>3, <2>4
  <2>5. CASE ~Fits(data) /\ Aligned(data)
    <3>1. UNCHANGED <<ringVars, accepted>>
        BY <1>3, <2>5 DEF SetDataOnBuf
    <3>2. Held' = Held
        BY <3>1 DEF Held, Cell, ringVars
    <3>3. unsent[1].off = 0 /\ unsent[n].off + 1 = unsent[n].size
      <4>1. data[1].off = 0 /\ data[n].off + 1 = data[n].size
          BY <1>d, <2>5 DEF Aligned
      <4> QED
          BY <1>2, <1>d, <4>1
    <3>e. PICK e \in Seq(Byte) : e = Held \o unsent'
        BY <1>r, <2>2, ConcatProperties
    <3>x. PICK x \in Nat : x = Len(Held)
        BY <2>2, SeqFacts
    <3>4. Without(e, Pending, x, n) /\ Border(Pending, x) /\ Border(Pending, x + n)
      <4>1. Shape(Held \o unsent, made)
          BY <2>2
      <4>2. /\ Without(Held \o SubSeq(unsent, n + 1, Len(unsent)), Held \o unsent, Len(Held), n)
            /\ Border(Held \o unsent, Len(Held)) /\ Border(Held \o unsent, Len(Held) + n)
          BY <1>1, <2>2, <3>3, <4>1, Refused
      <4> QED
          BY <1>n, <2>2, <3>e, <3>x, <4>2
    <3>5. Shape(e, made) /\ Taken(popped, e, made)
      <4>1. Shape(e, made)
          BY <1>2, <2>2, <3>4, ShapeWithout
      <4>2. Taken(popped, e, made)
          BY <1>2, <2>2, <3>4, TakenWithout
      <4> QED
          BY <4>1, <4>2
    <3>6. Pending' = e
        BY <3>2, <3>e DEF Pending
    <3> QED
        BY <1>3, <1>n, <3>5, <3>6
  <2>6. Fits(data) \/ (~Fits(data) /\ Aligned(data))
      BY <2>1, Zenon
  <2> QED
      BY <2>4, <2>5, <2>6, Zenon
<1> QED
    BY <1>1, <1>4, <1>5, <1>6, <1>7, <1>8 DEF Inv

(* A connection opens.  Of the last one only what the ring holds stays.     *)
LEMMA PushSystemPacketStep == ASSUME Inv, PushSystemPacket PROVE Inv'
<1>1. /\ ~overrun /\ made < MaxPackets
      /\ SetDataOnBuf(BytesOf(made + 1, HeadSize))
      /\ RecvPacketQueue' = RecvPacketQueue + 1
      /\ made' = made + 1 /\ unsent' = <<>>
      /\ torn' = (torn \/ (unsent # <<>> /\ unsent[1].off # 0))
      /\ UNCHANGED <<popped, overrun, bundled, split>>
    BY DEF PushSystemPacket
<1>2. /\ TypeOK /\ unsent \in Seq(Byte) /\ made \in Nat /\ popped \in Seq(Seq(Byte)) /\ Holds
    BY <1>1, InvFacts DEF Inv
<1>3. /\ HeadSize \in HeadSize .. RingSize /\ HeadSize \in 0 .. RingSize
      /\ made + 1 \in 0 .. MaxPackets /\ made < made + 1
    BY <1>1, <1>2
<1>d. PICK data \in Seq(Byte) : data = BytesOf(made + 1, HeadSize)
    BY <1>3, PacketFacts
<1>4. TypeOK'
  <2>1. RecvPacketQueue' \in Nat
      BY <1>1, <1>2 DEF TypeOK
  <2>2. torn' \in BOOLEAN
      BY <1>1, Zenon
  <2>3. /\ SessionRecvBuf' \in [Cells -> Byte]
        /\ BufHead' \in Cells /\ BufTail' \in Cells /\ BufDataSize' \in 0 .. Width - 1
        /\ accepted' \in Seq(Byte)
      BY <1>1, <1>2, <1>d, SetDataType
  <2>4. unsent' \in Seq(Byte)
      BY <1>1, EmptySeq
  <2>5. made' \in 0 .. MaxPackets /\ popped' \in Seq(Seq(Byte)) /\ overrun' \in BOOLEAN
        /\ bundled' \in BOOLEAN /\ split' \in BOOLEAN
      BY <1>1, <1>2, <1>3 DEF TypeOK
  <2> QED
      BY <2>1, <2>2, <2>3, <2>4, <2>5 DEF TypeOK
<1>5. Holds'
  <2>1. CASE Fits(data)
      BY <1>1, <1>2, <1>d, <2>1, RingWritten
  <2>2. CASE ~Fits(data)
    <3>1. UNCHANGED <<ringVars, accepted>>
        BY <1>1, <1>d, <2>2 DEF SetDataOnBuf
    <3> QED
        BY <1>2, <3>1 DEF Holds, Cell, ringVars
  <2> QED
      BY <2>1, <2>2
<1>6. torn' => split'
  <2>1. (torn => split) /\ (unsent # <<>> /\ unsent[1].off # 0 => split)
      BY DEF Inv
  <2> QED
      BY <1>1, <2>1, Zenon
<1>7. ASSUME ~torn' PROVE Shape(Pending', made') /\ Taken(popped', Pending', made')
  <2>1. ~torn /\ (unsent = <<>> \/ unsent[1].off = 0)
      BY <1>1, <1>7, Zenon
  <2>2. /\ Held \in Seq(Byte) /\ Pending \in Seq(Byte) /\ Pending = Held \o unsent
        /\ Shape(Pending, made) /\ Taken(popped, Pending, made)
      BY <2>1, InvFacts DEF Pending
  <2>x. PICK x \in Nat : x = Len(Held)
      BY <2>2, SeqFacts
  <2>n. PICK n \in Nat : n = Len(unsent)
      BY <1>2, SeqFacts
  <2>3. Without(Held, Pending, x, n) /\ Border(Pending, x) /\ Border(Pending, x + n)
    <3>1. Shape(Held \o unsent, made)
        BY <2>2
    <3>2. /\ Without(Held, Held \o unsent, Len(Held), Len(unsent))
          /\ Border(Held \o unsent, Len(Held))
          /\ Border(Held \o unsent, Len(Held) + Len(unsent))
        BY <1>2, <2>1, <2>2, <3>1, CutOff
    <3> QED
        BY <2>2, <2>n, <2>x, <3>2
  <2>4. Shape(Held, made) /\ Taken(popped, Held, made)
    <3>1. Shape(Held, made)
        BY <2>2, <2>3, ShapeWithout
    <3>2. Taken(popped, Held, made)
        BY <2>2, <2>3, TakenWithout
    <3> QED
        BY <3>1, <3>2
  <2>5. CASE Fits(data)
    <3>1. Held' = Held \o data
        BY <1>1, <1>2, <1>4, <1>d, <2>5, HeldGrows
    <3>2. Shape(Held \o BytesOf(made + 1, HeadSize), made + 1)
        BY <1>2, <1>3, <2>2, <2>4, ShapeLonger
    <3>3. Taken(popped, Held \o BytesOf(made + 1, HeadSize), made + 1)
        BY <1>2, <1>3, <2>2, <2>4, TakenLonger
    <3>4. Pending' = Held \o data
      <4>1. Held \o data \in Seq(Byte)
          BY <2>2, ConcatProperties
      <4> QED
          BY <1>1, <3>1, <4>1, NoBytes DEF Pending
    <3> QED
        BY <1>1, <1>d, <3>2, <3>3, <3>4
  <2>6. CASE ~Fits(data)
    <3>1. UNCHANGED <<ringVars, accepted>>
        BY <1>1, <1>d, <2>6 DEF SetDataOnBuf
    <3>2. Held' = Held
        BY <3>1 DEF Held, Cell, ringVars
    <3>3. Pending' = Held
        BY <1>1, <2>2, <3>2, NoBytes DEF Pending
    <3>4. Shape(Held, made + 1)
      <4>1. ASSUME NEW i \in 1 .. Len(Held) PROVE Held[i].packet <= made + 1
        <5>1. PICK p \in Nat : p = Held[i].packet
            BY <2>2, SeqFacts
        <5>2. p <= made
            BY <2>4, <5>1 DEF Shape
        <5> QED
            BY <1>2, <5>1, <5>2
      <4> QED
          BY <2>4, <4>1 DEF Shape
    <3>5. Taken(popped, Held, made + 1)
      <4>1. ASSUME NEW i \in 1 .. Len(popped), popped[i] # <<>>
            PROVE  popped[i][1].packet <= made + 1
        <5>1. PICK p \in Nat : p = popped[i][1].packet
            BY <1>2, <4>1, GotFacts
        <5>2. p <= made
            BY <2>4, <4>1, <5>1 DEF Taken
        <5> QED
            BY <1>2, <5>1, <5>2
      <4> QED
          BY <2>4, <4>1 DEF Taken
    <3> QED
        BY <1>1, <3>3, <3>4, <3>5
  <2> QED
      BY <2>5, <2>6
<1> QED
    BY <1>1, <1>4, <1>5, <1>6, <1>7 DEF Inv

(* What a packet thread takes while the stream is whole: the packet in      *)
(* front, when all of it is there; else TCP has the end of it.              *)
LEMMA FrontTaken ==
    ASSUME Inv, TypeOK', ~torn, BufDataSize >= HeadSize, NEW size \in HeaderSizes,
           BufHead' = (BufHead + size) % RingSize,
           BufDataSize' = (BufDataSize + Width - size) % Width,
           UNCHANGED <<SessionRecvBuf, BufTail, accepted, unsent, made>>
    PROVE  /\ size > BufDataSize => split
           /\ size <= BufDataSize =>
                /\ size \in 1 .. Len(Held)
                /\ [k \in 1 .. size |-> Cell(k - 1)] = SubSeq(Held, 1, size)
                /\ Held' = SubSeq(Held, size + 1, Len(Held))
                /\ SubSeq(Held, 1, size) # <<>>
                /\ SubSeq(Held, 1, size)
                       = BytesOf(SubSeq(Held, 1, size)[1].packet, SubSeq(Held, 1, size)[1].size)
                /\ Shape(Pending', made')
                /\ Taken(Append(popped, SubSeq(Held, 1, size)), Pending', made')
<1>1. /\ TypeOK /\ Holds /\ Shape(Pending, made) /\ Taken(popped, Pending, made)
      /\ Held \in Seq(Byte) /\ unsent \in Seq(Byte) /\ Pending \in Seq(Byte)
      /\ popped \in Seq(Seq(Byte)) /\ Pending = Held \o unsent
    BY InvFacts DEF Pending
<1>x. PICK x \in Seq(Byte) : x = Held
    BY <1>1
<1>b. PICK b \in Nat : b = BufDataSize
    BY <1>1, HeldFacts
<1>2. Len(x) = b /\ b >= HeadSize /\ b >= 1
    BY <1>1, <1>b, <1>x, HeldFacts
<1>3. size \in Nat /\ size = x[1].size
    BY <1>1, <1>x, HeaderTells
<1>z. PICK z \in Nat : z = size
    BY <1>3
<1>4. /\ z >= HeadSize /\ x[1].packet <= made
      /\ z > b => unsent # <<>> /\ unsent[1].off # 0
  <2>1. Len(x) >= HeadSize /\ Shape(x \o unsent, made) /\ z = x[1].size
      BY <1>1, <1>2, <1>3, <1>x, <1>z
  <2>2. /\ z >= HeadSize /\ x[1].packet <= made
        /\ z > Len(x) => unsent # <<>> /\ unsent[1].off # 0
      BY <1>1, <2>1, FirstPacket
  <2> QED
      BY <1>2, <2>2
<1>5. z > b => split
    BY <1>4 DEF Inv
<1>6. ASSUME z <= b
      PROVE  /\ z \in 1 .. b
             /\ [k \in 1 .. size |-> Cell(k - 1)] = SubSeq(x, 1, z)
             /\ Held' = SubSeq(x, z + 1, b)
             /\ SubSeq(x, 1, z) # <<>>
             /\ SubSeq(x, 1, z) = BytesOf(SubSeq(x, 1, z)[1].packet, SubSeq(x, 1, z)[1].size)
             /\ Shape(Pending', made')
             /\ Taken(Append(popped, SubSeq(x, 1, z)), Pending', made')
  <2>1. z \in 1 .. b
      BY <1>2, <1>4, <1>6
  <2>2. /\ Held' = SubSeq(x, z + 1, b)
        /\ [k \in 1 .. size |-> Cell(k - 1)] = SubSeq(x, 1, z)
    <3>1. size \in 0 .. BufDataSize /\ size <= BufDataSize
        BY <1>b, <1>z, <2>1
    <3>2. BufDataSize' = BufDataSize - size
        BY <1>1, <3>1, GetType
    <3>3. /\ Held' = SubSeq(Held, size + 1, Len(Held))
          /\ [k \in 1 .. size |-> Cell(k - 1)] = SubSeq(Held, 1, size)
        BY <1>1, <3>1, <3>2, HeldTaken
    <3> QED
        BY <1>2, <1>x, <1>z, <3>3
  <2>3. /\ SubSeq(x, 1, z) = BytesOf(x[1].packet, z)
        /\ SubSeq(x, 1, z) # <<>> /\ SubSeq(x, 1, z)[1] = x[1]
        /\ SubSeq(x, 1, z) \in Seq(Byte) /\ SubSeq(x, z + 1, b) \in Seq(Byte)
        /\ Shape(SubSeq(x, z + 1, b) \o unsent, made)
        /\ Without(SubSeq(x, z + 1, b) \o unsent, x \o unsent, 0, z)
        /\ \A k \in 1 .. Len(SubSeq(x, z + 1, b) \o unsent) :
               x[1].packet < (SubSeq(x, z + 1, b) \o unsent)[k].packet
    <3>u. PICK u \in Seq(Byte) : u = unsent
        BY <1>1
    <3>1. Shape(x \o u, made) /\ Len(x) >= HeadSize /\ z = x[1].size /\ z <= Len(x)
        BY <1>1, <1>2, <1>3, <1>6, <1>x, <1>z, <3>u
    <3>2. /\ SubSeq(x, 1, z) = BytesOf(x[1].packet, z)
          /\ SubSeq(x, 1, z) # <<>> /\ SubSeq(x, 1, z)[1] = x[1]
        BY <3>1, PacketPopped
    <3>3. SubSeq(x, 1, z) \in Seq(Byte) /\ SubSeq(x, z + 1, Len(x)) \in Seq(Byte)
        BY <3>1, PacketPopped
    <3>4. Shape(SubSeq(x, z + 1, Len(x)) \o u, made)
        BY <3>1, PacketPopped
    <3>5. Without(SubSeq(x, z + 1, Len(x)) \o u, x \o u, 0, z)
        BY <3>1, PacketPopped
    <3>6. \A k \in 1 .. Len(SubSeq(x, z + 1, Len(x)) \o u) :
              x[1].packet < (SubSeq(x, z + 1, Len(x)) \o u)[k].packet
        BY <3>1, PacketPopped
    <3> QED
        BY <1>2, <3>2, <3>3, <3>4, <3>5, <3>6, <3>u
  <2>p. PICK piece \in Seq(Byte) : piece = SubSeq(x, 1, z)
      BY <2>3
  <2>e. PICK e \in Seq(Byte) : e = SubSeq(x, z + 1, b) \o unsent
      BY <1>1, <2>3, ConcatProperties
  <2>d. PICK d \in Seq(Byte) : d = Pending /\ d = x \o unsent
      BY <1>1, <1>x
  <2>4. Pending' = e /\ made' = made
      BY <2>2, <2>e DEF Pending
  <2>5. piece # <<>> /\ piece = BytesOf(piece[1].packet, piece[1].size) /\ piece[1] = x[1]
      BY <1>3, <1>z, <2>3, <2>p
  <2>6. Len(d) > 0 /\ d[1] = x[1]
    <3>m. PICK m \in Nat : m = Len(unsent)
        BY <1>1, SeqFacts
    <3>1. Len(d) = b + m /\ \A i \in 1 .. b : d[i] = x[i]
      <4>1. b = Len(x) /\ unsent \in Seq(Byte)
          BY <1>1, <1>2
      <4>2. Len(x \o unsent) = b + m /\ \A i \in 1 .. b : (x \o unsent)[i] = x[i]
          BY <3>m, <4>1, Joined
      <4> QED
          BY <2>d, <4>2
    <3>2. 1 \in 1 .. b /\ b + m > 0
        BY <1>2
    <3> QED
        BY <3>1, <3>2
  <2>7. Taken(popped, e, made)
    <3>1. Taken(popped, d, made)
        BY <1>1, <2>d
    <3>2. Without(e, d, 0, z)
        BY <2>3, <2>d, <2>e
    <3> QED
        BY <3>1, <3>2, TakenWithout
  <2>8. Taken(Append(popped, piece), e, made)
    <3>1. Taken(popped, d, made)
        BY <1>1, <2>d
    <3>2. \A k \in 1 .. Len(e) : piece[1].packet < e[k].packet
        BY <2>3, <2>5, <2>e
    <3>3. piece[1].packet <= made /\ piece[1] = d[1]
        BY <1>4, <2>5, <2>6
    <3> QED
        BY <1>1, <2>5, <2>6, <2>7, <3>1, <3>2, <3>3, TakenMore
  <2> QED
      BY <2>1, <2>2, <2>3, <2>4, <2>5, <2>8, <2>e, <2>p
<1>7. size > BufDataSize => split
    BY <1>5, <1>b, <1>z
<1>8. ASSUME size <= BufDataSize
      PROVE  /\ size \in 1 .. Len(Held)
             /\ [k \in 1 .. size |-> Cell(k - 1)] = SubSeq(Held, 1, size)
             /\ Held' = SubSeq(Held, size + 1, Len(Held))
             /\ SubSeq(Held, 1, size) # <<>>
             /\ SubSeq(Held, 1, size)
                    = BytesOf(SubSeq(Held, 1, size)[1].packet, SubSeq(Held, 1, size)[1].size)
             /\ Shape(Pending', made')
             /\ Taken(Append(popped, SubSeq(Held, 1, size)), Pending', made')
  <2>1. z <= b
      BY <1>8, <1>b, <1>z
  <2> QED
      BY <1>2, <1>6, <1>x, <1>z, <2>1
<1> QED
    BY <1>7, <1>8

(* A packet thread takes what the header in front tells.                    *)
LEMMA PopRecvPacketStep == ASSUME Inv, PopRecvPacket PROVE Inv'
<1>1. /\ RecvPacketQueue > 0 /\ RecvPacketQueue' = RecvPacketQueue - 1
      /\ UNCHANGED <<unsent, made, accepted, bundled, split>> /\ TypeOK
      /\ popped \in Seq(Seq(Byte)) /\ unsent \in Seq(Byte)
    BY InvFacts DEF PopRecvPacket
<1>2. /\ RecvPacketQueue' \in Nat /\ made' \in 0 .. MaxPackets /\ unsent' \in Seq(Byte)
      /\ accepted' \in Seq(Byte) /\ bundled' \in BOOLEAN /\ split' \in BOOLEAN
    BY <1>1 DEF TypeOK
<1>3. ASSUME popped' = (IF torn THEN popped ELSE Append(popped, <<>>)),
             UNCHANGED <<ringVars, torn, overrun>>
      PROVE  Inv'
  <2>1. popped' \in Seq(Seq(Byte))
      BY <1>1, <1>3, EmptySeq, AppendProperties
  <2>2. TypeOK'
      BY <1>1, <1>2, <1>3, <2>1 DEF TypeOK, ringVars
  <2>3. ~overrun' => Holds'
    <3>1. ~overrun' => Holds
        BY <1>3 DEF Inv
    <3> QED
        BY <1>1, <1>3, <3>1 DEF Holds, ringVars, Cell
  <2>4. ASSUME ~torn' PROVE Shape(Pending', made') /\ Taken(popped', Pending', made')
    <3>1. ~torn /\ popped' = Append(popped, <<>>)
        BY <1>3, <2>4
    <3>2. /\ Pending \in Seq(Byte) /\ Shape(Pending, made) /\ Taken(popped, Pending, made)
        BY <3>1, InvFacts
    <3>3. Pending' = Pending /\ made' = made
        BY <1>1, <1>3 DEF Pending, Held, Cell, ringVars
    <3>p. PICK piece \in Seq(Byte) : piece = <<>>
        BY EmptySeq
    <3>4. Taken(Append(popped, piece), Pending, made)
        BY <1>1, <3>2, <3>p, TakenMore
    <3> QED
        BY <3>1, <3>2, <3>3, <3>4, <3>p
  <2>5. (overrun' => torn') /\ (torn' => split')
        /\ (unsent' # <<>> /\ unsent'[1].off # 0 => split')
      BY <1>1, <1>3 DEF Inv
  <2> QED
      BY <2>2, <2>3, <2>4, <2>5 DEF Inv
<1>4. ASSUME BufDataSize >= HeadSize, UNCHANGED <<SessionRecvBuf, BufTail>>,
             NEW size \in HeaderSizes,
             popped' = (IF torn THEN popped
                        ELSE Append(popped, [k \in 1 .. size |-> Cell(k - 1)])),
             BufHead' = (BufHead + size) % RingSize,
             BufDataSize' = (BufDataSize + Width - size) % Width,
             torn' = (torn \/ BufDataSize < size),
             overrun' = (overrun \/ BufDataSize < size)
      PROVE  Inv'
  <2>p. PICK piece : piece = [k \in 1 .. size |-> Cell(k - 1)]
      OBVIOUS
  <2>1. /\ size \in 0 .. RingSize
        /\ BufHead' \in Cells /\ BufDataSize' \in 0 .. Width - 1
        /\ size <= BufDataSize => BufDataSize' = BufDataSize - size
        /\ piece \in Seq(Byte)
      BY <1>1, <1>4, <2>p, GetType
  <2>b. PICK b \in Nat : b = BufDataSize
      BY <1>1 DEF TypeOK
  <2>s. PICK s \in Nat : s = size
      BY <2>1
  <2>2. TypeOK'
    <3>1. popped' \in Seq(Seq(Byte))
        BY <1>1, <1>4, <2>1, <2>p, AppendProperties
    <3>2. torn' \in BOOLEAN
        BY <1>4, Zenon
    <3>3. overrun' \in BOOLEAN
        BY <1>4, Zenon
    <3>4. SessionRecvBuf' \in [Cells -> Byte] /\ BufTail' \in Cells
        BY <1>1, <1>4 DEF TypeOK
    <3> QED
        BY <1>2, <2>1, <3>1, <3>2, <3>3, <3>4 DEF TypeOK
  <2>3. ASSUME ~overrun' PROVE Holds'
    <3>1. ~overrun /\ ~(BufDataSize < size)
        BY <1>4, <2>3, Zenon
    <3>2. size \in 0 .. BufDataSize /\ size <= BufDataSize
        BY <2>1, <2>b, <2>s, <3>1
    <3>3. BufDataSize' = BufDataSize - size /\ Holds
        BY <2>1, <3>1, <3>2 DEF Inv
    <3> QED
        BY <1>1, <1>4, <3>2, <3>3, RingPopped
  <2>4. overrun' => torn'
    <3>1. overrun => torn
        BY DEF Inv
    <3> QED
        BY <1>4, <3>1, Zenon
  <2>5. ASSUME ~torn
        PROVE  /\ size > BufDataSize => split
               /\ size <= BufDataSize => /\ piece = SubSeq(Held, 1, size)
                                         /\ Shape(Pending', made')
                                         /\ Taken(Append(popped, piece), Pending', made')
      BY <1>1, <1>4, <2>2, <2>5, <2>p, FrontTaken
  <2>6. torn' => split'
    <3>1. CASE torn
        BY <1>1, <3>1 DEF Inv
    <3>2. CASE ~torn /\ BufDataSize < size
      <4>1. size > BufDataSize
          BY <2>b, <2>s, <3>2
      <4> QED
          BY <1>1, <2>5, <3>2, <4>1
    <3>3. torn' => torn \/ (~torn /\ BufDataSize < size)
        BY <1>4, Zenon
    <3> QED
        BY <3>1, <3>2, <3>3, Zenon
  <2>7. ASSUME ~torn' PROVE Shape(Pending', made') /\ Taken(popped', Pending', made')
    <3>1. ~torn /\ ~(BufDataSize < size)
        BY <1>4, <2>7, Zenon
    <3>2. size <= BufDataSize
        BY <2>b, <2>s, <3>1
    <3>3. popped' = Append(popped, piece)
        BY <1>4, <2>p, <3>1
    <3> QED
        BY <2>5, <3>1, <3>2, <3>3
  <2>8. unsent' # <<>> /\ unsent'[1].off # 0 => split'
      BY <1>1 DEF Inv
  <2> QED
      BY <2>2, <2>3, <2>4, <2>6, <2>7, <2>8 DEF Inv
<1> QED
  <2>1. \/ /\ popped' = (IF torn THEN popped ELSE Append(popped, <<>>))
           /\ UNCHANGED <<ringVars, torn, overrun>>
        \/ /\ BufDataSize >= HeadSize /\ UNCHANGED <<SessionRecvBuf, BufTail>>
           /\ \E size \in HeaderSizes :
                /\ popped' = (IF torn THEN popped
                              ELSE Append(popped, [k \in 1 .. size |-> Cell(k - 1)]))
                /\ BufHead' = (BufHead + size) % RingSize
                /\ BufDataSize' = (BufDataSize + Width - size) % Width
                /\ torn' = (torn \/ BufDataSize < size)
                /\ overrun' = (overrun \/ BufDataSize < size)
      BY DEF PopRecvPacket
  <2> QED
      BY <1>3, <1>4, <2>1

(* Nothing happens. *)
LEMMA Stutter == ASSUME Inv, UNCHANGED vars PROVE Inv'
<1>1. UNCHANGED <<SessionRecvBuf, BufHead, BufTail, BufDataSize, RecvPacketQueue, unsent,
                  made, accepted, popped, torn, overrun, bundled, split>>
    BY DEF vars, ringVars
<1>2. /\ TypeOK' /\ (overrun' => torn') /\ (torn' => split')
      /\ (unsent' # <<>> /\ unsent'[1].off # 0 => split')
    BY <1>1 DEF Inv, TypeOK
<1>3. ~overrun' => Holds'
  <2>1. Holds => Holds'
      BY <1>1 DEF Holds, Cell
  <2> QED
      BY <1>1, <2>1 DEF Inv
<1>4. ~torn' => Shape(Pending', made') /\ Taken(popped', Pending', made')
  <2>1. Pending' = Pending
      BY <1>1 DEF Pending, Held, Cell
  <2> QED
      BY <1>1, <2>1 DEF Inv
<1> QED
    BY <1>2, <1>3, <1>4 DEF Inv

(* Whatever is sent, received, refused and popped, in any order, Inv holds. *)
THEOREM Invariance == Spec => []Inv
<1>1. Inv /\ [Next]_vars => Inv'
    BY SendStep, ReceiveStep, PushSystemPacketStep, PopRecvPacketStep, Stutter DEF Next
<1> QED
    BY InitInv, <1>1, PTL DEF Spec

(* The ring's indices and size, the queue and the histories keep their      *)
(* types (SetDataOnBuf, GetDataOnBuf).                                      *)
THEOREM TypeCorrect == Spec => []TypeOK
<1>1. Inv => TypeOK
    BY DEF Inv
<1> QED
    BY Invariance, <1>1, PTL

(* The ring holds no more than fits, and that is the last BufDataSize bytes *)
(* it accepted, in order, as long as no more was taken out than it had,     *)
(* however TCP cut the stream and whatever the full ring refused            *)
(* (SetDataOnBuf, GetDataOnBuf).                                            *)
THEOREM RingKept == Spec => []RingHoldsAccepted
<1>1. Inv => RingHoldsAccepted
  <2> SUFFICES ASSUME Inv, ~overrun
               PROVE  /\ BufDataSize <= RingSize /\ BufDataSize <= Len(accepted)
                      /\ Held = SubSeq(accepted, Len(accepted) - BufDataSize + 1, Len(accepted))
      BY DEF RingHoldsAccepted, Held
  <2>1. TypeOK /\ Holds /\ accepted \in Seq(Byte)
      BY DEF Inv, TypeOK
  <2>b. PICK b \in Nat : b = BufDataSize
      BY <2>1, HeldFacts
  <2>l. PICK l \in Nat : l = Len(accepted)
      BY <2>1, SeqFacts
  <2>x. PICK x \in Seq(Byte) : x = Held
      BY <2>1, HeldFacts
  <2>2. /\ Len(x) = b /\ b <= l
        /\ \A k \in 1 .. b : x[k] = accepted[l - b + k]
      BY <2>1, HeldFacts, <2>b, <2>l, <2>x
  <2>n. PICK n \in 0 .. l : n = l - b
      BY <2>2
  <2>3. /\ SubSeq(accepted, n + 1, l) \in Seq(Byte)
        /\ Len(SubSeq(accepted, n + 1, l)) = l - n
        /\ \A k \in 1 .. l - n : SubSeq(accepted, n + 1, l)[k] = accepted[n + k]
      BY <2>1, <2>l, Rest
  <2>4. x = SubSeq(accepted, n + 1, l)
    <3>1. l - n = b /\ \A k \in 1 .. b : l - b + k = n + k
        BY <2>2, <2>n
    <3> QED
        BY <2>2, <2>3, <3>1, SeqEqual
  <2>5. BufDataSize <= RingSize
      BY <2>1 DEF Holds
  <2> QED
      BY <2>2, <2>4, <2>5, <2>b, <2>l, <2>n, <2>x
<1> QED
    BY Invariance, <1>1, PTL

(* Each packet a packet thread gets is one whole packet, later than those   *)
(* before, until the stream is torn, which takes a receive that was not     *)
(* whole packets (PopRecvPacket, PushRecvPacket).                           *)
THEOREM PacketsWhole == Spec => []WholePackets
<1>1. Inv => WholePackets
  <2> SUFFICES ASSUME Inv PROVE WholePackets
      OBVIOUS
  <2>1. torn => split
      BY DEF Inv
  <2>2. ASSUME ~torn, NEW i \in DOMAIN popped, popped[i] # <<>>
        PROVE  /\ popped[i] = BytesOf(popped[i][1].packet, popped[i][1].size)
               /\ \A j \in 1 .. i - 1 : popped[j] # <<>> =>
                      popped[j][1].packet < popped[i][1].packet
    <3>1. i \in 1 .. Len(popped)
        BY DEF Inv, TypeOK
    <3> QED
        BY <2>2, <3>1 DEF Inv, Taken
  <2> QED
      BY <2>1, <2>2 DEF WholePackets
<1> QED
    BY Invariance, <1>1, PTL

-----------------------------------------------------------------------------
(* The ring starts as an empty stream. *)
LEMMA RefinesInit == Init => Packets!Init
<1> SUFFICES ASSUME Init PROVE Packets!Init
    OBVIOUS
<1>1. Held = <<>>
    BY DEF Init, Held
<1> QED
    BY <1>1 DEF Init, Packets!Init, Packets!Nothing

(* What the ring accepts makes the stream longer, and only at its end.      *)
LEMMA StreamGrows ==
    ASSUME TypeOK, TypeOK', Holds, NEW data \in Seq(Byte), SetDataOnBuf(data)
    PROVE  \/ Held' = Held
           \/ /\ Held' \in Seq(Byte) /\ Len(Held') > Len(Held)
              /\ SubSeq(Held', 1, Len(Held)) = Held
<1>1. CASE ~Fits(data)
    BY <1>1 DEF SetDataOnBuf, Held, Cell, ringVars
<1>2. CASE Fits(data)
  <2>x. PICK x \in Seq(Byte) : x = Held
      BY HeldFacts
  <2>b. PICK b \in Nat : b = Len(x)
      BY SeqFacts
  <2>n. PICK n \in Nat : n = Len(data)
      BY SeqFacts
  <2>y. PICK y \in Seq(Byte) : y = Held' /\ y = x \o data
    <3>1. Held' = Held \o data
        BY <1>2, HeldGrows
    <3> QED
        BY <2>x, <3>1, ConcatProperties
  <2>1. Len(y) = b + n /\ \A i \in 1 .. b : y[i] = x[i]
    <3>1. Len(x \o data) = b + n /\ \A i \in 1 .. b : (x \o data)[i] = x[i]
        BY <2>b, <2>n, Joined
    <3> QED
        BY <2>y, <3>1
  <2>2. CASE n = 0
    <3>1. \A i \in 1 .. b + n : i \in 1 .. b
        BY <2>2
    <3>2. y = x
        BY <2>1, <2>2, <2>b, <3>1, SeqEqual
    <3> QED
        BY <2>x, <2>y, <3>2
  <2>3. CASE n > 0
    <3>1. b \in 0 .. Len(y) /\ Len(y) > b
        BY <2>1, <2>3
    <3>2. /\ SubSeq(y, 1, b) \in Seq(Byte) /\ Len(SubSeq(y, 1, b)) = b
          /\ \A k \in 1 .. b : SubSeq(y, 1, b)[k] = y[k]
        BY <3>1, Front
    <3>3. SubSeq(y, 1, b) = x
        BY <2>1, <2>b, <3>2, SeqEqual
    <3> QED
        BY <2>b, <2>x, <2>y, <3>1, <3>3
  <2> QED
      BY <2>2, <2>3
<1> QED
    BY <1>1, <1>2

(* A packet thread that finds a whole header takes the packet in front of   *)
(* the stream, all of it, and leaves the others, unless that tears it.      *)
LEMMA StreamTaken ==
    ASSUME Inv, Inv', ~torn, ~torn', PopRecvPacket, BufDataSize >= HeadSize
    PROVE  \E n \in 1 .. Len(Held) :
               /\ Packets!Whole(SubSeq(Held, 1, n))
               /\ popped' = Append(popped, SubSeq(Held, 1, n))
               /\ Held' = SubSeq(Held, n + 1, Len(Held))
<1>1. TypeOK /\ TypeOK' /\ UNCHANGED <<accepted, unsent, made>>
    BY DEF Inv, PopRecvPacket
<1>b. PICK b \in Nat : b = BufDataSize
    BY <1>1 DEF TypeOK
<1>2. PICK size \in HeaderSizes :
          /\ popped' = Append(popped, [k \in 1 .. size |-> Cell(k - 1)])
          /\ BufHead' = (BufHead + size) % RingSize
          /\ BufDataSize' = (BufDataSize + Width - size) % Width
          /\ torn' = (torn \/ BufDataSize < size)
          /\ UNCHANGED <<SessionRecvBuf, BufTail>>
  <2>1. ~(BufDataSize < HeadSize)
      BY <1>b
  <2> QED
      BY <2>1, Zenon DEF PopRecvPacket
<1>3. size \in Nat
    BY <1>1, <1>2, GetType
<1>4. size <= BufDataSize
  <2>1. ~(BufDataSize < size)
      BY <1>2, Zenon
  <2> QED
      BY <1>3, <1>b, <2>1
<1>5. /\ size \in 1 .. Len(Held)
      /\ [k \in 1 .. size |-> Cell(k - 1)] = SubSeq(Held, 1, size)
      /\ Held' = SubSeq(Held, size + 1, Len(Held))
      /\ SubSeq(Held, 1, size) # <<>>
      /\ SubSeq(Held, 1, size)
             = BytesOf(SubSeq(Held, 1, size)[1].packet, SubSeq(Held, 1, size)[1].size)
    BY <1>1, <1>2, <1>4, FrontTaken
<1>6. Packets!Whole(SubSeq(Held, 1, size))
  <2>1. PICK piece : piece = SubSeq(Held, 1, size)
      OBVIOUS
  <2>2. piece # <<>> /\ piece = BytesOf(piece[1].packet, piece[1].size)
      BY <1>5, <2>1
  <2>3. Packets!Whole(piece)
      BY <2>2 DEF Packets!Whole, BytesOf
  <2> QED
      BY <2>1, <2>3
<1> QED
    BY <1>2, <1>5, <1>6

(* Every step of the session is a step of the stream, or none. *)
LEMMA RefinesNext == Inv /\ [Next]_vars => [Packets!Next]_(Packets!vars)
<1> SUFFICES ASSUME Inv, [Next]_vars PROVE [Packets!Next]_(Packets!vars)
    OBVIOUS
<1>1. Inv'
    BY SendStep, ReceiveStep, PushSystemPacketStep, PopRecvPacketStep, Stutter DEF Next
<1>2. torn \in BOOLEAN /\ torn' \in BOOLEAN /\ TypeOK /\ TypeOK'
    BY <1>1 DEF Inv, TypeOK
<1>3. CASE torn
  <2>1. torn'
      BY <1>3 DEF Next, Send, Receive, PushSystemPacket, PopRecvPacket, vars
  <2> QED
      BY <1>2, <1>3, <2>1 DEF Packets!vars
<1>4. CASE ~torn /\ torn'
  <2>1. Packets!Tear
      BY <1>2, <1>4 DEF Packets!Tear, Packets!Nothing
  <2> QED
      BY <2>1 DEF Packets!Next
<1>5. CASE ~torn /\ ~torn'
  <2>h. Holds
      BY <1>5, InvFacts
  <2>1. CASE Receive \/ PushSystemPacket
    <3>1. popped' = popped /\ \E data \in Seq(Byte) : SetDataOnBuf(data)
      <4>1. CASE Receive
        <5>1. PICK n \in 1 .. Len(unsent) : PushRecvPacket(SubSeq(unsent, 1, n))
            BY <4>1 DEF Receive
        <5>2. unsent \in Seq(Byte)
            BY <1>2 DEF TypeOK
        <5>3. n \in 0 .. Len(unsent)
            BY <5>2, SeqFacts
        <5>4. SubSeq(unsent, 1, n) \in Seq(Byte)
            BY <5>2, <5>3, Front
        <5> QED
            BY <5>1, <5>4 DEF PushRecvPacket
      <4>2. CASE PushSystemPacket
        <5>1. made \in Nat /\ made < MaxPackets
            BY <1>2, <4>2 DEF PushSystemPacket, TypeOK
        <5>2. made + 1 \in 0 .. MaxPackets /\ HeadSize \in 0 .. RingSize
            BY <5>1
        <5>3. BytesOf(made + 1, HeadSize) \in Seq(Byte)
            BY <5>2, PacketFacts
        <5> QED
            BY <4>2, <5>3 DEF PushSystemPacket
      <4> QED
          BY <2>1, <4>1, <4>2
    <3>2. \/ Held' = Held
          \/ /\ Held' \in Seq(Byte) /\ Len(Held') > Len(Held)
             /\ SubSeq(Held', 1, Len(Held)) = Held
        BY <1>2, <2>h, <3>1, StreamGrows
    <3>3. CASE Held' = Held
        BY <1>2, <1>5, <3>1, <3>3 DEF Packets!vars
    <3>4. CASE /\ Held' \in Seq(Byte) /\ Len(Held') > Len(Held)
               /\ SubSeq(Held', 1, Len(Held)) = Held
      <4>1. Packets!Arrive
          BY <1>2, <1>5, <3>1, <3>4 DEF Packets!Arrive
      <4> QED
          BY <4>1 DEF Packets!Next
    <3> QED
        BY <3>2, <3>3, <3>4
  <2>2. CASE PopRecvPacket /\ BufDataSize >= HeadSize
    <3>1. \E n \in 1 .. Len(Held) :
              /\ Packets!Whole(SubSeq(Held, 1, n))
              /\ popped' = Append(popped, SubSeq(Held, 1, n))
              /\ Held' = SubSeq(Held, n + 1, Len(Held))
        BY <1>1, <1>5, <2>2, StreamTaken
    <3>2. Packets!Take
        BY <1>2, <1>5, <3>1 DEF Packets!Take
    <3> QED
        BY <3>2 DEF Packets!Next
  <2>3. CASE PopRecvPacket /\ ~(BufDataSize >= HeadSize)
    <3>1. popped' = Append(popped, <<>>) /\ UNCHANGED ringVars
        BY <1>5, <2>3 DEF PopRecvPacket
    <3>2. Held' = Held
        BY <3>1 DEF Held, Cell, ringVars
    <3>3. Len(Held) < HeadSize
      <4>1. Len(Held) = BufDataSize /\ BufDataSize \in Nat
          BY <1>2, <2>h, HeldFacts
      <4> QED
          BY <2>3, <4>1
    <3>4. Packets!TakeNothing
        BY <1>2, <1>5, <3>1, <3>2, <3>3 DEF Packets!TakeNothing
    <3> QED
        BY <3>4 DEF Packets!Next
  <2>4. CASE Send \/ UNCHANGED vars
    <3>1. Held' = Held /\ popped' = popped
        BY <2>4 DEF Send, vars, ringVars, Held, Cell
    <3> QED
        BY <1>2, <1>5, <3>1 DEF Packets!vars
  <2> QED
      BY <2>1, <2>2, <2>3, <2>4 DEF Next
<1> QED
    BY <1>2, <1>3, <1>4, <1>5

(* Until the stream is torn, the ring is a stream of packets: however TCP   *)
(* cuts it, whatever is refused and wherever it wraps, a packet thread gets *)
(* the packet in front and none is skipped (PopRecvPacket).                 *)
THEOREM ImplementsStream == Spec => PacketsSpec
BY Invariance, RefinesInit, RefinesNext, PTL DEF Spec, PacketsSpec, Packets!Spec
=============================================================================
