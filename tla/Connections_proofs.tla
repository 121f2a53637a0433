------------------------- MODULE Connections_proofs -------------------------
(***************************************************************************)
(* Proofs about Connections, for any number of slots, sockets, workers and *)
(* refused accepts.                                                        *)
(***************************************************************************)
EXTENDS Connections, FiniteSetTheorems, SequenceTheorems, TLAPS

Types ==
    /\ sock \in [Sockets -> {"unused", "posted", "aborted", "open", "left", "closed"}]
    /\ slotOf \in [Sockets -> Slots]
    /\ recv \in [Sockets -> Nat] /\ send \subseteq Sockets
    /\ done \in [Completions -> [Slots -> Nat]]
    /\ rebinding \in [Slots -> Nat]
    /\ SocketClient \in [Slots -> Sockets \cup {None}]
    /\ IsSending \subseteq Slots
    /\ EmptySocketQue \in Seq(Slots)
    /\ posted \in 0 .. MaxClientCount /\ refused \in Nat
    /\ missed \subseteq Sockets

Used(k) == sock[k] # "unused"

(* Sockets are made in order. *)
UsedFirst == \E n \in 0 .. MaxSockets : \A k \in Sockets : Used(k) <=> k <= n

(* A slot holds a socket that was posted for it, and only a slot that the   *)
(* first loop came to has sockets, completions or workers.                  *)
KeysAgree ==
    /\ \A s \in Slots : SocketClient[s] # None
           => Used(SocketClient[s]) /\ slotOf[SocketClient[s]] = s
    /\ \A k \in Sockets : Used(k) => slotOf[k] < posted
    /\ \A s \in Slots : s >= posted
           => rebinding[s] = 0 /\ \A c \in Completions : done[c][s] = 0

(* All but slot 0 have one socket ever: only slot 0 is posted again. *)
OneSocket ==
    \A j, k \in Sockets :
        Used(j) /\ Used(k) /\ slotOf[j] = slotOf[k] /\ slotOf[j] # 0 => j = k

(* Only a socket that was connected has operations, and only one that is no *)
(* longer makes them fail.                                                  *)
OpsBegun ==
    \A k \in Sockets : recv[k] > 0 \/ k \in send => sock[k] \in {"open", "left", "closed"}

BrokenLeft ==
    \A k \in Sockets : LET s == slotOf[k] IN
        Used(k) /\ s # 0 /\ (done["recvBroken"][s] > 0 \/ done["sendBroken"][s] > 0)
            => sock[k] \in {"left", "closed"}

(* The receives of a socket, from BindRecv to the end of what handles them; *)
(* the first is the completion of the accept.                               *)
Handled(s) ==
    rebinding[s] + done["accept"][s] + done["recv"][s] + done["recvBroken"][s]

ReceivesOf(k) == recv[k] + Handled(slotOf[k])

(* Before a client connects there is nothing to handle; from then on there  *)
(* is one receive.                                                          *)
OneReceive ==
    \A k \in Sockets : slotOf[k] # 0 =>
        /\ sock[k] = "posted" => SocketClient[slotOf[k]] = k /\ ReceivesOf(k) = 0
        /\ sock[k] \in {"open", "left"} /\ k \notin missed
               => SocketClient[slotOf[k]] = k /\ ReceivesOf(k) = 1

Inv == /\ Types /\ UsedFirst /\ KeysAgree /\ OneSocket
       /\ OpsBegun /\ BrokenLeft /\ OneReceive

(* What there is to know of the constant sets. *)
LEMMA Numbers ==
    /\ \A s \in Slots : s \in Nat /\ s < MaxClientCount
    /\ \A s \in 0 .. MaxClientCount : s < MaxClientCount => s \in Slots
    /\ 0 \in Slots
    /\ \A k \in Sockets : k \in Nat \ {0} /\ k <= MaxSockets
    /\ \A k \in 1 .. MaxSockets : k \in Sockets
    /\ None \notin Sockets /\ None = 0
    /\ MaxClientCount \in Nat /\ MaxSockets \in Nat
BY CountAssumption, SocketsAssumption DEF Sockets, Slots, None

(* The initial states satisfy the invariant. *)
LEMMA InitInv == Init => Inv
<1> SUFFICES ASSUME Init PROVE Inv
    OBVIOUS
<1>1. Types
    BY Numbers DEF Init, Types
<1>2. UsedFirst
  <2>1. 0 \in 0 .. MaxSockets /\ \A k \in Sockets : Used(k) <=> k <= 0
      BY Numbers DEF Init, Used
  <2> QED
      BY <2>1 DEF UsedFirst
<1>3. KeysAgree /\ OneSocket /\ OpsBegun /\ BrokenLeft /\ OneReceive
    BY Numbers DEF Init, KeysAgree, OneSocket, OpsBegun, BrokenLeft, OneReceive, Used
<1> QED
    BY <1>1, <1>2, <1>3 DEF Inv

-----------------------------------------------------------------------------
(* The next socket is one that was never used. *)
LEMMA NextSocket ==
    ASSUME Types, UsedFirst, NEW k \in Sockets,
           k = 1 + Cardinality(Sockets \ Are({"unused"}))
    PROVE  \A j \in Sockets : Used(j) <=> j < k
<1>1. PICK n \in 0 .. MaxSockets : \A j \in Sockets : Used(j) <=> j <= n
    BY DEF UsedFirst
<1>2. Sockets \ Are({"unused"}) = 1 .. n
  <2>1. \A j : j \in Sockets \ Are({"unused"}) <=> j \in Sockets /\ Used(j)
      BY DEF Are, Used
  <2>2. \A j : j \in 1 .. n <=> j \in Sockets /\ j <= n
      BY SocketsAssumption DEF Sockets
  <2> DEFINE A == Sockets \ Are({"unused"})
             B == 1 .. n
  <2>3. \A j : j \in A <=> j \in B
      BY <1>1, <2>1, <2>2
  <2> HIDE DEF A, B
  <2>4. A = B
      BY <2>3
  <2> QED
      BY <2>4 DEF A, B
<1>3. Cardinality(1 .. n) = n
  <2>1. 1 \in Int /\ n \in Int
      BY Numbers
  <2>2. Cardinality(1 .. n) = IF 1 > n THEN 0 ELSE n - 1 + 1
      BY <2>1, FS_Interval
  <2> QED
      BY <2>1, <2>2, Numbers
<1>4. k = 1 + n
    BY <1>2, <1>3
<1>5. \A j \in Sockets : j \in Nat
    BY Numbers
<1>6. n \in Nat
    BY Numbers
<1> QED
    BY <1>1, <1>4, <1>5, <1>6

(* A posted accept takes a new socket to its slot; or there is none. *)
LEMMA PostAcceptStep ==
    ASSUME Inv, NEW s \in Slots, PostAccept(s), s = 0 \/ s = posted,
           s < posted', posted' \in posted .. MaxClientCount,
           UNCHANGED <<recv, send, done, rebinding, missed, IsSending>>,
           EmptySocketQue' \in Seq(Slots)
    PROVE  Inv'
<1>1. Types /\ UsedFirst /\ KeysAgree /\ OneSocket /\ OpsBegun /\ BrokenLeft /\ OneReceive
    BY DEF Inv
<1>a. posted \in Nat /\ posted' \in Nat /\ posted <= posted' /\ posted' <= MaxClientCount
    BY <1>1, Numbers DEF Types
<1>b. \A r \in Slots : r \in Nat
    BY Numbers
<1>c. posted' \in 0 .. MaxClientCount
    BY <1>a, Numbers
<1>2. CASE /\ refused' = refused + 1 /\ SocketClient' = [SocketClient EXCEPT ![s] = None]
           /\ UNCHANGED <<sock, slotOf>>
  <2>1. Types'
      BY <1>1, <1>2, <1>c DEF Types
  <2>2. /\ SocketClient'[s] = None
        /\ \A r \in Slots : r # s => SocketClient'[r] = SocketClient[r]
      BY <1>1, <1>2 DEF Types
  <2>3. UsedFirst' /\ OneSocket' /\ OpsBegun' /\ BrokenLeft'
      BY <1>1, <1>2 DEF UsedFirst, OneSocket, OpsBegun, BrokenLeft, Used
  <2>4. KeysAgree'
    <3>1. \A r \in Slots : SocketClient'[r] # None
              => sock'[SocketClient'[r]] # "unused" /\ slotOf'[SocketClient'[r]] = r
        BY <1>1, <1>2, <2>2 DEF KeysAgree, Used
    <3>2. \A k \in Sockets : Used(k)' => slotOf'[k] < posted'
      <4>1. \A k \in Sockets : Used(k) => slotOf[k] < posted /\ slotOf[k] \in Nat
          BY <1>1, <1>b DEF KeysAgree, Types
      <4>2. \A k \in Sockets : Used(k)' <=> Used(k)
          BY <1>2 DEF Used
      <4>3. slotOf' = slotOf
          BY <1>2
      <4> QED
          BY <4>1, <4>2, <4>3, <1>a
    <3>3. \A r \in Slots : r >= posted'
              => rebinding'[r] = 0 /\ \A c \in Completions : done'[c][r] = 0
        BY <1>1, <1>a, <1>b DEF KeysAgree
    <3> QED
        BY <3>1, <3>2, <3>3 DEF KeysAgree, Used
  <2>5. OneReceive'
    <3>1. \A k \in Sockets : Used(k) /\ slotOf[k] # 0 => slotOf[k] # s /\ slotOf[k] \in Slots
      <4>1. \A k \in Sockets : Used(k) => slotOf[k] < posted /\ slotOf[k] \in Slots
          BY <1>1 DEF KeysAgree, Types
      <4> QED
          BY <4>1, <1>b, <1>a
    <3>2. \A k \in Sockets : ReceivesOf(k)' = ReceivesOf(k)
        BY <1>2 DEF ReceivesOf, Handled
    <3> QED
        BY <1>1, <1>2, <2>2, <3>1, <3>2 DEF OneReceive, Used
  <2> QED
      BY <2>1, <2>3, <2>4, <2>5 DEF Inv
<1>3. CASE \E k \in Sockets :
               /\ k = 1 + Cardinality(Sockets \ Are({"unused"}))
               /\ sock' = [sock EXCEPT ![k] = "posted"]
               /\ slotOf' = [slotOf EXCEPT ![k] = s]
               /\ SocketClient' = [SocketClient EXCEPT ![s] = k]
               /\ UNCHANGED refused
  <2>1. PICK k \in Sockets :
               /\ k = 1 + Cardinality(Sockets \ Are({"unused"}))
               /\ sock' = [sock EXCEPT ![k] = "posted"]
               /\ slotOf' = [slotOf EXCEPT ![k] = s]
               /\ SocketClient' = [SocketClient EXCEPT ![s] = k]
               /\ UNCHANGED refused
      BY <1>3
  <2>2. \A j \in Sockets : Used(j) <=> j < k
      BY <1>1, <2>1, NextSocket
  <2>3. /\ sock'[k] = "posted" /\ slotOf'[k] = s /\ SocketClient'[s] = k
        /\ \A j \in Sockets : j # k => sock'[j] = sock[j] /\ slotOf'[j] = slotOf[j]
        /\ \A r \in Slots : r # s => SocketClient'[r] = SocketClient[r]
      BY <1>1, <2>1 DEF Types
  <2>4. ~Used(k) /\ \A j \in Sockets : Used(j)' <=> Used(j) \/ j = k
    <3>1. k \in Nat
        BY Numbers
    <3> QED
        BY <2>2, <2>3, <3>1 DEF Used
  <2>5. Types'
      BY <1>1, <2>1, <1>c DEF Types
  <2>6. UsedFirst'
    <3>1. k \in 0 .. MaxSockets /\ \A j \in Sockets : j \in Nat
        BY Numbers
    <3>2. \A j \in Sockets : Used(j)' <=> j <= k
        BY <2>2, <2>4, <3>1
    <3> QED
        BY <3>1, <3>2 DEF UsedFirst
  <2>7. KeysAgree'
    <3>1. \A r \in Slots : SocketClient'[r] # None
              => sock'[SocketClient'[r]] # "unused" /\ slotOf'[SocketClient'[r]] = r
      <4>1. \A r \in Slots : SocketClient[r] # None =>
                /\ SocketClient[r] \in Sockets /\ SocketClient[r] # k
                /\ sock[SocketClient[r]] # "unused" /\ slotOf[SocketClient[r]] = r
          BY <1>1, <2>4 DEF KeysAgree, Types, Used
      <4> QED
          BY <2>3, <4>1
    <3>2. \A j \in Sockets : Used(j)' => slotOf'[j] < posted'
      <4>1. \A j \in Sockets : Used(j) => slotOf[j] < posted /\ slotOf[j] \in Nat
          BY <1>1, <1>b DEF KeysAgree, Types
      <4> QED
          BY <4>1, <2>3, <2>4, <1>a
    <3>3. \A r \in Slots : r >= posted'
              => rebinding'[r] = 0 /\ \A c \in Completions : done'[c][r] = 0
        BY <1>1, <1>a, <1>b DEF KeysAgree
    <3> QED
        BY <3>1, <3>2, <3>3 DEF KeysAgree, Used
  <2>8. s # 0 => /\ \A j \in Sockets : Used(j) => slotOf[j] # s
                 /\ rebinding[s] = 0 /\ \A c \in Completions : done[c][s] = 0
    <3>1. \A j \in Sockets : Used(j) => slotOf[j] < posted /\ slotOf[j] \in Nat
        BY <1>1, <1>b DEF KeysAgree, Types
    <3>2. s # 0 => s >= posted /\ s = posted
        BY <1>a
    <3> QED
        BY <1>1, <3>1, <3>2, <1>a DEF KeysAgree
  <2>9. OneSocket'
      BY <1>1, <2>3, <2>4, <2>8 DEF OneSocket
  <2>10. OpsBegun'
      BY <1>1, <2>3, <2>4 DEF OpsBegun, Used
  <2>11. BrokenLeft'
    <3>1. s # 0 => done["recvBroken"][s] = 0 /\ done["sendBroken"][s] = 0
        BY <2>8 DEF Completions
    <3> QED
        BY <1>1, <2>3, <2>4, <3>1 DEF BrokenLeft, Used
  <2>12. OneReceive'
    <3> SUFFICES ASSUME NEW j \in Sockets, slotOf'[j] # 0
                 PROVE  /\ sock'[j] = "posted"
                               => SocketClient'[slotOf'[j]] = j /\ ReceivesOf(j)' = 0
                        /\ sock'[j] \in {"open", "left"} /\ j \notin missed'
                               => SocketClient'[slotOf'[j]] = j /\ ReceivesOf(j)' = 1
        BY DEF OneReceive
    <3>1. CASE j = k
      <4>1. recv[k] = 0
        <5>1. recv[k] \in Nat /\ ~(recv[k] > 0)
            BY <1>1, <2>4 DEF OpsBegun, Used, Types
        <5> QED
            BY <5>1
      <4>2. ReceivesOf(j)' = 0
        <5>1. ReceivesOf(j)' = recv[k] + (rebinding[s] + done["accept"][s] + done["recv"][s]
                                            + done["recvBroken"][s])
            BY <2>3, <3>1 DEF ReceivesOf, Handled
        <5>2. rebinding[s] = 0 /\ done["accept"][s] = 0 /\ done["recv"][s] = 0
              /\ done["recvBroken"][s] = 0
            BY <2>3, <2>8, <3>1 DEF Completions
        <5> QED
            BY <4>1, <5>1, <5>2
      <4> QED
          BY <2>3, <3>1, <4>2
    <3>2. CASE j # k
      <4>1. sock'[j] = sock[j] /\ slotOf'[j] = slotOf[j] /\ ReceivesOf(j)' = ReceivesOf(j)
          BY <2>3, <3>2 DEF ReceivesOf, Handled
      <4>2. Used(j) => slotOf[j] # s /\ slotOf[j] \in Slots
          BY <1>1, <2>8, <4>1 DEF Types
      <4>3. Used(j) => SocketClient'[slotOf[j]] = SocketClient[slotOf[j]]
          BY <2>3, <4>2
      <4> QED
          BY <1>1, <4>1, <4>3 DEF OneReceive, Used
    <3> QED
        BY <3>1, <3>2
  <2> QED
      BY <2>5, <2>6, <2>7, <2>9, <2>10, <2>11, <2>12 DEF Inv
<1> QED
    BY <1>2, <1>3 DEF PostAccept
-----------------------------------------------------------------------------
(* The counts of completions. *)
LEMMA CompletesFacts ==
    ASSUME Types, NEW c \in Completions, NEW s \in Slots, Completes(c, s)
    PROVE  /\ done' \in [Completions -> [Slots -> Nat]]
           /\ done'[c][s] = done[c][s] + 1
           /\ \A d \in Completions : \A r \in Slots :
                 d # c \/ r # s => done'[d][r] = done[d][r]
BY DEF Types, Completes

LEMMA TakesFacts ==
    ASSUME Types, NEW c \in Completions, NEW s \in Slots, Takes(c, s)
    PROVE  /\ done' \in [Completions -> [Slots -> Nat]]
           /\ done[c][s] \in Nat \ {0} /\ done'[c][s] = done[c][s] - 1
           /\ \A d \in Completions : \A r \in Slots :
                 d # c \/ r # s => done'[d][r] = done[d][r]
<1>1. done[c][s] \in Nat /\ done[c][s] > 0
    BY DEF Types, Takes
<1>2. done' = [done EXCEPT ![c][s] = done[c][s] - 1]
    BY DEF Takes
<1>3. done[c][s] - 1 \in Nat
    BY <1>1
<1> HIDE DEF Takes
<1> QED
    BY <1>1, <1>2, <1>3 DEF Types

(* What is handled for a slot is a number. *)
LEMMA HandledNat ==
    ASSUME Types, NEW s \in Slots
    PROVE  /\ rebinding[s] \in Nat /\ done["accept"][s] \in Nat
           /\ done["recv"][s] \in Nat /\ done["recvBroken"][s] \in Nat
           /\ Handled(s) \in Nat
<1>1. /\ rebinding[s] \in Nat /\ done["accept"][s] \in Nat
      /\ done["recv"][s] \in Nat /\ done["recvBroken"][s] \in Nat
    BY DEF Types, Completions
<1> QED
    BY <1>1 DEF Handled

(* The parts of the invariant that a step keeps when it makes no socket. *)
LEMMA SocketsKept ==
    ASSUME UsedFirst, OneSocket, UNCHANGED <<slotOf, posted>>,
           \A k \in Sockets : Used(k)' <=> Used(k)
    PROVE  UsedFirst' /\ OneSocket'
<1>1. UsedFirst'
  <2>1. PICK n \in 0 .. MaxSockets : \A j \in Sockets : Used(j) <=> j <= n
      BY DEF UsedFirst
  <2>2. \A j \in Sockets : Used(j)' <=> j <= n
      BY <2>1
  <2> QED
      BY <2>2 DEF UsedFirst
<1>2. OneSocket'
    BY DEF OneSocket
<1> QED
    BY <1>1, <1>2

(* BindRecv begins one receive on the slot's own socket, or the socket has  *)
(* none any more.                                                           *)
LEMMA BindRecvFacts ==
    ASSUME Types, KeysAgree, NEW s \in Slots, BindRecv(s)
    PROVE  /\ recv' \in [Sockets -> Nat] /\ missed' \subseteq Sockets
           /\ missed \subseteq missed'
           /\ \A j \in Sockets : slotOf[j] # s => recv'[j] = recv[j]
           /\ \A j \in Sockets : sock[j] \notin {"open", "left"} => recv'[j] = recv[j]
           /\ \A j \in Sockets : SocketClient[s] = j /\ sock[j] \in {"open", "left"}
                                       /\ j \notin missed' => recv'[j] = recv[j] + 1
<1> DEFINE k == SocketClient[s]
<1>1. k \in Sockets => slotOf[k] = s
    BY Numbers DEF KeysAgree
<1>2. CASE k \in Are({"open", "left"}) /\ recv' = [recv EXCEPT ![k] = @ + 1]
           /\ UNCHANGED missed
  <2>1. k \in Sockets /\ sock[k] \in {"open", "left"} /\ recv[k] \in Nat
      BY <1>2 DEF Are, Types
  <2>2. /\ recv'[k] = recv[k] + 1 /\ recv' \in [Sockets -> Nat]
        /\ \A j \in Sockets : j # k => recv'[j] = recv[j]
      BY <1>2, <2>1 DEF Types
  <2> QED
      BY <1>1, <1>2, <2>1, <2>2 DEF Types
<1>3. CASE k \notin Are({"open"}) /\ missed' = missed \cup ({k} \cap Are({"left"}))
           /\ UNCHANGED recv
    BY <1>3 DEF Are, Types
<1> QED
    BY <1>2, <1>3 DEF BindRecv

(* A worker that ends with BindRecv has one receive less in its hands.      *)
LEMMA BindStep ==
    ASSUME Inv, NEW s \in Slots, BindRecv(s), s < posted,
           UNCHANGED <<sock, slotOf, send, slotVars, posted, refused>>,
           rebinding' \in [Slots -> Nat], done' \in [Completions -> [Slots -> Nat]],
           \A r \in Slots : r # s => /\ rebinding'[r] = rebinding[r]
                                    /\ \A c \in Completions : done'[c][r] = done[c][r],
           \A r \in Slots : /\ done'["recvBroken"][r] = done["recvBroken"][r]
                            /\ done'["sendBroken"][r] = done["sendBroken"][r],
           Handled(s) \in Nat \ {0}, Handled(s)' = Handled(s) - 1
    PROVE  Inv'
<1>1. Types /\ UsedFirst /\ KeysAgree /\ OneSocket /\ OpsBegun /\ BrokenLeft /\ OneReceive
    BY DEF Inv
<1>2. /\ recv' \in [Sockets -> Nat] /\ missed' \subseteq Sockets /\ missed \subseteq missed'
      /\ \A j \in Sockets : slotOf[j] # s => recv'[j] = recv[j]
      /\ \A j \in Sockets : sock[j] \notin {"open", "left"} => recv'[j] = recv[j]
      /\ \A j \in Sockets : SocketClient[s] = j /\ sock[j] \in {"open", "left"}
                                  /\ j \notin missed' => recv'[j] = recv[j] + 1
    BY <1>1, BindRecvFacts
<1>3. Types'
    BY <1>1, <1>2 DEF Types, slotVars
<1>4. \A k \in Sockets : Used(k)' <=> Used(k)
    BY DEF Used
<1>5. UsedFirst' /\ OneSocket'
    BY <1>1, <1>4, SocketsKept
<1>6. KeysAgree'
  <2>1. \A r \in Slots : r \in Nat
      BY Numbers
  <2>2. posted \in Nat
      BY <1>1, Numbers DEF Types
  <2>3. \A r \in Slots : r >= posted => r # s
      BY <2>1, <2>2
  <2> QED
      BY <1>1, <2>3 DEF KeysAgree, Used, slotVars
<1>7. OpsBegun'
  <2> SUFFICES ASSUME NEW j \in Sockets, recv'[j] > 0 \/ j \in send',
                      sock'[j] \notin {"open", "left", "closed"}
               PROVE  FALSE
      BY DEF OpsBegun
  <2> QED
      BY <1>1, <1>2 DEF OpsBegun
<1>8. BrokenLeft'
    BY <1>1, <1>4 DEF BrokenLeft, Types
<1>9. OneReceive'
  <2> SUFFICES ASSUME NEW j \in Sockets, slotOf[j] # 0
               PROVE  /\ sock[j] = "posted" => SocketClient[slotOf[j]] = j /\ ReceivesOf(j)' = 0
                      /\ sock[j] \in {"open", "left"} /\ j \notin missed'
                            => SocketClient[slotOf[j]] = j /\ ReceivesOf(j)' = 1
      BY DEF OneReceive, slotVars
  <2>1. recv[j] \in Nat /\ slotOf[j] \in Slots
      BY <1>1 DEF Types
  <2>2. CASE slotOf[j] # s
    <3>1. Handled(slotOf[j])' = Handled(slotOf[j])
        BY <2>1, <2>2 DEF Handled, Completions
    <3>2. recv'[j] = recv[j]
        BY <1>2, <2>2
    <3>3. ReceivesOf(j)' = ReceivesOf(j)
        BY <3>1, <3>2 DEF ReceivesOf
    <3> QED
        BY <1>1, <1>2, <3>3 DEF OneReceive
  <2>3. CASE slotOf[j] = s
    <3>1. ReceivesOf(j) = recv[j] + Handled(s) /\ ReceivesOf(j)' = recv'[j] + (Handled(s) - 1)
      <4>1. Handled(slotOf[j])' = Handled(s)'
          BY <2>3 DEF Handled
      <4> QED
          BY <2>3, <4>1 DEF ReceivesOf
    <3>2. sock[j] # "posted"
      <4>1. SUFFICES ASSUME sock[j] = "posted" PROVE FALSE
          OBVIOUS
      <4>2. ReceivesOf(j) = 0
          BY <1>1, <4>1 DEF OneReceive
      <4> QED
          BY <2>1, <3>1, <4>2
    <3>3. ASSUME sock[j] \in {"open", "left"}, j \notin missed'
          PROVE  SocketClient[slotOf[j]] = j /\ ReceivesOf(j)' = 1
      <4>1. SocketClient[s] = j /\ ReceivesOf(j) = 1
          BY <1>1, <1>2, <2>3, <3>3 DEF OneReceive
      <4>2. recv'[j] = recv[j] + 1
          BY <1>2, <3>3, <4>1
      <4> QED
          BY <2>1, <2>3, <3>1, <4>1, <4>2
    <3> QED
        BY <3>2, <3>3
  <2> QED
      BY <2>2, <2>3
<1> QED
    BY <1>3, <1>5, <1>6, <1>7, <1>8, <1>9 DEF Inv

(* A step that begins and ends no receive. *)
LEMMA QuietStep ==
    ASSUME Inv,
           UNCHANGED <<sock, slotOf, recv, SocketClient, EmptySocketQue, posted, refused, missed>>,
           send' \subseteq Sockets, IsSending' \subseteq Slots,
           rebinding' \in [Slots -> Nat], done' \in [Completions -> [Slots -> Nat]],
           \A k \in Sockets : k \in send' =>
               k \in send \/ sock[k] \in {"open", "left", "closed"},
           \A r \in Slots : r >= posted =>
               rebinding'[r] = 0 /\ \A c \in Completions : done'[c][r] = 0,
           \A r \in Slots :
               /\ Handled(r)' = Handled(r)
               /\ done'["recvBroken"][r] = done["recvBroken"][r]
               /\ done'["sendBroken"][r] > 0 =>
                     \/ done["sendBroken"][r] > 0
                     \/ \A j \in Sockets : Used(j) /\ slotOf[j] = r /\ r # 0
                                            => sock[j] \in {"left", "closed"}
    PROVE  Inv'
<1>1. Types /\ UsedFirst /\ KeysAgree /\ OneSocket /\ OpsBegun /\ BrokenLeft /\ OneReceive
    BY DEF Inv
<1>2. Types'
    BY <1>1 DEF Types
<1>3. \A k \in Sockets : Used(k)' <=> Used(k)
    BY DEF Used
<1>4. UsedFirst' /\ OneSocket'
    BY <1>1, <1>3, SocketsKept
<1>5. KeysAgree'
    BY <1>1 DEF KeysAgree, Used
<1>6. OpsBegun'
    BY <1>1 DEF OpsBegun
<1>7. BrokenLeft'
    BY <1>1, <1>3 DEF BrokenLeft, Types
<1>8. OneReceive'
  <2>1. \A k \in Sockets : ReceivesOf(k)' = ReceivesOf(k)
    <3>1. \A k \in Sockets : slotOf[k] \in Slots
        BY <1>1 DEF Types
    <3>2. \A k \in Sockets : Handled(slotOf[k])' = Handled(slotOf[k])
      <4>1. TAKE k \in Sockets
      <4>2. PICK r \in Slots : r = slotOf[k]
          BY <3>1
      <4>3. Handled(slotOf[k])' = Handled(r)'
          BY <4>2 DEF Handled
      <4> QED
          BY <4>2, <4>3
    <3> QED
        BY <3>2 DEF ReceivesOf
  <2> QED
      BY <1>1, <2>1 DEF OneReceive
<1> QED
    BY <1>2, <1>4, <1>5, <1>6, <1>7, <1>8 DEF Inv

(* Only a slot that was posted has something to do. *)
LEMMA Begun ==
    ASSUME Inv, NEW s \in Slots
    PROVE  /\ posted \in Nat /\ s \in Nat
           /\ \A c \in Completions : done[c][s] > 0 => s < posted
           /\ rebinding[s] > 0 => s < posted
<1>1. posted \in Nat /\ s \in Nat
    BY Numbers DEF Inv, Types
<1>2. s >= posted => rebinding[s] = 0 /\ \A c \in Completions : done[c][s] = 0
    BY DEF Inv, KeysAgree
<1> QED
    BY <1>1, <1>2

LEMMA SendDataInv ==
    ASSUME Inv, NEW s \in Slots, SendData(s)
    PROVE  Inv'
<1>1. Types /\ KeysAgree
    BY DEF Inv
<1>2. /\ send' \subseteq Sockets /\ IsSending' \subseteq Slots
      /\ \A k \in Sockets : k \in send' =>
            k \in send \/ sock[k] \in {"open", "left", "closed"}
    BY <1>1 DEF SendData, Are, Types
<1>3. /\ rebinding' = rebinding /\ done' = done
      /\ UNCHANGED <<sock, slotOf, recv, SocketClient, EmptySocketQue, posted, refused, missed>>
    BY DEF SendData, counts
<1>4. \A r \in Slots : Handled(r)' = Handled(r)
    BY <1>3 DEF Handled
<1>5. rebinding' \in [Slots -> Nat] /\ done' \in [Completions -> [Slots -> Nat]]
    BY <1>1, <1>3 DEF Types
<1>6. \A r \in Slots : r >= posted =>
          rebinding'[r] = 0 /\ \A c \in Completions : done'[c][r] = 0
    BY <1>1, <1>3 DEF KeysAgree
<1> QED
    BY <1>2, <1>3, <1>4, <1>5, <1>6, QuietStep

LEMMA SendEndsInv ==
    ASSUME Inv, NEW k \in Sockets, SendEnds(k)
    PROVE  Inv'
<1>1. Types /\ KeysAgree /\ OneSocket /\ OpsBegun
    BY DEF Inv
<1> DEFINE s == slotOf[k]
<1>2. s \in Slots /\ k \in send /\ sock[k] \in {"open", "left", "closed"}
    BY <1>1 DEF SendEnds, Types, OpsBegun
<1>3. /\ send' \subseteq Sockets /\ IsSending' \subseteq Slots
      /\ \A j \in Sockets : j \in send' => j \in send
      /\ rebinding' = rebinding
      /\ UNCHANGED <<sock, slotOf, recv, SocketClient, EmptySocketQue, posted, refused, missed>>
    BY <1>1 DEF SendEnds, Types, slotVars, counts
<1>4. PICK c \in {"send", "sendBroken"} :
          Completes(c, s) /\ (c = "sendBroken" => sock[k] # "open")
    BY DEF SendEnds
<1>5. c \in Completions
    BY <1>4 DEF Completions
<1>6. /\ done' \in [Completions -> [Slots -> Nat]]
      /\ \A d \in Completions : \A r \in Slots :
            d # c \/ r # s => done'[d][r] = done[d][r]
    BY <1>1, <1>2, <1>4, <1>5, CompletesFacts
<1>7. \A r \in Slots : /\ Handled(r)' = Handled(r)
                       /\ done'["recvBroken"][r] = done["recvBroken"][r]
    BY <1>3, <1>4, <1>6 DEF Handled, Completions
<1>8. \A r \in Slots : done'["sendBroken"][r] > 0 =>
          \/ done["sendBroken"][r] > 0
          \/ \A j \in Sockets : Used(j) /\ slotOf[j] = r /\ r # 0
                                 => sock[j] \in {"left", "closed"}
  <2> SUFFICES ASSUME NEW r \in Slots, done'["sendBroken"][r] > 0,
                      done'["sendBroken"][r] # done["sendBroken"][r],
                      NEW j \in Sockets, Used(j), slotOf[j] = r, r # 0
               PROVE  sock[j] \in {"left", "closed"}
      OBVIOUS
  <2>1. c = "sendBroken" /\ r = s
      BY <1>6 DEF Completions
  <2>2. j = k
      BY <1>1, <1>2, <2>1 DEF OneSocket, Used
  <2> QED
      BY <1>2, <1>4, <2>1, <2>2
<1>9. \A r \in Slots : r >= posted =>
          rebinding'[r] = 0 /\ \A d \in Completions : done'[d][r] = 0
  <2>1. s < posted /\ Used(k)
      BY <1>1, <1>2 DEF KeysAgree, Used
  <2>2. posted \in Nat /\ \A r \in Slots : r \in Nat
      BY <1>1, Numbers DEF Types
  <2>3. \A r \in Slots : r >= posted => r # s
      BY <1>2, <2>1, <2>2
  <2> QED
      BY <1>1, <1>3, <1>6, <2>3 DEF KeysAgree
<1>10. rebinding' \in [Slots -> Nat]
    BY <1>1, <1>3 DEF Types
<1> QED
    BY <1>3, <1>6, <1>7, <1>8, <1>9, <1>10, QuietStep

LEMMA OnSendCompleteInv ==
    ASSUME Inv, NEW s \in Slots, OnSendComplete(s)
    PROVE  Inv'
<1>1. Types /\ KeysAgree
    BY DEF Inv
<1>2. /\ send' = send /\ IsSending' \subseteq Slots /\ rebinding' = rebinding
      /\ UNCHANGED <<sock, slotOf, recv, SocketClient, EmptySocketQue, posted, refused, missed>>
    BY <1>1 DEF OnSendComplete, Types, counts
<1>3. "send" \in Completions /\ Takes("send", s)
    BY DEF OnSendComplete, Completions
<1>4. /\ done' \in [Completions -> [Slots -> Nat]]
      /\ done["send"][s] \in Nat \ {0}
      /\ \A d \in Completions : \A r \in Slots :
            d # "send" \/ r # s => done'[d][r] = done[d][r]
    BY <1>1, <1>3, TakesFacts
<1>5. \A r \in Slots : /\ Handled(r)' = Handled(r)
                       /\ done'["recvBroken"][r] = done["recvBroken"][r]
                       /\ done'["sendBroken"][r] = done["sendBroken"][r]
    BY <1>2, <1>4 DEF Handled, Completions
<1>6. \A r \in Slots : r >= posted =>
          rebinding'[r] = 0 /\ \A d \in Completions : done'[d][r] = 0
  <2>1. \A r \in Slots : r >= posted => r # s
      BY <1>3, <1>4, Begun
  <2> QED
      BY <1>1, <1>2, <1>4, <2>1 DEF KeysAgree
<1>7. send' \subseteq Sockets /\ rebinding' \in [Slots -> Nat]
    BY <1>1, <1>2 DEF Types
<1> QED
    BY <1>2, <1>4, <1>5, <1>6, <1>7, QuietStep

LEMMA ReceivedInv ==
    ASSUME Inv, NEW s \in Slots, Received(s)
    PROVE  Inv'
<1>1. Types /\ KeysAgree
    BY DEF Inv
<1>2. /\ UNCHANGED <<send, IsSending>> /\ rebinding' = [rebinding EXCEPT ![s] = @ + 1]
      /\ UNCHANGED <<sock, slotOf, recv, SocketClient, EmptySocketQue, posted, refused, missed>>
    BY DEF Received, slotVars, counts
<1>3. "recv" \in Completions /\ Takes("recv", s)
    BY DEF Received, Completions
<1>4. /\ done' \in [Completions -> [Slots -> Nat]]
      /\ done["recv"][s] \in Nat \ {0} /\ done'["recv"][s] = done["recv"][s] - 1
      /\ \A d \in Completions : \A r \in Slots :
            d # "recv" \/ r # s => done'[d][r] = done[d][r]
    BY <1>1, <1>3, TakesFacts
<1>5. /\ rebinding' \in [Slots -> Nat] /\ rebinding'[s] = rebinding[s] + 1
      /\ \A r \in Slots : r # s => rebinding'[r] = rebinding[r]
    BY <1>1, <1>2 DEF Types
<1>6. \A r \in Slots : /\ done'["recvBroken"][r] = done["recvBroken"][r]
                       /\ done'["sendBroken"][r] = done["sendBroken"][r]
                       /\ done'["accept"][r] = done["accept"][r]
    BY <1>4 DEF Completions
<1>7. \A r \in Slots : Handled(r)' = Handled(r)
  <2>1. TAKE r \in Slots
  <2>2. CASE r # s
      BY <1>4, <1>5, <2>2 DEF Handled, Completions
  <2>3. CASE r = s
    <3>1. /\ rebinding[s] \in Nat /\ done["accept"][s] \in Nat
          /\ done["recv"][s] \in Nat /\ done["recvBroken"][s] \in Nat
        BY <1>1, HandledNat
    <3>2. Handled(r)' = (rebinding[s] + 1) + done["accept"][s] + (done["recv"][s] - 1)
                            + done["recvBroken"][s]
        BY <1>4, <1>5, <1>6, <2>3 DEF Handled
    <3>3. Handled(r) = rebinding[s] + done["accept"][s] + done["recv"][s]
                            + done["recvBroken"][s]
        BY <2>3 DEF Handled
    <3> QED
        BY <3>1, <3>2, <3>3
  <2> QED
      BY <2>2, <2>3
<1>8. \A r \in Slots : r >= posted =>
          rebinding'[r] = 0 /\ \A d \in Completions : done'[d][r] = 0
  <2>1. \A r \in Slots : r >= posted => r # s
      BY <1>3, <1>4, Begun
  <2> QED
      BY <1>1, <1>4, <1>5, <2>1 DEF KeysAgree
<1>9. send' \subseteq Sockets /\ IsSending' \subseteq Slots
    BY <1>1, <1>2 DEF Types
<1> QED
    BY <1>2, <1>4, <1>5, <1>6, <1>7, <1>8, <1>9, QuietStep

LEMMA RebindInv ==
    ASSUME Inv, NEW s \in Slots, Rebind(s)
    PROVE  Inv'
<1>1. Types
    BY DEF Inv
<1>2. /\ UNCHANGED <<sock, slotOf, send, done, slotVars, posted, refused>> /\ BindRecv(s)
      /\ rebinding[s] > 0 /\ rebinding' = [rebinding EXCEPT ![s] = @ - 1]
    BY DEF Rebind, counts
<1>3. rebinding[s] \in Nat \ {0}
  <2>1. rebinding[s] \in Nat
      BY <1>1 DEF Types
  <2> QED
      BY <1>2, <2>1
<1>4. rebinding[s] - 1 \in Nat
    BY <1>3
<1>5. /\ rebinding' \in [Slots -> Nat] /\ rebinding'[s] = rebinding[s] - 1
      /\ \A r \in Slots : r # s => rebinding'[r] = rebinding[r]
    BY <1>1, <1>2, <1>4 DEF Types
<1>6. Handled(s) \in Nat \ {0} /\ Handled(s)' = Handled(s) - 1
  <2>1. /\ done["accept"][s] \in Nat
        /\ done["recv"][s] \in Nat /\ done["recvBroken"][s] \in Nat
      BY <1>1, HandledNat
  <2>2. Handled(s)' = (rebinding[s] - 1) + done["accept"][s] + done["recv"][s]
                          + done["recvBroken"][s]
      BY <1>2, <1>5 DEF Handled
  <2>3. Handled(s) = rebinding[s] + done["accept"][s] + done["recv"][s]
                          + done["recvBroken"][s]
      BY DEF Handled
  <2> QED
      BY <1>3, <2>1, <2>2, <2>3
<1>7. s < posted
    BY <1>2, Begun
<1>8. done' = done /\ done' \in [Completions -> [Slots -> Nat]]
    BY <1>1, <1>2 DEF Types
<1> QED
    BY <1>2, <1>5, <1>6, <1>7, <1>8, BindStep

LEMMA AcceptedInv ==
    ASSUME Inv, NEW s \in Slots, Accepted(s)
    PROVE  Inv'
<1>1. Types
    BY DEF Inv
<1>2. /\ UNCHANGED <<sock, slotOf, send, rebinding, slotVars, posted, refused>> /\ BindRecv(s)
      /\ Takes("accept", s) /\ "accept" \in Completions
    BY DEF Accepted, Completions, counts
<1>3. /\ done' \in [Completions -> [Slots -> Nat]]
      /\ done["accept"][s] \in Nat \ {0} /\ done'["accept"][s] = done["accept"][s] - 1
      /\ \A d \in Completions : \A r \in Slots :
            d # "accept" \/ r # s => done'[d][r] = done[d][r]
    BY <1>1, <1>2, TakesFacts
<1>4. \A r \in Slots : /\ done'["recvBroken"][r] = done["recvBroken"][r]
                       /\ done'["sendBroken"][r] = done["sendBroken"][r]
                       /\ done'["recv"][r] = done["recv"][r]
    BY <1>3 DEF Completions
<1>5. Handled(s) \in Nat \ {0} /\ Handled(s)' = Handled(s) - 1
  <2>1. rebinding[s] \in Nat /\ done["recv"][s] \in Nat /\ done["recvBroken"][s] \in Nat
      BY <1>1, HandledNat
  <2>2. Handled(s)' = rebinding[s] + (done["accept"][s] - 1) + done["recv"][s]
                          + done["recvBroken"][s]
      BY <1>2, <1>3, <1>4 DEF Handled
  <2>3. Handled(s) = rebinding[s] + done["accept"][s] + done["recv"][s]
                          + done["recvBroken"][s]
      BY DEF Handled
  <2>4. done["accept"][s] \in Nat \ {0}
      BY <1>3
  <2>5. \A a, c, d \in Nat : \A n \in Nat \ {0} :
            a + n + c + d \in Nat \ {0} /\ a + (n - 1) + c + d = (a + n + c + d) - 1
      OBVIOUS
  <2> QED
      BY <2>1, <2>2, <2>3, <2>4, <2>5
<1>6. s < posted
    BY <1>2, <1>3, Begun
<1>7. rebinding' = rebinding /\ rebinding' \in [Slots -> Nat]
    BY <1>1, <1>2 DEF Types
<1> QED
    BY <1>2, <1>3, <1>4, <1>5, <1>6, <1>7, BindStep

-----------------------------------------------------------------------------
LEMMA ConnectInv ==
    ASSUME Inv, NEW k \in Sockets, Connect(k)
    PROVE  Inv'
<1>1. Types /\ UsedFirst /\ KeysAgree /\ OneSocket /\ OpsBegun /\ BrokenLeft /\ OneReceive
    BY DEF Inv
<1>0. PICK s \in Slots : s = slotOf[k]
    BY <1>1 DEF Types
<1>2. /\ sock[k] = "posted" /\ sock' = [sock EXCEPT ![k] = "open"]
      /\ Completes("accept", s) /\ "accept" \in Completions
      /\ UNCHANGED <<slotOf, recv, send, rebinding, slotVars, posted, refused, missed>>
    BY <1>0 DEF Connect, Types, Completions, counts
<1>3. /\ done' \in [Completions -> [Slots -> Nat]]
      /\ done'["accept"][s] = done["accept"][s] + 1
      /\ \A d \in Completions : \A r \in Slots :
            d # "accept" \/ r # s => done'[d][r] = done[d][r]
    BY <1>1, <1>2, CompletesFacts
<1>4. sock'[k] = "open" /\ \A j \in Sockets : j # k => sock'[j] = sock[j]
    BY <1>1, <1>2 DEF Types
<1>5. Types'
    BY <1>1, <1>2, <1>3 DEF Types, slotVars
<1>6. \A j \in Sockets : Used(j)' <=> Used(j)
    BY <1>2, <1>4 DEF Used
<1>7. UsedFirst' /\ OneSocket'
    BY <1>1, <1>2, <1>6, SocketsKept
<1>8. KeysAgree'
  <2>1. \A r \in Slots : SocketClient'[r] # None
            => sock'[SocketClient'[r]] # "unused" /\ slotOf'[SocketClient'[r]] = r
      BY <1>1, <1>2, <1>4 DEF KeysAgree, Types, Used, slotVars
  <2>2. \A j \in Sockets : Used(j)' => slotOf'[j] < posted'
      BY <1>1, <1>2, <1>6 DEF KeysAgree
  <2>3. \A r \in Slots : r >= posted => r # s
    <3>1. s < posted
        BY <1>0, <1>1, <1>2 DEF KeysAgree, Used
    <3>2. posted \in Nat /\ \A r \in Slots : r \in Nat
        BY <1>1, Numbers DEF Types
    <3> QED
        BY <3>1, <3>2
  <2>4. \A r \in Slots : r >= posted'
            => rebinding'[r] = 0 /\ \A c \in Completions : done'[c][r] = 0
      BY <1>1, <1>2, <1>3, <2>3 DEF KeysAgree
  <2> QED
      BY <2>1, <2>2, <2>4 DEF KeysAgree, Used
<1>9. OpsBegun'
    BY <1>1, <1>2, <1>4 DEF OpsBegun
<1>10. \A r \in Slots : /\ done'["recvBroken"][r] = done["recvBroken"][r]
                        /\ done'["sendBroken"][r] = done["sendBroken"][r]
                        /\ done'["recv"][r] = done["recv"][r]
                        /\ r # s => done'["accept"][r] = done["accept"][r]
    BY <1>3 DEF Completions
<1>11. BrokenLeft'
  <2> SUFFICES ASSUME NEW j \in Sockets, Used(j), slotOf[j] # 0,
                      \/ done["recvBroken"][slotOf[j]] > 0
                      \/ done["sendBroken"][slotOf[j]] > 0
               PROVE  sock'[j] \in {"left", "closed"}
    <3>1. \A j \in Sockets :
              /\ done'["recvBroken"][slotOf[j]] = done["recvBroken"][slotOf[j]]
              /\ done'["sendBroken"][slotOf[j]] = done["sendBroken"][slotOf[j]]
        BY <1>1, <1>10 DEF Types
    <3> QED
        BY <1>2, <1>6, <3>1 DEF BrokenLeft
  <2>1. sock[j] \in {"left", "closed"}
      BY <1>1 DEF BrokenLeft
  <2> QED
      BY <1>2, <1>4, <2>1
<1>12. OneReceive'
  <2> SUFFICES ASSUME NEW j \in Sockets, slotOf[j] # 0
               PROVE  /\ sock'[j] = "posted" => SocketClient[slotOf[j]] = j /\ ReceivesOf(j)' = 0
                      /\ sock'[j] \in {"open", "left"} /\ j \notin missed
                            => SocketClient[slotOf[j]] = j /\ ReceivesOf(j)' = 1
      BY <1>2 DEF OneReceive, slotVars
  <2>1. CASE j = k
    <3>1. SocketClient[s] = k /\ ReceivesOf(k) = 0
        BY <1>0, <1>1, <1>2, <2>1 DEF OneReceive
    <3>2. ReceivesOf(j)' = recv[k] + (rebinding[s] + (done["accept"][s] + 1) + done["recv"][s]
                                        + done["recvBroken"][s])
      <4>1. slotOf'[j] = s /\ recv'[j] = recv[k] /\ rebinding'[s] = rebinding[s]
          BY <1>0, <1>2, <2>1
      <4>2. /\ done'["accept"][s] = done["accept"][s] + 1
            /\ done'["recv"][s] = done["recv"][s]
            /\ done'["recvBroken"][s] = done["recvBroken"][s]
          BY <1>3, <1>10
      <4> QED
          BY <4>1, <4>2 DEF ReceivesOf, Handled
    <3>3. ReceivesOf(k) = recv[k] + (rebinding[s] + done["accept"][s] + done["recv"][s]
                                        + done["recvBroken"][s])
        BY <1>0 DEF ReceivesOf, Handled
    <3>4. /\ rebinding[s] \in Nat /\ done["accept"][s] \in Nat
          /\ done["recv"][s] \in Nat /\ done["recvBroken"][s] \in Nat /\ recv[k] \in Nat
      <4>1. /\ rebinding[s] \in Nat /\ done["accept"][s] \in Nat
            /\ done["recv"][s] \in Nat /\ done["recvBroken"][s] \in Nat
          BY <1>1, HandledNat
      <4> QED
          BY <1>1, <4>1 DEF Types
    <3>5. ReceivesOf(j)' = 1
        BY <3>1, <3>2, <3>3, <3>4
    <3> QED
        BY <1>0, <1>4, <2>1, <3>1, <3>5
  <2>2. CASE j # k /\ Used(j)
    <3>1. slotOf[j] # s /\ slotOf[j] \in Slots
        BY <1>0, <1>1, <1>2, <2>2 DEF OneSocket, Types, Used
    <3>2. ReceivesOf(j)' = ReceivesOf(j)
      <4>1. PICK r \in Slots : r = slotOf[j]
          BY <3>1
      <4>2. slotOf'[j] = r /\ recv'[j] = recv[j] /\ rebinding'[r] = rebinding[r]
          BY <1>2, <4>1
      <4>3. /\ done'["accept"][r] = done["accept"][r]
            /\ done'["recv"][r] = done["recv"][r]
            /\ done'["recvBroken"][r] = done["recvBroken"][r]
          BY <1>10, <3>1, <4>1
      <4> QED
          BY <4>1, <4>2, <4>3 DEF ReceivesOf, Handled
    <3> QED
        BY <1>1, <1>4, <2>2, <3>2 DEF OneReceive
  <2>3. CASE ~Used(j)
      BY <1>2, <1>4, <2>3 DEF Used
  <2> QED
      BY <2>1, <2>2, <2>3
<1> QED
    BY <1>5, <1>7, <1>8, <1>9, <1>11, <1>12 DEF Inv

LEMMA LeaveInv ==
    ASSUME Inv, NEW k \in Sockets, Leave(k)
    PROVE  Inv'
<1>1. Types /\ UsedFirst /\ KeysAgree /\ OneSocket /\ OpsBegun /\ BrokenLeft /\ OneReceive
    BY DEF Inv
<1>2. /\ sock[k] = "open" /\ sock' = [sock EXCEPT ![k] = "left"]
      /\ UNCHANGED <<slotOf, recv, send, done, rebinding, SocketClient, IsSending,
                     EmptySocketQue, posted, refused, missed>>
    BY DEF Leave, ioVars, slotVars, counts
<1>3. sock'[k] = "left" /\ \A j \in Sockets : j # k => sock'[j] = sock[j]
    BY <1>1, <1>2 DEF Types
<1>4. Types'
    BY <1>1, <1>2 DEF Types
<1>5. \A j \in Sockets : Used(j)' <=> Used(j)
    BY <1>2, <1>3 DEF Used
<1>6. UsedFirst' /\ OneSocket'
    BY <1>1, <1>2, <1>5, SocketsKept
<1>7. KeysAgree'
  <2>1. \A r \in Slots : SocketClient'[r] # None
            => sock'[SocketClient'[r]] # "unused" /\ slotOf'[SocketClient'[r]] = r
      BY <1>1, <1>2, <1>3 DEF KeysAgree, Types, Used
  <2> QED
      BY <1>1, <1>2, <1>5, <2>1 DEF KeysAgree, Used
<1>8. OpsBegun'
    BY <1>1, <1>2, <1>3 DEF OpsBegun
<1>9. BrokenLeft'
    BY <1>1, <1>2, <1>3, <1>5 DEF BrokenLeft
<1>10. OneReceive'
  <2>1. \A j \in Sockets : ReceivesOf(j)' = ReceivesOf(j)
      BY <1>2 DEF ReceivesOf, Handled
  <2> QED
      BY <1>1, <1>2, <1>3, <2>1 DEF OneReceive
<1> QED
    BY <1>4, <1>6, <1>7, <1>8, <1>9, <1>10 DEF Inv

LEMMA RecvEndsInv ==
    ASSUME Inv, NEW k \in Sockets, RecvEnds(k)
    PROVE  Inv'
<1>1. Types /\ UsedFirst /\ KeysAgree /\ OneSocket /\ OpsBegun /\ BrokenLeft /\ OneReceive
    BY DEF Inv
<1>0. PICK s \in Slots : s = slotOf[k]
    BY <1>1 DEF Types
<1>2. /\ recv[k] > 0 /\ recv' = [recv EXCEPT ![k] = @ - 1]
      /\ UNCHANGED <<sock, slotOf, send, rebinding, slotVars, posted, refused, missed>>
    BY DEF RecvEnds, counts
<1>3. recv[k] \in Nat \ {0}
  <2>1. recv[k] \in Nat
      BY <1>1 DEF Types
  <2> QED
      BY <1>2, <2>1
<1>4. recv[k] - 1 \in Nat
    BY <1>3
<1>5. /\ recv' \in [Sockets -> Nat] /\ recv'[k] = recv[k] - 1
      /\ \A j \in Sockets : j # k => recv'[j] = recv[j]
    BY <1>1, <1>2, <1>4 DEF Types
<1>6. sock[k] \in {"open", "left", "closed"}
    BY <1>1, <1>2 DEF OpsBegun
<1>7. PICK c \in {"recv", "recvBroken"} :
          Completes(c, s) /\ (c = "recvBroken" => sock[k] # "open")
    BY <1>0 DEF RecvEnds
<1>8. c \in Completions
    BY <1>7 DEF Completions
<1>9. /\ done' \in [Completions -> [Slots -> Nat]]
      /\ done'[c][s] = done[c][s] + 1
      /\ \A d \in Completions : \A r \in Slots :
            d # c \/ r # s => done'[d][r] = done[d][r]
    BY <1>1, <1>7, <1>8, CompletesFacts
<1>10. Types'
    BY <1>1, <1>2, <1>5, <1>9 DEF Types, slotVars
<1>11. \A j \in Sockets : Used(j)' <=> Used(j)
    BY <1>2 DEF Used
<1>12. UsedFirst' /\ OneSocket'
    BY <1>1, <1>2, <1>11, SocketsKept
<1>13. KeysAgree'
  <2>1. \A r \in Slots : r >= posted => r # s
    <3>1. s < posted
        BY <1>0, <1>1, <1>6 DEF KeysAgree, Used
    <3>2. posted \in Nat /\ \A r \in Slots : r \in Nat
        BY <1>1, Numbers DEF Types
    <3> QED
        BY <3>1, <3>2
  <2>2. \A r \in Slots : r >= posted
            => rebinding'[r] = 0 /\ \A d \in Completions : done'[d][r] = 0
      BY <1>1, <1>2, <1>9, <2>1 DEF KeysAgree
  <2> QED
      BY <1>1, <1>2, <2>2 DEF KeysAgree, Used, slotVars
<1>14. OpsBegun'
  <2>1. \A j \in Sockets : recv'[j] > 0 => recv[j] > 0
      BY <1>2, <1>5
  <2> QED
      BY <1>1, <1>2, <2>1 DEF OpsBegun
<1>15. BrokenLeft'
  <2> SUFFICES ASSUME NEW j \in Sockets, Used(j), slotOf[j] # 0,
                      \/ done'["recvBroken"][slotOf[j]] > 0
                      \/ done'["sendBroken"][slotOf[j]] > 0
               PROVE  sock[j] \in {"left", "closed"}
      BY <1>2, <1>11 DEF BrokenLeft
  <2>1. CASE slotOf[j] = s
    <3>1. j = k
        BY <1>0, <1>1, <1>6, <2>1 DEF OneSocket, Used
    <3>2. CASE c = "recvBroken"
        BY <1>6, <1>7, <3>1, <3>2
    <3>3. CASE c = "recv"
      <4>1. /\ done'["recvBroken"][s] = done["recvBroken"][s]
            /\ done'["sendBroken"][s] = done["sendBroken"][s]
          BY <1>9, <3>3 DEF Completions
      <4> QED
          BY <1>1, <2>1, <4>1 DEF BrokenLeft
    <3> QED
        BY <1>7, <3>2, <3>3
  <2>2. CASE slotOf[j] # s
    <3>1. slotOf[j] \in Slots
        BY <1>1 DEF Types
    <3>2. /\ done'["recvBroken"][slotOf[j]] = done["recvBroken"][slotOf[j]]
          /\ done'["sendBroken"][slotOf[j]] = done["sendBroken"][slotOf[j]]
        BY <1>9, <2>2, <3>1 DEF Completions
    <3> QED
        BY <1>1, <3>2 DEF BrokenLeft
  <2> QED
      BY <2>1, <2>2
<1>16. OneReceive'
  <2>1. ASSUME NEW j \in Sockets, slotOf[j] # 0, Used(j)
        PROVE  ReceivesOf(j)' = ReceivesOf(j)
    <3>1. CASE j = k
      <4>1. /\ rebinding[s] \in Nat /\ done["accept"][s] \in Nat
            /\ done["recv"][s] \in Nat /\ done["recvBroken"][s] \in Nat
          BY <1>1, HandledNat
      <4>2. ReceivesOf(j) = recv[k] + (rebinding[s] + done["accept"][s] + done["recv"][s]
                                         + done["recvBroken"][s])
          BY <1>0, <3>1 DEF ReceivesOf, Handled
      <4>3. slotOf'[j] = s /\ recv'[j] = recv[k] - 1 /\ rebinding'[s] = rebinding[s]
          BY <1>0, <1>2, <1>5, <3>1
      <4>4. ReceivesOf(j)' = (recv[k] - 1) + (rebinding[s] + done'["accept"][s]
                               + done'["recv"][s] + done'["recvBroken"][s])
          BY <4>3 DEF ReceivesOf, Handled
      <4>5. done'["accept"][s] = done["accept"][s]
          BY <1>7, <1>9 DEF Completions
      <4>6. \/ /\ done'["recv"][s] = done["recv"][s] + 1
               /\ done'["recvBroken"][s] = done["recvBroken"][s]
            \/ /\ done'["recv"][s] = done["recv"][s]
               /\ done'["recvBroken"][s] = done["recvBroken"][s] + 1
          BY <1>7, <1>9 DEF Completions
      <4>7. \A n \in Nat \ {0} : \A w, x, y, z \in Nat :
                /\ (n - 1) + (w + x + (y + 1) + z) = n + (w + x + y + z)
                /\ (n - 1) + (w + x + y + (z + 1)) = n + (w + x + y + z)
          OBVIOUS
      <4> QED
          BY <1>3, <4>1, <4>2, <4>4, <4>5, <4>6, <4>7
    <3>2. CASE j # k
      <4>1. PICK r \in Slots : r = slotOf[j] /\ r # s
          BY <1>0, <1>1, <1>6, <2>1, <3>2 DEF OneSocket, Types, Used
      <4>2. slotOf'[j] = r /\ recv'[j] = recv[j] /\ rebinding'[r] = rebinding[r]
          BY <1>2, <1>5, <3>2, <4>1
      <4>3. /\ done'["accept"][r] = done["accept"][r]
            /\ done'["recv"][r] = done["recv"][r]
            /\ done'["recvBroken"][r] = done["recvBroken"][r]
          BY <1>9, <4>1 DEF Completions
      <4> QED
          BY <4>1, <4>2, <4>3 DEF ReceivesOf, Handled
    <3> QED
        BY <3>1, <3>2
  <2> QED
      BY <1>1, <1>2, <2>1 DEF OneReceive, Used, slotVars
<1> QED
    BY <1>10, <1>12, <1>13, <1>14, <1>15, <1>16 DEF Inv

(* An error closes the socket the slot has. *)
LEMMA BrokenInv ==
    ASSUME Inv, NEW s \in Slots, Broken(s)
    PROVE  Inv'
<1>1. Types /\ UsedFirst /\ KeysAgree /\ OneSocket /\ OpsBegun /\ BrokenLeft /\ OneReceive
    BY DEF Inv
<1>2. /\ SocketClient' = [SocketClient EXCEPT ![s] = None]
      /\ sock' = [k \in Sockets |->
                     IF k = SocketClient[s] THEN Closed(sock[k]) ELSE sock[k]]
      /\ EmptySocketQue' = Append(EmptySocketQue, s)
      /\ UNCHANGED <<slotOf, recv, send, rebinding, IsSending, posted, refused, missed>>
    BY DEF Broken, CloseSocket, counts
<1>3. PICK c \in {"recvBroken", "sendBroken"} : Takes(c, s)
    BY DEF Broken
<1>4. c \in Completions
    BY <1>3 DEF Completions
<1>5. /\ done' \in [Completions -> [Slots -> Nat]]
      /\ done[c][s] \in Nat \ {0} /\ done'[c][s] = done[c][s] - 1
      /\ \A d \in Completions : \A r \in Slots :
            d # c \/ r # s => done'[d][r] = done[d][r]
    BY <1>1, <1>3, <1>4, TakesFacts
<1>6. /\ SocketClient' \in [Slots -> Sockets \cup {None}] /\ SocketClient'[s] = None
      /\ \A r \in Slots : r # s => SocketClient'[r] = SocketClient[r]
    BY <1>1, <1>2 DEF Types
<1>0. /\ \A j \in Sockets : Closed(sock[j]) \in {"aborted", "closed"}
      /\ \A j \in Sockets : Closed(sock[j]) = "aborted" => sock[j] \in {"posted", "aborted"}
    BY DEF Closed
<1>7. /\ sock' \in [Sockets -> {"unused", "posted", "aborted", "open", "left", "closed"}]
      /\ \A j \in Sockets : j = SocketClient[s] => sock'[j] = Closed(sock[j])
      /\ \A j \in Sockets : j # SocketClient[s] => sock'[j] = sock[j]
    BY <1>0, <1>1, <1>2 DEF Types
<1>8. Types'
    BY <1>1, <1>2, <1>5, <1>6, <1>0, <1>7 DEF Types
<1>9. \A j \in Sockets : j = SocketClient[s] => Used(j) /\ slotOf[j] = s
    BY <1>1, Numbers DEF KeysAgree
<1>10. \A j \in Sockets : Used(j)' <=> Used(j)
    BY <1>0, <1>7, <1>9 DEF Used
<1>11. UsedFirst' /\ OneSocket'
    BY <1>1, <1>2, <1>10, SocketsKept
<1>12. KeysAgree'
  <2>1. \A r \in Slots : SocketClient'[r] # None
            => sock'[SocketClient'[r]] # "unused" /\ slotOf'[SocketClient'[r]] = r
    <3> SUFFICES ASSUME NEW r \in Slots, SocketClient'[r] # None
                 PROVE  sock'[SocketClient'[r]] # "unused" /\ slotOf'[SocketClient'[r]] = r
        OBVIOUS
    <3>1. r # s /\ SocketClient'[r] = SocketClient[r] /\ SocketClient[r] # None
        BY <1>6
    <3>2. SocketClient[r] \in Sockets /\ Used(SocketClient[r]) /\ slotOf[SocketClient[r]] = r
        BY <1>1, <3>1 DEF KeysAgree, Types
    <3> QED
        BY <1>2, <1>0, <1>7, <3>1, <3>2 DEF Used
  <2>2. \A r \in Slots : r >= posted => r # s
      BY <1>4, <1>5, Begun
  <2>3. \A r \in Slots : r >= posted'
            => rebinding'[r] = 0 /\ \A d \in Completions : done'[d][r] = 0
      BY <1>1, <1>2, <1>5, <2>2 DEF KeysAgree
  <2> QED
      BY <1>1, <1>2, <1>10, <2>1, <2>3 DEF KeysAgree, Used
<1>13. OpsBegun'
    BY <1>1, <1>2, <1>0, <1>7 DEF OpsBegun
<1>14. ASSUME NEW j \in Sockets, Used(j), slotOf[j] = s, s # 0
       PROVE  sock[j] \in {"left", "closed"}
  <2>1. done["recvBroken"][s] > 0 \/ done["sendBroken"][s] > 0
      BY <1>3, <1>5
  <2> QED
      BY <1>1, <1>14, <2>1 DEF BrokenLeft
<1>15. BrokenLeft'
  <2> SUFFICES ASSUME NEW j \in Sockets, Used(j), slotOf[j] # 0,
                      \/ done'["recvBroken"][slotOf[j]] > 0
                      \/ done'["sendBroken"][slotOf[j]] > 0
               PROVE  sock'[j] \in {"left", "closed"}
      BY <1>2, <1>10 DEF BrokenLeft
  <2>1. sock[j] \in {"left", "closed"}
    <3>1. CASE slotOf[j] = s
        BY <1>14, <3>1
    <3>2. CASE slotOf[j] # s
      <4>1. slotOf[j] \in Slots
          BY <1>1 DEF Types
      <4>2. /\ done'["recvBroken"][slotOf[j]] = done["recvBroken"][slotOf[j]]
            /\ done'["sendBroken"][slotOf[j]] = done["sendBroken"][slotOf[j]]
          BY <1>5, <3>2, <4>1 DEF Completions
      <4> QED
          BY <1>1, <4>2 DEF BrokenLeft
    <3> QED
        BY <3>1, <3>2
  <2> QED
      BY <1>0, <1>7, <2>1
<1>16. OneReceive'
  <2> SUFFICES ASSUME NEW j \in Sockets, slotOf[j] # 0,
                      sock'[j] \in {"posted", "open", "left"},
                      sock'[j] = "left" => j \notin missed
               PROVE  /\ slotOf[j] # s
                      /\ sock'[j] = sock[j] /\ ReceivesOf(j)' = ReceivesOf(j)
                      /\ SocketClient'[slotOf[j]] = SocketClient[slotOf[j]]
      BY <1>1, <1>2 DEF OneReceive
  <2>1. sock'[j] = sock[j] /\ Used(j) /\ j # SocketClient[s]
      BY <1>0, <1>7, <1>9 DEF Used
  <2>2. slotOf[j] # s
    <3> SUFFICES ASSUME slotOf[j] = s PROVE FALSE
        OBVIOUS
    <3>1. sock[j] = "left"
        BY <1>14, <2>1
    <3> QED
        BY <1>1, <2>1, <3>1 DEF OneReceive
  <2>3. PICK r \in Slots : r = slotOf[j] /\ r # s
      BY <1>1, <2>2 DEF Types
  <2>4. slotOf'[j] = r /\ recv'[j] = recv[j] /\ rebinding'[r] = rebinding[r]
      BY <1>2, <2>3
  <2>5. /\ done'["accept"][r] = done["accept"][r]
        /\ done'["recv"][r] = done["recv"][r]
        /\ done'["recvBroken"][r] = done["recvBroken"][r]
      BY <1>5, <2>3 DEF Completions
  <2>6. ReceivesOf(j)' = ReceivesOf(j)
      BY <2>3, <2>4, <2>5 DEF ReceivesOf, Handled
  <2> QED
      BY <1>6, <2>1, <2>2, <2>3, <2>6
<1> QED
    BY <1>8, <1>11, <1>12, <1>13, <1>15, <1>16 DEF Inv

(* A failed accept leaves a socket that nobody has. *)
LEMMA AcceptFailsInv ==
    ASSUME Inv, NEW k \in Sockets, AcceptFails(k)
    PROVE  Inv'
<1>1. Types /\ UsedFirst /\ KeysAgree /\ OneSocket /\ OpsBegun /\ BrokenLeft /\ OneReceive
    BY DEF Inv
<1>2. /\ sock[k] \in {"posted", "aborted"} /\ sock' = [sock EXCEPT ![k] = "closed"]
      /\ UNCHANGED <<slotOf, recv, send, done, rebinding, SocketClient, IsSending,
                     EmptySocketQue, posted, refused, missed>>
    BY DEF AcceptFails, slotVars, counts
<1>3. sock'[k] = "closed" /\ \A j \in Sockets : j # k => sock'[j] = sock[j]
    BY <1>1, <1>2 DEF Types
<1>4. Types'
    BY <1>1, <1>2 DEF Types
<1>5. \A j \in Sockets : Used(j)' <=> Used(j)
    BY <1>2, <1>3 DEF Used
<1>6. UsedFirst' /\ OneSocket'
    BY <1>1, <1>2, <1>5, SocketsKept
<1>7. KeysAgree'
  <2>1. \A r \in Slots : SocketClient'[r] # None
            => sock'[SocketClient'[r]] # "unused" /\ slotOf'[SocketClient'[r]] = r
      BY <1>1, <1>2, <1>3 DEF KeysAgree, Types, Used
  <2> QED
      BY <1>1, <1>2, <1>5, <2>1 DEF KeysAgree, Used
<1>8. OpsBegun'
    BY <1>1, <1>2, <1>3 DEF OpsBegun
<1>9. BrokenLeft'
    BY <1>1, <1>2, <1>3, <1>5 DEF BrokenLeft
<1>10. OneReceive'
  <2>1. \A j \in Sockets : ReceivesOf(j)' = ReceivesOf(j)
      BY <1>2 DEF ReceivesOf, Handled
  <2> QED
      BY <1>1, <1>2, <1>3, <2>1 DEF OneReceive
<1> QED
    BY <1>4, <1>6, <1>7, <1>8, <1>9, <1>10 DEF Inv

(* The server that crashed has no connection and nothing under way. *)
LEMMA AcceptBrokenInv ==
    ASSUME Inv, AcceptBroken
    PROVE  Inv'
<1>1. Types /\ UsedFirst /\ KeysAgree /\ OneSocket /\ OpsBegun /\ BrokenLeft /\ OneReceive
    BY DEF Inv
<1>2. /\ sock' = [k \in Sockets |-> IF sock[k] = "unused" THEN "unused" ELSE "closed"]
      /\ recv' = [k \in Sockets |-> 0] /\ send' = {}
      /\ done' = [c \in Completions |-> [s \in Slots |-> 0]]
      /\ rebinding' = [s \in Slots |-> 0]
      /\ UNCHANGED <<slotOf, SocketClient, IsSending, EmptySocketQue, posted, refused, missed>>
    BY DEF AcceptBroken, slotVars
<1>3. \A j \in Sockets : /\ sock'[j] \in {"unused", "closed"}
                         /\ sock'[j] = "unused" <=> sock[j] = "unused"
    BY <1>2
<1>4. Types'
    BY <1>1, <1>2 DEF Types
<1>5. \A j \in Sockets : Used(j)' <=> Used(j)
    BY <1>3 DEF Used
<1>6. UsedFirst' /\ OneSocket'
    BY <1>1, <1>2, <1>5, SocketsKept
<1>7. KeysAgree'
  <2>1. \A r \in Slots : SocketClient'[r] # None
            => sock'[SocketClient'[r]] # "unused" /\ slotOf'[SocketClient'[r]] = r
      BY <1>1, <1>2, <1>3 DEF KeysAgree, Types, Used
  <2>2. \A j \in Sockets : Used(j)' => slotOf'[j] < posted'
      BY <1>1, <1>2, <1>5 DEF KeysAgree
  <2>3. \A r \in Slots : rebinding'[r] = 0 /\ \A c \in Completions : done'[c][r] = 0
      BY <1>2
  <2> QED
      BY <2>1, <2>2, <2>3 DEF KeysAgree, Used
<1>8. OpsBegun'
    BY <1>2 DEF OpsBegun
<1>9. BrokenLeft'
  <2>1. \A r \in Slots : done'["recvBroken"][r] = 0 /\ done'["sendBroken"][r] = 0
      BY <1>2 DEF Completions
  <2>2. \A j \in Sockets : slotOf'[j] \in Slots
      BY <1>4 DEF Types
  <2> QED
      BY <2>1, <2>2 DEF BrokenLeft
<1>10. OneReceive'
    BY <1>3 DEF OneReceive
<1> QED
    BY <1>4, <1>6, <1>7, <1>8, <1>9, <1>10 DEF Inv

LEMMA PostAllInv ==
    ASSUME Inv, PostAll
    PROVE  Inv'
<1>1. /\ posted < MaxClientCount /\ PostAccept(posted) /\ posted' = posted + 1
      /\ UNCHANGED <<recv, send, done, rebinding, IsSending, EmptySocketQue, missed>>
    BY DEF PostAll, ioVars, counts
<1>2. posted \in 0 .. MaxClientCount /\ EmptySocketQue \in Seq(Slots)
    BY DEF Inv, Types
<1>3. posted \in Slots /\ posted < posted' /\ posted' \in posted .. MaxClientCount
    BY <1>1, <1>2, Numbers
<1> QED
    BY <1>1, <1>2, <1>3, PostAcceptStep

LEMMA RepostInv ==
    ASSUME Inv, Repost
    PROVE  Inv'
<1>1. /\ posted = MaxClientCount /\ PostAccept(0) /\ posted' = posted
      /\ EmptySocketQue # <<>> /\ EmptySocketQue' = Tail(EmptySocketQue)
      /\ UNCHANGED <<recv, send, done, rebinding, IsSending, missed>>
    BY DEF Repost, ioVars, counts
<1>2. EmptySocketQue \in Seq(Slots)
    BY DEF Inv, Types
<1>3. 0 \in Slots /\ 0 < posted' /\ posted' \in posted .. MaxClientCount
    BY <1>1, CountAssumption, Numbers
<1>4. EmptySocketQue' \in Seq(Slots)
    BY <1>1, <1>2
<1> QED
    BY <1>1, <1>3, <1>4, PostAcceptStep

(* Every step keeps the invariant. *)
LEMMA NextInv == Inv /\ [Next]_vars => Inv'
<1> SUFFICES ASSUME Inv, [Next]_vars PROVE Inv'
    OBVIOUS
<1>0. CASE AcceptBroken
    BY <1>0, AcceptBrokenInv
<1>1. CASE PostAll
    BY <1>1, PostAllInv
<1>2. CASE Repost
    BY <1>2, RepostInv
<1>3. ASSUME NEW k \in Sockets, Windows(k) PROVE Inv'
    BY <1>3, ConnectInv, AcceptFailsInv, LeaveInv, RecvEndsInv, SendEndsInv DEF Windows
<1>4. ASSUME NEW s \in Slots, SendData(s) \/ Worker(s) PROVE Inv'
    BY <1>4, SendDataInv, AcceptedInv, ReceivedInv, RebindInv, OnSendCompleteInv, BrokenInv
       DEF Worker
<1>5. CASE UNCHANGED vars
  <2>1. UNCHANGED <<sock, slotOf, recv, send, done, rebinding, SocketClient, IsSending,
                    EmptySocketQue, posted, refused, missed>>
      BY <1>5 DEF vars, ioVars, slotVars, counts
  <2>2. Types' /\ UsedFirst' /\ KeysAgree' /\ OneSocket' /\ OpsBegun' /\ BrokenLeft'
      BY <2>1 DEF Inv, Types, UsedFirst, KeysAgree, OneSocket, OpsBegun, BrokenLeft, Used
  <2>3. OneReceive'
      BY <2>1 DEF Inv, OneReceive, ReceivesOf, Handled
  <2> QED
      BY <2>2, <2>3 DEF Inv
<1> QED
    BY <1>0, <1>1, <1>2, <1>3, <1>4, <1>5 DEF Next

(* Every reachable state satisfies the invariant. *)
THEOREM ConnectionsInvariant == Spec => []Inv
<1>1. Init => Inv
    BY InitInv
<1>2. Inv /\ [Next]_vars => Inv'
    BY NextInv
<1> QED
    BY <1>1, <1>2, PTL DEF Spec

(* A client of any slot but 0 is the one its slot serves and has exactly    *)
(* one receive pending, completed or in a worker's hands, for any number of *)
(* slots and however the completions of its slot are ordered.               *)
THEOREM EveryOtherServed == Spec => []OthersServed
<1>1. Inv => OthersServed
  <2> SUFFICES ASSUME Inv, NEW k \in Are({"open", "left"}) \ missed, slotOf[k] # 0
               PROVE  /\ SocketClient[slotOf[k]] = k
                      /\ recv[k] + rebinding[slotOf[k]] + done["accept"][slotOf[k]]
                            + done["recv"][slotOf[k]] + done["recvBroken"][slotOf[k]] = 1
      BY DEF OthersServed
  <2>1. k \in Sockets /\ sock[k] \in {"open", "left"} /\ k \notin missed
      BY DEF Are
  <2>2. SocketClient[slotOf[k]] = k /\ ReceivesOf(k) = 1
      BY <2>1 DEF Inv, OneReceive
  <2>3. PICK s \in Slots : s = slotOf[k]
      BY <2>1 DEF Inv, Types
  <2>4. /\ rebinding[s] \in Nat /\ done["accept"][s] \in Nat
        /\ done["recv"][s] \in Nat /\ done["recvBroken"][s] \in Nat /\ recv[k] \in Nat
    <3>1. Types
        BY DEF Inv
    <3> QED
        BY <2>1, <3>1, HandledNat DEF Types
  <2>5. recv[k] + (rebinding[s] + done["accept"][s] + done["recv"][s]
            + done["recvBroken"][s]) = 1
      BY <2>2, <2>3 DEF ReceivesOf, Handled
  <2>6. recv[k] + rebinding[s] + done["accept"][s] + done["recv"][s]
            + done["recvBroken"][s] = 1
      BY <2>4, <2>5
  <2> QED
      BY <2>2, <2>3, <2>6
<1> QED
    BY <1>1, ConnectionsInvariant, PTL

(* A step closes only the socket its slot holds, and an error is reported   *)
(* for a slot other than 0 only after the client left: until the server     *)
(* crashes no live client of these slots is cut off.                        *)
THEOREM NoLiveClientCut == Spec => LiveNotCut
<1>1. ASSUME Inv, [Next]_vars, ~down', NEW k \in Sockets, slotOf[k] # 0, sock[k] = "open"
      PROVE  sock'[k] # "closed"
  <2>0. Types /\ KeysAgree /\ BrokenLeft
      BY <1>1 DEF Inv
  <2>1. ASSUME NEW s \in Slots, PostAccept(s) PROVE sock'[k] # "closed"
      BY <1>1, <2>0, <2>1 DEF PostAccept, Types
  <2>2. CASE PostAll
    <3>1. posted \in Slots
        BY <2>0, <2>2, Numbers DEF PostAll, Types
    <3> QED
        BY <2>1, <2>2, <3>1 DEF PostAll
  <2>3. CASE Repost
      BY <2>1, <2>3, Numbers DEF Repost
  <2>4. ASSUME NEW j \in Sockets, Windows(j) PROVE sock'[k] # "closed"
      BY <1>1, <2>0, <2>4
         DEF Windows, Connect, AcceptFails, Leave, RecvEnds, SendEnds, Types
  <2>5. ASSUME NEW s \in Slots, Broken(s) PROVE sock'[k] # "closed"
    <3>1. sock' = [j \in Sockets |->
                      IF j = SocketClient[s] THEN Closed(sock[j]) ELSE sock[j]]
        BY <2>5 DEF Broken, CloseSocket
    <3>2. SocketClient[s] # k
      <4> SUFFICES ASSUME SocketClient[s] = k PROVE FALSE
          OBVIOUS
      <4>1. slotOf[k] = s /\ Used(k)
          BY <2>0, Numbers DEF KeysAgree
      <4>2. PICK c \in {"recvBroken", "sendBroken"} : Takes(c, s)
          BY <2>5 DEF Broken
      <4>3. done[c][s] > 0
          BY <4>2 DEF Takes
      <4>4. done["recvBroken"][s] > 0 \/ done["sendBroken"][s] > 0
          BY <4>2, <4>3
      <4>5. sock[k] \in {"left", "closed"}
          BY <1>1, <2>0, <4>1, <4>4 DEF BrokenLeft
      <4> QED
          BY <1>1, <4>5
    <3> QED
        BY <1>1, <3>1, <3>2
  <2>6. ASSUME NEW s \in Slots, SendData(s) \/ (Worker(s) /\ ~Broken(s))
        PROVE  sock'[k] # "closed"
      BY <1>1, <2>6 DEF SendData, Worker, Accepted, Received, Rebind, OnSendComplete
  <2>7. ~AcceptBroken
      BY <1>1 DEF AcceptBroken
  <2>8. CASE UNCHANGED vars
      BY <1>1, <2>8 DEF vars
  <2> QED
      BY <1>1, <2>2, <2>3, <2>4, <2>5, <2>6, <2>7, <2>8 DEF Next
<1>2. Inv /\ [Next]_vars
         => [~down' => \A k \in Sockets :
                slotOf[k] # 0 /\ sock[k] = "open" => sock'[k] # "closed"]_vars
    BY <1>1
<1> QED
    BY <1>2, ConnectionsInvariant, PTL DEF Spec, LiveNotCut

-----------------------------------------------------------------------------
(* What f counts under c, one triple for each. *)
LEMMA EachIn ==
    ASSUME NEW c, NEW S, NEW f \in [S -> Nat]
    PROVE  \A r : r \in Each(c, f) <=> \E x \in S, i \in Nat :
                      1 <= i /\ i <= f[x] /\ r = <<c, x, i>>
<1>1. DOMAIN f = S /\ \A x \in S : f[x] \in Nat
    OBVIOUS
<1>2. \A x \in S : \A i : i \in 1 .. f[x] <=> i \in Nat /\ 1 <= i /\ i <= f[x]
    BY <1>1
<1>3. \A r : r \in Each(c, f) <=> \E x \in S : \E i \in 1 .. f[x] : r = <<c, x, i>>
  <2>1. \A r : r \in Each(c, f)
            <=> \E x \in DOMAIN f : r \in {<<c, x, i>> : i \in 1 .. f[x]}
      BY DEF Each
  <2> QED
      BY <1>1, <2>1
<1> QED
    BY <1>2, <1>3

(* Names keep them apart. *)
LEMMA EachApart ==
    ASSUME NEW c, NEW d, c # d, NEW S, NEW T, NEW f \in [S -> Nat], NEW g \in [T -> Nat]
    PROVE  Each(c, f) \cap Each(d, g) = {}
<1>1. SUFFICES ASSUME NEW r, r \in Each(c, f), r \in Each(d, g) PROVE FALSE
    OBVIOUS
<1>2. PICK x \in S, i \in Nat : r = <<c, x, i>>
    BY <1>1, EachIn
<1>3. PICK y \in T, j \in Nat : r = <<d, y, j>>
    BY <1>1, EachIn
<1> QED
    BY <1>2, <1>3

Counted(c, f) == IsFiniteSet(Each(c, f)) /\ Cardinality(Each(c, f)) \in Nat

(* One more, and one less. *)
LEMMA EachMore ==
    ASSUME NEW c, NEW S, NEW f \in [S -> Nat], NEW x \in S, NEW g \in [S -> Nat],
           Counted(c, f), g[x] = f[x] + 1, \A y \in S : y # x => g[y] = f[y]
    PROVE  Counted(c, g) /\ Cardinality(Each(c, g)) = Cardinality(Each(c, f)) + 1
<1>1. PICK n \in Nat : n = f[x] /\ g[x] = n + 1
    OBVIOUS
<1>2. \A r : r \in Each(c, g) <=> r \in Each(c, f) \/ r = <<c, x, n + 1>>
  <2>1. TAKE r
  <2>2. ASSUME r \in Each(c, g) PROVE r \in Each(c, f) \/ r = <<c, x, n + 1>>
    <3>1. PICK y \in S, i \in Nat : 1 <= i /\ i <= g[y] /\ r = <<c, y, i>>
        BY <2>2, EachIn
    <3>2. i <= f[y] \/ (y = x /\ i = n + 1)
        BY <1>1, <3>1
    <3> QED
        BY <3>1, <3>2, EachIn
  <2>3. ASSUME r \in Each(c, f) PROVE r \in Each(c, g)
    <3>1. PICK y \in S, i \in Nat : 1 <= i /\ i <= f[y] /\ r = <<c, y, i>>
        BY <2>3, EachIn
    <3>2. i <= g[y]
        BY <1>1, <3>1
    <3> QED
        BY <3>1, <3>2, EachIn
  <2>4. <<c, x, n + 1>> \in Each(c, g)
    <3>1. n + 1 \in Nat /\ 1 <= n + 1 /\ n + 1 <= g[x]
        BY <1>1
    <3> QED
        BY <3>1, EachIn
  <2> QED
      BY <2>2, <2>3, <2>4
<1>3. <<c, x, n + 1>> \notin Each(c, f)
  <2> SUFFICES ASSUME <<c, x, n + 1>> \in Each(c, f) PROVE FALSE
      OBVIOUS
  <2>1. PICK y \in S, i \in Nat : i <= f[y] /\ <<c, x, n + 1>> = <<c, y, i>>
      BY EachIn
  <2>2. y = x /\ i = n + 1
      BY <2>1
  <2> QED
      BY <1>1, <2>1, <2>2
<1> DEFINE t == <<c, x, n + 1>>
<1>4. Each(c, g) = Each(c, f) \cup {t}
    BY <1>2
<1> HIDE DEF t
<1>5. t \notin Each(c, f)
    BY <1>3 DEF t
<1>6. IsFiniteSet(Each(c, g)) /\ Cardinality(Each(c, g)) = Cardinality(Each(c, f)) + 1
    BY <1>4, <1>5, FS_AddElement DEF Counted
<1> QED
    BY <1>6, FS_CardinalityType DEF Counted

LEMMA EachLess ==
    ASSUME NEW c, NEW S, NEW f \in [S -> Nat], NEW x \in S, NEW g \in [S -> Nat],
           Counted(c, f), f[x] > 0, g[x] = f[x] - 1, \A y \in S : y # x => g[y] = f[y]
    PROVE  Counted(c, g) /\ Cardinality(Each(c, g)) = Cardinality(Each(c, f)) - 1
<1>1. PICK n \in Nat : f[x] = n + 1 /\ g[x] = n
  <2>1. f[x] \in Nat /\ g[x] \in Nat /\ f[x] = g[x] + 1
      OBVIOUS
  <2> QED
      BY <2>1
<1>2. \A r : r \in Each(c, f) <=> r \in Each(c, g) \/ r = <<c, x, n + 1>>
  <2>1. TAKE r
  <2>2. ASSUME r \in Each(c, f) PROVE r \in Each(c, g) \/ r = <<c, x, n + 1>>
    <3>1. PICK y \in S, i \in Nat : 1 <= i /\ i <= f[y] /\ r = <<c, y, i>>
        BY <2>2, EachIn
    <3>2. i <= g[y] \/ (y = x /\ i = n + 1)
        BY <1>1, <3>1
    <3> QED
        BY <3>1, <3>2, EachIn
  <2>3. ASSUME r \in Each(c, g) PROVE r \in Each(c, f)
    <3>1. PICK y \in S, i \in Nat : 1 <= i /\ i <= g[y] /\ r = <<c, y, i>>
        BY <2>3, EachIn
    <3>2. i <= f[y]
        BY <1>1, <3>1
    <3> QED
        BY <3>1, <3>2, EachIn
  <2>4. <<c, x, n + 1>> \in Each(c, f)
    <3>1. n + 1 \in Nat /\ 1 <= n + 1 /\ n + 1 <= f[x]
        BY <1>1
    <3> QED
        BY <3>1, EachIn
  <2> QED
      BY <2>2, <2>3, <2>4
<1>3. <<c, x, n + 1>> \notin Each(c, g)
  <2> SUFFICES ASSUME <<c, x, n + 1>> \in Each(c, g) PROVE FALSE
      OBVIOUS
  <2>1. PICK y \in S, i \in Nat : i <= g[y] /\ <<c, x, n + 1>> = <<c, y, i>>
      BY EachIn
  <2>2. y = x /\ i = n + 1
      BY <2>1
  <2> QED
      BY <1>1, <2>1, <2>2
<1> DEFINE t == <<c, x, n + 1>>
<1>4. Each(c, g) = Each(c, f) \ {t} /\ t \in Each(c, f)
    BY <1>2, <1>3
<1> HIDE DEF t
<1>5. IsFiniteSet(Each(c, g)) /\ Cardinality(Each(c, g)) = Cardinality(Each(c, f)) - 1
    BY <1>4, FS_RemoveElement DEF Counted
<1> QED
    BY <1>5, FS_CardinalityType DEF Counted

(* None of nothing. *)
LEMMA EachNone ==
    ASSUME NEW c, NEW S, NEW f \in [S -> Nat], \A x \in S : f[x] = 0
    PROVE  Counted(c, f) /\ Cardinality(Each(c, f)) = 0
<1>1. Each(c, f) = {}
  <2> SUFFICES ASSUME NEW r, r \in Each(c, f) PROVE FALSE
      OBVIOUS
  <2>1. PICK x \in S, i \in Nat : 1 <= i /\ i <= f[x]
      BY EachIn
  <2> QED
      BY <2>1
<1> QED
    BY <1>1, FS_EmptySet DEF Counted

(* Two sets that have nothing in common. *)
LEMMA TwoParts ==
    ASSUME NEW A, NEW B, IsFiniteSet(A), IsFiniteSet(B), A \cap B = {}
    PROVE  /\ IsFiniteSet(A \cup B)
           /\ Cardinality(A \cup B) = Cardinality(A) + Cardinality(B)
<1>1. /\ IsFiniteSet(A \cup B)
      /\ Cardinality(A \cup B) = Cardinality(A) + Cardinality(B) - Cardinality(A \cap B)
    BY FS_Union
<1>2. Cardinality(A \cap B) = 0
    BY FS_EmptySet
<1>3. Cardinality(A) \in Nat /\ Cardinality(B) \in Nat
    BY FS_CardinalityType
<1> QED
    BY <1>1, <1>2, <1>3

(* The receives under way, by where they are. *)
LEMMA FiveParts ==
    ASSUME NEW S, NEW T, NEW p \in [S -> Nat], NEW b \in [T -> Nat], NEW a \in [T -> Nat],
           NEW v \in [T -> Nat], NEW k \in [T -> Nat],
           Counted("pending", p), Counted("rebinding", b), Counted("accept", a),
           Counted("recv", v), Counted("recvBroken", k)
    PROVE  Cardinality(Each("pending", p) \cup Each("rebinding", b) \cup Each("accept", a)
                           \cup Each("recv", v) \cup Each("recvBroken", k))
           = Cardinality(Each("pending", p)) + Cardinality(Each("rebinding", b))
               + Cardinality(Each("accept", a)) + Cardinality(Each("recv", v))
               + Cardinality(Each("recvBroken", k))
<1> DEFINE P == Each("pending", p)
           B == Each("rebinding", b)
           A == Each("accept", a)
           V == Each("recv", v)
           K == Each("recvBroken", k)
<1>1. /\ IsFiniteSet(P) /\ IsFiniteSet(B) /\ IsFiniteSet(A) /\ IsFiniteSet(V) /\ IsFiniteSet(K)
    BY DEF Counted
<1>2. P \cap B = {} /\ P \cap A = {} /\ P \cap V = {} /\ P \cap K = {}
    BY EachApart
<1>3. B \cap A = {} /\ B \cap V = {} /\ B \cap K = {}
    BY EachApart
<1>4. A \cap V = {} /\ A \cap K = {} /\ V \cap K = {}
    BY EachApart
<1> HIDE DEF P, B, A, V, K
<1>5. IsFiniteSet(P \cup B) /\ Cardinality(P \cup B) = Cardinality(P) + Cardinality(B)
    BY <1>1, <1>2, TwoParts
<1>6. (P \cup B) \cap A = {} /\ (P \cup B \cup A) \cap V = {} /\ (P \cup B \cup A \cup V) \cap K = {}
    BY <1>2, <1>3, <1>4
<1>7. /\ IsFiniteSet(P \cup B \cup A)
      /\ Cardinality(P \cup B \cup A) = Cardinality(P \cup B) + Cardinality(A)
    BY <1>1, <1>5, <1>6, TwoParts
<1>8. /\ IsFiniteSet(P \cup B \cup A \cup V)
      /\ Cardinality(P \cup B \cup A \cup V) = Cardinality(P \cup B \cup A) + Cardinality(V)
    BY <1>1, <1>6, <1>7, TwoParts
<1>9. Cardinality(P \cup B \cup A \cup V \cup K) = Cardinality(P \cup B \cup A \cup V) + Cardinality(K)
    BY <1>1, <1>6, <1>8, TwoParts
<1>10. Cardinality(P \cup B \cup A \cup V \cup K)
           = Cardinality(P) + Cardinality(B) + Cardinality(A) + Cardinality(V) + Cardinality(K)
    BY <1>5, <1>7, <1>8, <1>9
<1> QED
    BY <1>10 DEF P, B, A, V, K

(* The accepts that are pending, and the receives by where they are. *)
Pending  == Are({"posted", "aborted"})
Bound    == Cardinality(Each("pending", recv))
AtWork   == Cardinality(Each("rebinding", rebinding))
Came     == Cardinality(Each("accept", done["accept"]))
Full     == Cardinality(Each("recv", done["recv"]))
Empty    == Cardinality(Each("recvBroken", done["recvBroken"]))

AllCounted ==
    /\ Counted("pending", recv) /\ Counted("rebinding", rebinding)
    /\ Counted("accept", done["accept"]) /\ Counted("recv", done["recv"])
    /\ Counted("recvBroken", done["recvBroken"])
    /\ failed \in Nat /\ unbound \in Nat

Enough ==
    ~down => Cardinality(Pending) + failed + (Bound + AtWork + Came + Full + Empty)
                 + Len(EmptySocketQue) >= posted - refused - unbound

LEMMA EnoughAccounts == Types /\ AllCounted /\ Enough => SlotsAccounted
<1> SUFFICES ASSUME Types, AllCounted, Enough PROVE SlotsAccounted
    OBVIOUS
<1>1. /\ recv \in [Sockets -> Nat] /\ rebinding \in [Slots -> Nat]
      /\ done["accept"] \in [Slots -> Nat] /\ done["recv"] \in [Slots -> Nat]
      /\ done["recvBroken"] \in [Slots -> Nat]
    BY DEF Types, Completions
<1>2. /\ Counted("pending", recv) /\ Counted("rebinding", rebinding)
      /\ Counted("accept", done["accept"]) /\ Counted("recv", done["recv"])
      /\ Counted("recvBroken", done["recvBroken"])
    BY DEF AllCounted
<1>3. Cardinality(Receives) = Bound + AtWork + Came + Full + Empty
    BY <1>1, <1>2, FiveParts DEF Receives, Bound, AtWork, Came, Full, Empty
<1> QED
    BY <1>3 DEF Enough, SlotsAccounted, Pending

LEMMA PendingFinite ==
    /\ IsFiniteSet(Pending) /\ Cardinality(Pending) \in Nat
    /\ IsFiniteSet(Pending') /\ Cardinality(Pending') \in Nat
<1>1. IsFiniteSet(Sockets)
    BY SocketsAssumption, FS_Interval DEF Sockets
<1>2. Pending \subseteq Sockets /\ Pending' \subseteq Sockets
    BY DEF Pending, Are
<1>3. IsFiniteSet(Pending) /\ IsFiniteSet(Pending')
    BY <1>1, <1>2, FS_Subset
<1> QED
    BY <1>3, FS_CardinalityType

LEMMA CountNumbers ==
    ASSUME Types, AllCounted
    PROVE  /\ Bound \in Nat /\ AtWork \in Nat /\ Came \in Nat /\ Full \in Nat /\ Empty \in Nat
           /\ failed \in Nat /\ unbound \in Nat /\ Cardinality(Pending) \in Nat
           /\ posted \in Nat /\ refused \in Nat /\ Len(EmptySocketQue) \in Nat
<1>1. /\ Bound \in Nat /\ AtWork \in Nat /\ Came \in Nat /\ Full \in Nat /\ Empty \in Nat
      /\ failed \in Nat /\ unbound \in Nat
    BY DEF AllCounted, Counted, Bound, AtWork, Came, Full, Empty
<1>2. posted \in Nat /\ refused \in Nat /\ Len(EmptySocketQue) \in Nat
    BY Numbers DEF Types
<1> QED
    BY <1>1, <1>2, PendingFinite

(* A slot is posted with a socket more, or the refusal is counted. *)
LEMMA PostAcceptCounts ==
    ASSUME Types, UsedFirst, NEW s \in Slots, PostAccept(s)
    PROVE  \/ Cardinality(Pending') = Cardinality(Pending) + 1 /\ refused' = refused
           \/ Cardinality(Pending') = Cardinality(Pending) /\ refused' = refused + 1
<1>1. CASE refused' = refused + 1 /\ UNCHANGED <<sock, slotOf>>
  <2>1. Pending' = Pending
      BY <1>1 DEF Pending, Are
  <2> QED
      BY <1>1, <2>1
<1>2. ASSUME NEW k \in Sockets, k = 1 + Cardinality(Sockets \ Are({"unused"})),
             sock' = [sock EXCEPT ![k] = "posted"], UNCHANGED refused
      PROVE  Cardinality(Pending') = Cardinality(Pending) + 1 /\ refused' = refused
  <2>1. ~Used(k)
    <3>1. Used(k) <=> k < k
        BY <1>2, NextSocket
    <3>2. k \in Nat
        BY Numbers
    <3> QED
        BY <3>1, <3>2
  <2>2. sock'[k] = "posted" /\ \A j \in Sockets : j # k => sock'[j] = sock[j]
      BY <1>2 DEF Types
  <2>3. \A j : j \in Pending' <=> j \in Pending \/ j = k
      BY <2>2 DEF Pending, Are
  <2>4. k \notin Pending
      BY <2>1 DEF Pending, Are, Used
  <2>5. Pending' = Pending \cup {k}
      BY <2>3
  <2> QED
      BY <1>2, <2>4, <2>5, PendingFinite, FS_AddElement
<1> QED
    BY <1>1, <1>2 DEF PostAccept

(* An accept that ends is pending no more. *)
LEMMA AcceptEnds ==
    ASSUME Types, NEW k \in Pending, NEW x \in {"open", "closed"},
           sock' = [sock EXCEPT ![k] = x]
    PROVE  Cardinality(Pending') = Cardinality(Pending) - 1
<1>1. k \in Sockets
    BY DEF Pending, Are
<1>2. sock'[k] = x /\ \A j \in Sockets : j # k => sock'[j] = sock[j]
    BY <1>1 DEF Types
<1>3. \A j : j \in Pending' <=> j \in Pending /\ j # k
    BY <1>2 DEF Pending, Are
<1>4. Pending' = Pending \ {k}
    BY <1>3
<1> QED
    BY <1>4, PendingFinite, FS_RemoveElement

(* BindRecv puts a receive back, or is counted. *)
LEMMA BindRecvCounts ==
    ASSUME Types, Counted("pending", recv), NEW s \in Slots, BindRecv(s)
    PROVE  /\ Counted("pending", recv)'
           /\ \/ Bound' = Bound + 1 /\ unbound' = unbound
              \/ Bound' = Bound /\ unbound' = unbound + 1
<1>1. CASE recv' = recv /\ unbound' = unbound + 1
    BY <1>1 DEF Counted, Bound
<1>2. ASSUME NEW k, k = SocketClient[s], k \in Are({"open", "left"}),
             recv' = [recv EXCEPT ![k] = @ + 1], unbound' = unbound
      PROVE  Counted("pending", recv)' /\ Bound' = Bound + 1
  <2>1. k \in Sockets /\ recv \in [Sockets -> Nat]
      BY <1>2 DEF Are, Types
  <2>2. /\ recv' \in [Sockets -> Nat] /\ recv'[k] = recv[k] + 1
        /\ \A j \in Sockets : j # k => recv'[j] = recv[j]
      BY <1>2, <2>1
  <2>3. /\ Counted("pending", recv')
        /\ Cardinality(Each("pending", recv')) = Cardinality(Each("pending", recv)) + 1
      BY <2>1, <2>2, EachMore
  <2> QED
      BY <2>3 DEF Bound, Counted
<1> QED
    BY <1>1, <1>2 DEF BindRecv

(* A worker takes a completion from its kind, and leaves the others. *)
LEMMA TakesCounts ==
    ASSUME Types, NEW c \in Completions, NEW s \in Slots, Takes(c, s), Counted(c, done[c])
    PROVE  /\ Counted(c, done'[c])
           /\ Cardinality(Each(c, done'[c])) = Cardinality(Each(c, done[c])) - 1
           /\ \A d \in Completions : d # c => done'[d] = done[d]
<1>1. done[c] \in [Slots -> Nat] /\ done[c][s] > 0
    BY DEF Types, Takes
<1>2. /\ done' \in [Completions -> [Slots -> Nat]]
      /\ done'[c][s] = done[c][s] - 1
      /\ \A r \in Slots : r # s => done'[c][r] = done[c][r]
    BY TakesFacts
<1>3. done'[c] \in [Slots -> Nat]
    BY <1>2
<1>4. \A d \in Completions : d # c => done'[d] = done[d]
    BY DEF Takes, Types
<1>5. /\ Counted(c, done'[c])
      /\ Cardinality(Each(c, done'[c])) = Cardinality(Each(c, done[c])) - 1
    BY <1>1, <1>2, <1>3, EachLess
<1> QED
    BY <1>4, <1>5

LEMMA CompletesCounts ==
    ASSUME Types, NEW c \in Completions, NEW s \in Slots, Completes(c, s), Counted(c, done[c])
    PROVE  /\ Counted(c, done'[c])
           /\ Cardinality(Each(c, done'[c])) = Cardinality(Each(c, done[c])) + 1
           /\ \A d \in Completions : d # c => done'[d] = done[d]
<1>1. done[c] \in [Slots -> Nat]
    BY DEF Types
<1>2. /\ done' \in [Completions -> [Slots -> Nat]]
      /\ done'[c][s] = done[c][s] + 1
      /\ \A r \in Slots : r # s => done'[c][r] = done[c][r]
    BY CompletesFacts
<1>3. done'[c] \in [Slots -> Nat]
    BY <1>2
<1>4. \A d \in Completions : d # c => done'[d] = done[d]
    BY DEF Completes, Types
<1>5. /\ Counted(c, done'[c])
      /\ Cardinality(Each(c, done'[c])) = Cardinality(Each(c, done[c])) + 1
    BY <1>1, <1>2, <1>3, EachMore
<1> QED
    BY <1>4, <1>5

(* The receives that are under way, all told. *)
Receiving == Bound + AtWork + Came + Full + Empty

Accounts == Types /\ UsedFirst /\ AllCounted /\ Enough

(* The sums that the steps need. *)
LEMMA SumPosted ==
    ASSUME NEW c \in Int, NEW f \in Int, NEW r \in Int, NEW q \in Int, NEW p \in Int,
           NEW e \in Int, NEW u \in Int,
           NEW c2 \in Int, NEW q2 \in Int, NEW p2 \in Int, NEW e2 \in Int,
           c + f + r + q >= p - e - u,
           (c2 = c + 1 /\ e2 = e) \/ (c2 = c /\ e2 = e + 1),
           (p2 = p + 1 /\ q2 = q) \/ (p2 = p /\ q2 = q - 1)
    PROVE  c2 + f + r + q2 >= p2 - e2 - u
OBVIOUS

LEMMA SumKept ==
    ASSUME NEW x \in Int, NEW y \in Int, NEW p \in Int, NEW e \in Int, NEW u \in Int,
           NEW w \in Int, x >= p - e - u, y + w >= x + u
    PROVE  y >= p - e - w
OBVIOUS

(* Each step leaves the accounts in order. *)
LEMMA PostCounts ==
    ASSUME Accounts, NEW s \in Slots, PostAccept(s),
           UNCHANGED <<recv, done, failed, rebinding, down, unbound>>,
           \/ posted' = posted + 1 /\ EmptySocketQue' = EmptySocketQue
           \/ /\ posted' = posted /\ EmptySocketQue # <<>>
              /\ EmptySocketQue' = Tail(EmptySocketQue)
    PROVE  AllCounted' /\ Enough'
<1>1. AllCounted'
    BY DEF Accounts, AllCounted, Counted
<1>2. /\ Bound \in Nat /\ AtWork \in Nat /\ Came \in Nat /\ Full \in Nat /\ Empty \in Nat
      /\ failed \in Nat /\ unbound \in Nat /\ Cardinality(Pending) \in Nat
      /\ posted \in Nat /\ refused \in Nat /\ Len(EmptySocketQue) \in Nat
    BY CountNumbers DEF Accounts
<1>3. /\ Bound' = Bound /\ AtWork' = AtWork /\ Came' = Came /\ Full' = Full /\ Empty' = Empty
    BY DEF Bound, AtWork, Came, Full, Empty
<1>4. \/ Cardinality(Pending') = Cardinality(Pending) + 1 /\ refused' = refused
      \/ Cardinality(Pending') = Cardinality(Pending) /\ refused' = refused + 1
    BY PostAcceptCounts DEF Accounts
<1>5. \/ posted' = posted + 1 /\ Len(EmptySocketQue') = Len(EmptySocketQue)
      \/ posted' = posted /\ Len(EmptySocketQue') = Len(EmptySocketQue) - 1
    BY DEF Accounts, Types
<1>6. ~down => Cardinality(Pending) + failed + (Bound + AtWork + Came + Full + Empty)
                   + Len(EmptySocketQue) >= posted - refused - unbound
    BY DEF Accounts, Enough
<1>7. ~down => Cardinality(Pending') + failed + (Bound + AtWork + Came + Full + Empty)
                   + Len(EmptySocketQue') >= posted' - refused' - unbound
  <2>1. PICK r \in Nat : r = Bound + AtWork + Came + Full + Empty
      BY <1>2
  <2>2. PICK c, f, q, p, e, u \in Int :
            /\ c = Cardinality(Pending) /\ f = failed /\ q = Len(EmptySocketQue)
            /\ p = posted /\ e = refused /\ u = unbound
      BY <1>2
  <2>3. PICK c2, q2, p2, e2 \in Int :
            /\ c2 = Cardinality(Pending') /\ q2 = Len(EmptySocketQue')
            /\ p2 = posted' /\ e2 = refused'
            /\ (c2 = c + 1 /\ e2 = e) \/ (c2 = c /\ e2 = e + 1)
            /\ (p2 = p + 1 /\ q2 = q) \/ (p2 = p /\ q2 = q - 1)
      BY <1>4, <1>5, <2>2
  <2>4. ASSUME ~down PROVE c2 + f + r + q2 >= p2 - e2 - u
    <3>1. c + f + r + q >= p - e - u
        BY <1>6, <2>1, <2>2, <2>4
    <3>2. /\ c \in Int /\ f \in Int /\ r \in Int /\ q \in Int /\ p \in Int /\ e \in Int
          /\ u \in Int /\ c2 \in Int /\ q2 \in Int /\ p2 \in Int /\ e2 \in Int
        BY <2>1, <2>2, <2>3
    <3>3. /\ (c2 = c + 1 /\ e2 = e) \/ (c2 = c /\ e2 = e + 1)
          /\ (p2 = p + 1 /\ q2 = q) \/ (p2 = p /\ q2 = q - 1)
        BY <2>3
    <3> QED
        BY <3>1, <3>2, <3>3, SumPosted
  <2> QED
      BY <2>1, <2>2, <2>3, <2>4
<1>8. Enough'
    BY <1>3, <1>7 DEF Enough
<1> QED
    BY <1>1, <1>8

(* The other steps post nothing. *)
LEMMA MovesCounts ==
    ASSUME Accounts, AllCounted', UNCHANGED <<down, posted, refused>>,
           NEW r \in Int, NEW r2 \in Int, r = Receiving, r2 = Receiving',
           Len(EmptySocketQue') \in Nat
    PROVE  Cardinality(Pending') + failed' + r2 + Len(EmptySocketQue') + unbound'
               >= Cardinality(Pending) + failed + r + Len(EmptySocketQue) + unbound
           => AllCounted' /\ Enough'
<1>0. SUFFICES ASSUME Cardinality(Pending') + failed' + r2 + Len(EmptySocketQue') + unbound'
                          >= Cardinality(Pending) + failed + r + Len(EmptySocketQue) + unbound
               PROVE  AllCounted' /\ Enough'
    OBVIOUS
<1>1. /\ failed \in Int /\ unbound \in Int /\ Cardinality(Pending) \in Int
      /\ posted \in Int /\ refused \in Int /\ Len(EmptySocketQue) \in Int
    BY CountNumbers DEF Accounts
<1>2. /\ failed' \in Int /\ unbound' \in Int /\ Cardinality(Pending') \in Int
      /\ Len(EmptySocketQue') \in Int
    BY PendingFinite DEF AllCounted
<1>a. Receiving = Bound + AtWork + Came + Full + Empty
    BY DEF Receiving
<1>3. ASSUME ~down
      PROVE  Cardinality(Pending') + failed' + r2 + Len(EmptySocketQue')
                 >= posted - refused - unbound'
  <2>1. PICK c, f, q, p, e, u \in Int :
            /\ c = Cardinality(Pending) /\ f = failed /\ q = Len(EmptySocketQue)
            /\ p = posted /\ e = refused /\ u = unbound
      BY <1>1
  <2>2. PICK c2, f2, q2, u2 \in Int :
            /\ c2 = Cardinality(Pending') /\ f2 = failed' /\ q2 = Len(EmptySocketQue')
            /\ u2 = unbound'
      BY <1>2
  <2>3. c + f + r + q >= p - e - u
      BY <1>a, <1>3, <2>1 DEF Accounts, Enough
  <2>4. c2 + f2 + r2 + q2 + u2 >= c + f + r + q + u
      BY <1>0, <2>1, <2>2
  <2>5. PICK x, y \in Int : x = c + f + r + q /\ y = c2 + f2 + r2 + q2
      BY <2>1, <2>2
  <2>6. x >= p - e - u /\ y + u2 >= x + u
      BY <2>3, <2>4, <2>5
  <2>7. x \in Int /\ y \in Int /\ p \in Int /\ e \in Int /\ u \in Int /\ u2 \in Int
      BY <2>1, <2>2, <2>5
  <2>8. y >= p - e - u2
      BY <2>6, <2>7, SumKept
  <2> QED
      BY <2>1, <2>2, <2>5, <2>8
<1> QED
    BY <1>3 DEF Enough, Receiving

LEMMA ConnectCounts ==
    ASSUME Accounts, NEW k \in Sockets, Connect(k)
    PROVE  AllCounted' /\ Enough'
<1>1. Types /\ AllCounted
    BY DEF Accounts
<1>2. /\ k \in Pending /\ sock' = [sock EXCEPT ![k] = "open"]
      /\ slotOf[k] \in Slots /\ "accept" \in Completions /\ Completes("accept", slotOf[k])
      /\ UNCHANGED <<recv, failed, rebinding, EmptySocketQue, down, posted, refused, unbound>>
    BY <1>1 DEF Connect, Pending, Are, Types, Completions, slotVars, counts
<1>3. Cardinality(Pending') = Cardinality(Pending) - 1
    BY <1>1, <1>2, AcceptEnds
<1>4. /\ Counted("accept", done'["accept"])
      /\ Cardinality(Each("accept", done'["accept"])) = Cardinality(Each("accept", done["accept"])) + 1
      /\ \A d \in Completions : d # "accept" => done'[d] = done[d]
    BY <1>1, <1>2, CompletesCounts DEF AllCounted
<1>5. done'["recv"] = done["recv"] /\ done'["recvBroken"] = done["recvBroken"]
    BY <1>4 DEF Completions
<1>6. AllCounted'
    BY <1>1, <1>2, <1>4, <1>5 DEF AllCounted, Counted
<1>7. Bound' = Bound /\ AtWork' = AtWork /\ Came' = Came + 1 /\ Full' = Full /\ Empty' = Empty
    BY <1>2, <1>4, <1>5 DEF Bound, AtWork, Came, Full, Empty
<1>8. /\ Bound \in Nat /\ AtWork \in Nat /\ Came \in Nat /\ Full \in Nat /\ Empty \in Nat
      /\ failed \in Nat /\ unbound \in Nat /\ Cardinality(Pending) \in Nat
      /\ Len(EmptySocketQue) \in Nat
    BY <1>1, CountNumbers
<1>9. /\ failed' = failed /\ EmptySocketQue' = EmptySocketQue /\ unbound' = unbound
      /\ UNCHANGED <<down, posted, refused>>
    BY <1>2
<1>10. PICK r \in Int, r2 \in Int :
          /\ r = Bound + AtWork + Came + Full + Empty
          /\ r2 = Bound' + AtWork' + Came' + Full' + Empty'
          /\ r2 = r + 1
    BY <1>7, <1>8
<1>11. Cardinality(Pending') + failed' + r2 + Len(EmptySocketQue') + unbound'
          >= Cardinality(Pending) + failed + r + Len(EmptySocketQue) + unbound
    BY <1>3, <1>8, <1>9, <1>10
<1> QED
    BY <1>1, <1>10, <1>11, <1>6, <1>8, <1>9, MovesCounts DEF Receiving

LEMMA AcceptFailsCounts ==
    ASSUME Accounts, NEW k \in Sockets, AcceptFails(k)
    PROVE  AllCounted' /\ Enough'
<1>1. Types /\ AllCounted
    BY DEF Accounts
<1>2. /\ k \in Pending /\ sock' = [sock EXCEPT ![k] = "closed"] /\ failed' = failed + 1
      /\ UNCHANGED <<recv, done, rebinding, EmptySocketQue, down, posted, refused, unbound>>
    BY <1>1 DEF AcceptFails, Pending, Are, slotVars, counts
<1>3. Cardinality(Pending') = Cardinality(Pending) - 1
    BY <1>1, <1>2, AcceptEnds
<1>4. AllCounted'
    BY <1>1, <1>2 DEF AllCounted, Counted
<1>5. Bound' = Bound /\ AtWork' = AtWork /\ Came' = Came /\ Full' = Full /\ Empty' = Empty
    BY <1>2 DEF Bound, AtWork, Came, Full, Empty
<1>6. /\ Bound \in Nat /\ AtWork \in Nat /\ Came \in Nat /\ Full \in Nat /\ Empty \in Nat
      /\ failed \in Nat /\ unbound \in Nat /\ Cardinality(Pending) \in Nat
      /\ Len(EmptySocketQue) \in Nat
    BY <1>1, CountNumbers
<1>7. EmptySocketQue' = EmptySocketQue /\ unbound' = unbound /\ UNCHANGED <<down, posted, refused>>
    BY <1>2
<1>8. PICK r \in Int, r2 \in Int :
          /\ r = Bound + AtWork + Came + Full + Empty
          /\ r2 = Bound' + AtWork' + Came' + Full' + Empty'
          /\ r2 = r
    BY <1>5, <1>6
<1>9. Cardinality(Pending') + failed' + r2 + Len(EmptySocketQue') + unbound'
          >= Cardinality(Pending) + failed + r + Len(EmptySocketQue) + unbound
    BY <1>2, <1>3, <1>6, <1>7, <1>8
<1> QED
    BY <1>1, <1>8, <1>9, <1>4, <1>6, <1>7, MovesCounts DEF Receiving

LEMMA RecvEndsCounts ==
    ASSUME Accounts, NEW k \in Sockets, RecvEnds(k)
    PROVE  AllCounted' /\ Enough'
<1>1. Types /\ AllCounted
    BY DEF Accounts
<1>2. /\ recv[k] > 0 /\ recv' = [recv EXCEPT ![k] = @ - 1] /\ slotOf[k] \in Slots
      /\ UNCHANGED <<sock, failed, rebinding, EmptySocketQue, down, posted, refused, unbound>>
    BY <1>1 DEF RecvEnds, Types, slotVars, counts
<1>3. PICK c \in {"recv", "recvBroken"} : Completes(c, slotOf[k])
    BY DEF RecvEnds
<1>4. /\ Counted("pending", recv') /\ Bound' = Bound - 1
  <2>1. recv \in [Sockets -> Nat] /\ recv[k] \in Nat /\ recv[k] - 1 \in Nat
      BY <1>1, <1>2 DEF Types
  <2>2. /\ recv' \in [Sockets -> Nat] /\ recv'[k] = recv[k] - 1
        /\ \A j \in Sockets : j # k => recv'[j] = recv[j]
      BY <1>2, <2>1
  <2>3. /\ Counted("pending", recv')
        /\ Cardinality(Each("pending", recv')) = Cardinality(Each("pending", recv)) - 1
    <3>1. Counted("pending", recv)
        BY <1>1 DEF AllCounted
    <3>2. recv[k] > 0
        BY <1>2
    <3> QED
        BY <2>1, <2>2, <3>1, <3>2, EachLess
  <2> QED
      BY <2>3 DEF Bound
<1>5. /\ c \in Completions /\ Counted(c, done[c])
    BY <1>1, <1>3 DEF Completions, AllCounted
<1>6. /\ Counted(c, done'[c])
      /\ Cardinality(Each(c, done'[c])) = Cardinality(Each(c, done[c])) + 1
      /\ \A d \in Completions : d # c => done'[d] = done[d]
    BY <1>1, <1>2, <1>3, <1>5, CompletesCounts
<1>7. done'["accept"] = done["accept"]
    BY <1>3, <1>6 DEF Completions
<1>8. /\ Counted("recv", done'["recv"]) /\ Counted("recvBroken", done'["recvBroken"])
      /\ Full' + Empty' = Full + Empty + 1
  <2>1. Full \in Nat /\ Empty \in Nat
      BY <1>1, CountNumbers
  <2>2. CASE c = "recv"
    <3>1. done'["recvBroken"] = done["recvBroken"]
        BY <1>6, <2>2 DEF Completions
    <3>2. Full' = Full + 1 /\ Empty' = Empty
        BY <1>6, <2>2, <3>1 DEF Full, Empty
    <3> QED
        BY <1>1, <1>6, <2>1, <2>2, <3>1, <3>2 DEF AllCounted
  <2>3. CASE c = "recvBroken"
    <3>1. done'["recv"] = done["recv"]
        BY <1>6, <2>3 DEF Completions
    <3>2. Full' = Full /\ Empty' = Empty + 1
        BY <1>6, <2>3, <3>1 DEF Full, Empty
    <3> QED
        BY <1>1, <1>6, <2>1, <2>3, <3>1, <3>2 DEF AllCounted
  <2> QED
      BY <1>3, <2>2, <2>3
<1>9. AllCounted'
    BY <1>1, <1>2, <1>4, <1>7, <1>8 DEF AllCounted, Counted
<1>10. AtWork' = AtWork /\ Came' = Came /\ Pending' = Pending
    BY <1>2, <1>7 DEF AtWork, Came, Pending, Are
<1>11. /\ Bound \in Nat /\ AtWork \in Nat /\ Came \in Nat /\ Full \in Nat /\ Empty \in Nat
       /\ failed \in Nat /\ unbound \in Nat /\ Cardinality(Pending) \in Nat
       /\ Len(EmptySocketQue) \in Nat /\ Full' \in Nat /\ Empty' \in Nat
    BY <1>1, <1>8, CountNumbers DEF Counted, Full, Empty
<1>12. /\ failed' = failed /\ EmptySocketQue' = EmptySocketQue /\ unbound' = unbound
       /\ UNCHANGED <<down, posted, refused>>
    BY <1>2
<1>13. PICK r \in Int, r2 \in Int :
          /\ r = Bound + AtWork + Came + Full + Empty
          /\ r2 = Bound' + AtWork' + Came' + Full' + Empty'
          /\ r2 = r
  <2>2. Bound + AtWork + Came + Full + Empty \in Int
      BY <1>11
  <2>3. PICK b, w, a, v, e, v2, e2 \in Nat :
            /\ b = Bound /\ w = AtWork /\ a = Came /\ v = Full /\ e = Empty
            /\ v2 = Full' /\ e2 = Empty' /\ v2 + e2 = v + e + 1
      BY <1>8, <1>11
  <2>4. (b - 1) + w + a + v2 + e2 = b + w + a + v + e
    <3>1. /\ b \in Int /\ w \in Int /\ a \in Int /\ v \in Int /\ e \in Int
          /\ v2 \in Int /\ e2 \in Int
        BY <2>3
    <3>2. v2 + e2 = v + e + 1
        BY <2>3
    <3> QED
        BY <3>1, <3>2
  <2> QED
      BY <1>4, <1>10, <2>2, <2>3, <2>4
<1>14. Cardinality(Pending') + failed' + r2 + Len(EmptySocketQue') + unbound'
          >= Cardinality(Pending) + failed + r + Len(EmptySocketQue) + unbound
    BY <1>10, <1>11, <1>12, <1>13
<1> QED
    BY <1>1, <1>13, <1>14, <1>9, <1>11, <1>12, MovesCounts DEF Receiving

LEMMA AcceptedCounts ==
    ASSUME Accounts, NEW s \in Slots, Accepted(s)
    PROVE  AllCounted' /\ Enough'
<1>1. Types /\ AllCounted
    BY DEF Accounts
<1>2. /\ Takes("accept", s) /\ "accept" \in Completions /\ BindRecv(s)
      /\ UNCHANGED <<sock, failed, rebinding, EmptySocketQue, down, posted, refused>>
    BY DEF Accepted, Completions, slotVars, counts
<1>3. /\ Counted("accept", done'["accept"]) /\ Came' = Came - 1
      /\ \A d \in Completions : d # "accept" => done'[d] = done[d]
    BY <1>1, <1>2, TakesCounts DEF AllCounted, Came
<1>4. done'["recv"] = done["recv"] /\ done'["recvBroken"] = done["recvBroken"]
    BY <1>3 DEF Completions
<1>5. /\ Counted("pending", recv)'
      /\ \/ Bound' = Bound + 1 /\ unbound' = unbound
         \/ Bound' = Bound /\ unbound' = unbound + 1
    BY <1>1, <1>2, BindRecvCounts DEF AllCounted
<1>6. /\ Bound \in Nat /\ AtWork \in Nat /\ Came \in Nat /\ Full \in Nat /\ Empty \in Nat
      /\ failed \in Nat /\ unbound \in Nat /\ Cardinality(Pending) \in Nat
      /\ Len(EmptySocketQue) \in Nat
    BY <1>1, CountNumbers
<1>7. AllCounted'
  <2>1. unbound' \in Nat
      BY <1>5, <1>6
  <2> QED
      BY <1>1, <1>2, <1>3, <1>4, <1>5, <2>1 DEF AllCounted, Counted
<1>8. AtWork' = AtWork /\ Full' = Full /\ Empty' = Empty /\ Pending' = Pending
    BY <1>2, <1>4 DEF AtWork, Full, Empty, Pending, Are
<1>9. failed' = failed /\ EmptySocketQue' = EmptySocketQue /\ UNCHANGED <<down, posted, refused>>
    BY <1>2
<1>10. PICK r \in Int, r2 \in Int :
          /\ r = Bound + AtWork + Came + Full + Empty
          /\ r2 = Bound' + AtWork' + Came' + Full' + Empty'
          /\ \/ r2 = r /\ unbound' = unbound
             \/ r2 = r - 1 /\ unbound' = unbound + 1
  <2>1. /\ \A b, w, a, v, k \in Nat : (b + 1) + w + (a - 1) + v + k = b + w + a + v + k
        /\ \A b, w, a, v, k \in Nat : b + w + (a - 1) + v + k = (b + w + a + v + k) - 1
        /\ \A b, w, a, v, k \in Nat : b + w + a + v + k \in Nat
      OBVIOUS
  <2>2. PICK r \in Int : r = Bound + AtWork + Came + Full + Empty
      BY <1>6, <2>1
  <2>3. PICK r2 \in Int : /\ r2 = Bound' + AtWork' + Came' + Full' + Empty'
                          /\ \/ r2 = r /\ unbound' = unbound
                             \/ r2 = r - 1 /\ unbound' = unbound + 1
    <3>1. CASE Bound' = Bound + 1 /\ unbound' = unbound
      <4>1. Bound' + AtWork' + Came' + Full' + Empty' = r
          BY <1>3, <1>6, <1>8, <2>1, <2>2, <3>1
      <4> QED
          BY <3>1, <4>1
    <3>2. CASE Bound' = Bound /\ unbound' = unbound + 1
      <4>1. Bound' + AtWork' + Came' + Full' + Empty' = r - 1
          BY <1>3, <1>6, <1>8, <2>1, <2>2, <3>2
      <4> QED
          BY <3>2, <4>1
    <3> QED
        BY <1>5, <3>1, <3>2
  <2> QED
      BY <2>2, <2>3
<1>11. Cardinality(Pending') + failed' + r2 + Len(EmptySocketQue') + unbound'
          >= Cardinality(Pending) + failed + r + Len(EmptySocketQue) + unbound
  <2>1. PICK p, f, q, u, u2 \in Int :
            /\ p = Cardinality(Pending) /\ f = failed /\ q = Len(EmptySocketQue)
            /\ u = unbound /\ u2 = unbound'
      BY <1>6, <1>10
  <2>2. (r2 = r /\ u2 = u) \/ (r2 = r - 1 /\ u2 = u + 1)
      BY <2>1, <1>10
  <2>3. p + f + r2 + q + u2 >= p + f + r + q + u
      BY <2>2
  <2>4. Cardinality(Pending') = p /\ failed' = f /\ Len(EmptySocketQue') = q
      BY <2>1, <1>8, <1>9
  <2> QED
      BY <2>1, <2>3, <2>4
<1> QED
    BY <1>1, <1>10, <1>11, <1>6, <1>7, <1>9, MovesCounts DEF Receiving

LEMMA ReceivedCounts ==
    ASSUME Accounts, NEW s \in Slots, Received(s)
    PROVE  AllCounted' /\ Enough'
<1>1. Types /\ AllCounted
    BY DEF Accounts
<1>2. /\ Takes("recv", s) /\ "recv" \in Completions
      /\ rebinding' = [rebinding EXCEPT ![s] = @ + 1]
      /\ UNCHANGED <<sock, recv, failed, EmptySocketQue, down, posted, refused, unbound>>
    BY DEF Received, Completions, slotVars, counts
<1>3. /\ Counted("recv", done'["recv"]) /\ Full' = Full - 1
      /\ \A d \in Completions : d # "recv" => done'[d] = done[d]
    BY <1>1, <1>2, TakesCounts DEF AllCounted, Full
<1>4. done'["accept"] = done["accept"] /\ done'["recvBroken"] = done["recvBroken"]
    BY <1>3 DEF Completions
<1>5. Counted("rebinding", rebinding') /\ AtWork' = AtWork + 1
  <2>1. rebinding \in [Slots -> Nat]
      BY <1>1 DEF Types
  <2>2. /\ rebinding' \in [Slots -> Nat] /\ rebinding'[s] = rebinding[s] + 1
        /\ \A r \in Slots : r # s => rebinding'[r] = rebinding[r]
      BY <1>2, <2>1
  <2>3. /\ Counted("rebinding", rebinding')
        /\ Cardinality(Each("rebinding", rebinding'))
               = Cardinality(Each("rebinding", rebinding)) + 1
      BY <1>1, <2>1, <2>2, EachMore DEF AllCounted
  <2> QED
      BY <2>3 DEF AtWork
<1>6. AllCounted'
    BY <1>1, <1>2, <1>3, <1>4, <1>5 DEF AllCounted, Counted
<1>7. Bound' = Bound /\ Came' = Came /\ Empty' = Empty /\ Pending' = Pending
    BY <1>2, <1>4 DEF Bound, Came, Empty, Pending, Are
<1>8. /\ Bound \in Nat /\ AtWork \in Nat /\ Came \in Nat /\ Full \in Nat /\ Empty \in Nat
      /\ failed \in Nat /\ unbound \in Nat /\ Cardinality(Pending) \in Nat
      /\ Len(EmptySocketQue) \in Nat
    BY <1>1, CountNumbers
<1>9. /\ failed' = failed /\ EmptySocketQue' = EmptySocketQue /\ unbound' = unbound
      /\ UNCHANGED <<down, posted, refused>>
    BY <1>2
<1>10. PICK r \in Int, r2 \in Int :
          /\ r = Bound + AtWork + Came + Full + Empty
          /\ r2 = Bound' + AtWork' + Came' + Full' + Empty'
          /\ r2 = r
    BY <1>3, <1>5, <1>7, <1>8
<1>11. Cardinality(Pending') + failed' + r2 + Len(EmptySocketQue') + unbound'
          >= Cardinality(Pending) + failed + r + Len(EmptySocketQue) + unbound
    BY <1>7, <1>8, <1>9, <1>10
<1> QED
    BY <1>1, <1>10, <1>11, <1>6, <1>8, <1>9, MovesCounts DEF Receiving

LEMMA RebindCounts ==
    ASSUME Accounts, NEW s \in Slots, Rebind(s)
    PROVE  AllCounted' /\ Enough'
<1>1. Types /\ AllCounted
    BY DEF Accounts
<1>2. /\ rebinding[s] > 0 /\ rebinding' = [rebinding EXCEPT ![s] = @ - 1] /\ BindRecv(s)
      /\ UNCHANGED <<sock, done, failed, EmptySocketQue, down, posted, refused>>
    BY DEF Rebind, slotVars, counts
<1>3. Counted("rebinding", rebinding') /\ AtWork' = AtWork - 1
  <2>1. rebinding \in [Slots -> Nat] /\ rebinding[s] - 1 \in Nat
      BY <1>1, <1>2 DEF Types
  <2>2. /\ rebinding' \in [Slots -> Nat] /\ rebinding'[s] = rebinding[s] - 1
        /\ \A r \in Slots : r # s => rebinding'[r] = rebinding[r]
      BY <1>2, <2>1
  <2>3. /\ Counted("rebinding", rebinding')
        /\ Cardinality(Each("rebinding", rebinding'))
               = Cardinality(Each("rebinding", rebinding)) - 1
    <3>1. Counted("rebinding", rebinding)
        BY <1>1 DEF AllCounted
    <3>2. rebinding[s] > 0
        BY <1>2
    <3> QED
        BY <2>1, <2>2, <3>1, <3>2, EachLess
  <2> QED
      BY <2>3 DEF AtWork
<1>4. /\ Counted("pending", recv)'
      /\ \/ Bound' = Bound + 1 /\ unbound' = unbound
         \/ Bound' = Bound /\ unbound' = unbound + 1
    BY <1>1, <1>2, BindRecvCounts DEF AllCounted
<1>5. /\ Bound \in Nat /\ AtWork \in Nat /\ Came \in Nat /\ Full \in Nat /\ Empty \in Nat
      /\ failed \in Nat /\ unbound \in Nat /\ Cardinality(Pending) \in Nat
      /\ Len(EmptySocketQue) \in Nat
    BY <1>1, CountNumbers
<1>6. AllCounted'
  <2>1. unbound' \in Nat
      BY <1>4, <1>5
  <2> QED
      BY <1>1, <1>2, <1>3, <1>4, <2>1 DEF AllCounted, Counted
<1>7. Came' = Came /\ Full' = Full /\ Empty' = Empty /\ Pending' = Pending
    BY <1>2 DEF Came, Full, Empty, Pending, Are
<1>8. failed' = failed /\ EmptySocketQue' = EmptySocketQue /\ UNCHANGED <<down, posted, refused>>
    BY <1>2
<1>9. PICK r \in Int, r2 \in Int :
          /\ r = Bound + AtWork + Came + Full + Empty
          /\ r2 = Bound' + AtWork' + Came' + Full' + Empty'
          /\ \/ r2 = r /\ unbound' = unbound
             \/ r2 = r - 1 /\ unbound' = unbound + 1
    BY <1>3, <1>4, <1>5, <1>7
<1>10. Cardinality(Pending') + failed' + r2 + Len(EmptySocketQue') + unbound'
          >= Cardinality(Pending) + failed + r + Len(EmptySocketQue) + unbound
  <2>1. PICK p, f, q, u, u2 \in Int :
            /\ p = Cardinality(Pending) /\ f = failed /\ q = Len(EmptySocketQue)
            /\ u = unbound /\ u2 = unbound'
      BY <1>5, <1>9
  <2>2. (r2 = r /\ u2 = u) \/ (r2 = r - 1 /\ u2 = u + 1)
      BY <2>1, <1>9
  <2>3. p + f + r2 + q + u2 >= p + f + r + q + u
      BY <2>2
  <2>4. Cardinality(Pending') = p /\ failed' = f /\ Len(EmptySocketQue') = q
      BY <2>1, <1>7, <1>8
  <2> QED
      BY <2>1, <2>3, <2>4
<1> QED
    BY <1>1, <1>9, <1>10, <1>5, <1>6, <1>8, MovesCounts DEF Receiving

(* What is closed twice is queued twice. *)
LEMMA BrokenCounts ==
    ASSUME Accounts, NEW s \in Slots, Broken(s)
    PROVE  AllCounted' /\ Enough'
<1>1. Types /\ AllCounted
    BY DEF Accounts
<1>2. /\ sock' = [k \in Sockets |-> IF k = SocketClient[s] THEN Closed(sock[k]) ELSE sock[k]]
      /\ EmptySocketQue' = Append(EmptySocketQue, s)
      /\ UNCHANGED <<recv, failed, rebinding, down, posted, refused, unbound>>
    BY DEF Broken, CloseSocket, counts
<1>3. Pending' = Pending
  <2>1. \A j \in Sockets : sock'[j] \in {"posted", "aborted"} <=> sock[j] \in {"posted", "aborted"}
      BY <1>2 DEF Closed
  <2> QED
      BY <2>1 DEF Pending, Are
<1>4. PICK c \in {"recvBroken", "sendBroken"} : Takes(c, s)
    BY DEF Broken
<1>5. Len(EmptySocketQue') = Len(EmptySocketQue) + 1
    BY <1>1, <1>2 DEF Types
<1>6. \A d \in Completions : d # c => done'[d] = done[d]
    BY <1>1, <1>4 DEF Takes, Types
<1>7. done'["accept"] = done["accept"] /\ done'["recv"] = done["recv"]
    BY <1>4, <1>6 DEF Completions
<1>8. Counted("recvBroken", done'["recvBroken"]) /\ (Empty' = Empty \/ Empty' = Empty - 1)
  <2>1. CASE c = "recvBroken"
    <3>1. "recvBroken" \in Completions
        BY DEF Completions
    <3> QED
        BY <1>1, <1>4, <2>1, <3>1, TakesCounts DEF AllCounted, Empty
  <2>2. CASE c = "sendBroken"
    <3>1. done'["recvBroken"] = done["recvBroken"]
        BY <1>6, <2>2 DEF Completions
    <3> QED
        BY <1>1, <3>1 DEF AllCounted, Empty
  <2> QED
      BY <1>4, <2>1, <2>2
<1>9. AllCounted'
    BY <1>1, <1>2, <1>7, <1>8 DEF AllCounted, Counted
<1>10. Bound' = Bound /\ AtWork' = AtWork /\ Came' = Came /\ Full' = Full
    BY <1>2, <1>7 DEF Bound, AtWork, Came, Full
<1>11. /\ Bound \in Nat /\ AtWork \in Nat /\ Came \in Nat /\ Full \in Nat /\ Empty \in Nat
       /\ failed \in Nat /\ unbound \in Nat /\ Cardinality(Pending) \in Nat
       /\ Len(EmptySocketQue) \in Nat
    BY <1>1, CountNumbers
<1>12. failed' = failed /\ unbound' = unbound /\ UNCHANGED <<down, posted, refused>>
    BY <1>2
<1>13. PICK r \in Int, r2 \in Int :
          /\ r = Bound + AtWork + Came + Full + Empty
          /\ r2 = Bound' + AtWork' + Came' + Full' + Empty'
          /\ r2 = r \/ r2 = r - 1
    BY <1>8, <1>10, <1>11
<1>14. Cardinality(Pending') + failed' + r2 + Len(EmptySocketQue') + unbound'
          >= Cardinality(Pending) + failed + r + Len(EmptySocketQue) + unbound
    BY <1>3, <1>5, <1>11, <1>12, <1>13
<1> QED
    BY <1>1, <1>13, <1>14, <1>5, <1>9, <1>11, <1>12, MovesCounts DEF Receiving

(* A step that touches nothing that is counted. *)
LEMMA OtherCounts ==
    ASSUME Accounts, \A j : j \in Pending' <=> j \in Pending,
           UNCHANGED <<recv, failed, rebinding, EmptySocketQue, counts, unbound>>,
           done'["accept"] = done["accept"], done'["recv"] = done["recv"],
           done'["recvBroken"] = done["recvBroken"]
    PROVE  AllCounted' /\ Enough'
<1>1. AllCounted'
    BY DEF Accounts, AllCounted, Counted
<1>2. Pending' = Pending
    OBVIOUS
<1>3. Bound' = Bound /\ AtWork' = AtWork /\ Came' = Came /\ Full' = Full /\ Empty' = Empty
    BY DEF Bound, AtWork, Came, Full, Empty
<1>4. Enough'
    BY <1>2, <1>3 DEF Accounts, Enough, counts
<1> QED
    BY <1>1, <1>4

LEMMA NextCounts == Inv /\ AllCounted /\ Enough /\ [Next]_vars => AllCounted' /\ Enough'
<1> SUFFICES ASSUME Inv, AllCounted, Enough, [Next]_vars PROVE AllCounted' /\ Enough'
    OBVIOUS
<1>1. Accounts /\ Types
    BY DEF Inv, Accounts
<1>2. CASE PostAll
  <2>1. posted \in Slots
      BY <1>1, <1>2, Numbers DEF PostAll, Types
  <2>2. /\ PostAccept(posted) /\ UNCHANGED <<recv, done, failed, rebinding, down, unbound>>
        /\ posted' = posted + 1 /\ EmptySocketQue' = EmptySocketQue
      BY <1>2 DEF PostAll, ioVars
  <2> QED
      BY <1>1, <2>1, <2>2, PostCounts
<1>3. CASE Repost
  <2>1. /\ PostAccept(0) /\ UNCHANGED <<recv, done, failed, rebinding, down, unbound>>
        /\ posted' = posted /\ EmptySocketQue # <<>> /\ EmptySocketQue' = Tail(EmptySocketQue)
      BY <1>3 DEF Repost, ioVars
  <2> QED
      BY <1>1, <2>1, Numbers, PostCounts
<1>4. CASE AcceptBroken
  <2>1. /\ recv' = [k \in Sockets |-> 0] /\ rebinding' = [s \in Slots |-> 0]
        /\ done' = [c \in Completions |-> [s \in Slots |-> 0]]
        /\ down' = TRUE /\ failed' = 0 /\ unbound' = unbound
      BY <1>4 DEF AcceptBroken
  <2>2. \A k \in Sockets : recv'[k] = 0
      BY <2>1
  <2>3. \A s \in Slots : rebinding'[s] = 0
      BY <2>1
  <2>4. /\ recv' \in [Sockets -> Nat] /\ rebinding' \in [Slots -> Nat]
      BY <2>1
  <2>5. \A c \in {"accept", "recv", "recvBroken"} :
            done'[c] \in [Slots -> Nat] /\ \A s \in Slots : done'[c][s] = 0
      BY <2>1 DEF Completions
  <2>6. Counted("pending", recv') /\ Counted("rebinding", rebinding')
      BY <2>2, <2>3, <2>4, EachNone
  <2>7. \A c \in {"accept", "recv", "recvBroken"} : Counted(c, done'[c])
      BY <2>5, EachNone
  <2>8. AllCounted'
      BY <2>1, <2>6, <2>7 DEF AllCounted, Counted
  <2> QED
      BY <2>1, <2>8 DEF Enough
<1>5. ASSUME NEW k \in Sockets, Windows(k) PROVE AllCounted' /\ Enough'
  <2>1. CASE Leave(k)
    <3>1. /\ sock[k] = "open" /\ sock' = [sock EXCEPT ![k] = "left"]
          /\ UNCHANGED <<recv, done, failed, rebinding, EmptySocketQue, counts, unbound>>
        BY <2>1 DEF Leave, ioVars, slotVars
    <3>2. \A j : j \in Pending' <=> j \in Pending
        BY <1>1, <3>1 DEF Pending, Are, Types
    <3> QED
        BY <1>1, <3>1, <3>2, OtherCounts
  <2>2. CASE SendEnds(k)
    <3>1. UNCHANGED <<sock, recv, failed, rebinding, EmptySocketQue, counts, unbound>>
        BY <2>2 DEF SendEnds, slotVars
    <3>2. PICK c \in {"send", "sendBroken"} : Completes(c, slotOf[k])
        BY <2>2 DEF SendEnds
    <3>3. /\ done'["accept"] = done["accept"] /\ done'["recv"] = done["recv"]
          /\ done'["recvBroken"] = done["recvBroken"]
        BY <1>1, <3>2 DEF Completes, Types, Completions
    <3>4. \A j : j \in Pending' <=> j \in Pending
        BY <3>1 DEF Pending, Are
    <3> QED
        BY <1>1, <3>1, <3>3, <3>4, OtherCounts
  <2> QED
      BY <1>1, <1>5, <2>1, <2>2, ConnectCounts, AcceptFailsCounts, RecvEndsCounts DEF Windows
<1>6. ASSUME NEW s \in Slots, SendData(s) PROVE AllCounted' /\ Enough'
  <2>1. UNCHANGED <<sock, recv, done, failed, rebinding, EmptySocketQue, counts, unbound>>
      BY <1>6 DEF SendData
  <2>2. \A j : j \in Pending' <=> j \in Pending
      BY <2>1 DEF Pending, Are
  <2> QED
      BY <1>1, <2>1, <2>2, OtherCounts
<1>7. ASSUME NEW s \in Slots, Worker(s) PROVE AllCounted' /\ Enough'
  <2>1. CASE OnSendComplete(s)
    <3>1. UNCHANGED <<sock, recv, failed, rebinding, EmptySocketQue, counts, unbound>>
        BY <2>1 DEF OnSendComplete
    <3>2. /\ done'["accept"] = done["accept"] /\ done'["recv"] = done["recv"]
          /\ done'["recvBroken"] = done["recvBroken"]
        BY <1>1, <2>1 DEF OnSendComplete, Takes, Types, Completions
    <3>3. \A j : j \in Pending' <=> j \in Pending
        BY <3>1 DEF Pending, Are
    <3> QED
        BY <1>1, <3>1, <3>2, <3>3, OtherCounts
  <2> QED
      BY <1>1, <1>7, <2>1, AcceptedCounts, ReceivedCounts, RebindCounts, BrokenCounts DEF Worker
<1>8. CASE UNCHANGED vars
  <2>1. UNCHANGED <<sock, recv, done, failed, rebinding, EmptySocketQue, counts, unbound>>
      BY <1>8 DEF vars, ioVars, slotVars
  <2>2. \A j : j \in Pending' <=> j \in Pending
      BY <2>1 DEF Pending, Are
  <2> QED
      BY <1>1, <2>1, <2>2, OtherCounts
<1> QED
    BY <1>2, <1>3, <1>4, <1>5, <1>6, <1>7, <1>8 DEF Next

(* No slot is lost for good before the server crashes: for every slot that  *)
(* was posted an accept is pending or failed, a receive is under way that   *)
(* will queue the slot, or an entry is queued, but for the accepts that were*)
(* not posted and the receives that BindRecv could not bind; though slots   *)
(* are closed twice, queued twice and come back as slot 0.                  *)
THEOREM NoSlotLost == Spec => []SlotsAccounted
<1>1. Init => AllCounted /\ Enough
  <2> SUFFICES ASSUME Init PROVE AllCounted /\ Enough
      OBVIOUS
  <2>1. Pending = {}
      BY DEF Init, Pending, Are
  <2>2. Cardinality(Pending) = 0
      BY <2>1, FS_EmptySet
  <2>3. Types
      BY InitInv DEF Inv
  <2>4. /\ \A k \in Sockets : recv[k] = 0
        /\ \A s \in Slots : rebinding[s] = 0
        /\ \A c \in {"accept", "recv", "recvBroken"} :
              done[c] \in [Slots -> Nat] /\ \A s \in Slots : done[c][s] = 0
      BY DEF Init, Completions
  <2>5. Counted("pending", recv) /\ Counted("rebinding", rebinding)
      BY <2>3, <2>4, EachNone DEF Types
  <2>6. \A c \in {"accept", "recv", "recvBroken"} : Counted(c, done[c])
      BY <2>4, EachNone
  <2>7. Len(EmptySocketQue) = 0 /\ posted = 0 /\ refused = 0 /\ failed = 0 /\ unbound = 0
      BY DEF Init
  <2>8. AllCounted
      BY <2>5, <2>6, <2>7 DEF AllCounted
  <2>9. /\ Bound \in Nat /\ AtWork \in Nat /\ Came \in Nat /\ Full \in Nat /\ Empty \in Nat
      BY <2>3, <2>8, CountNumbers
  <2> QED
      BY <2>2, <2>7, <2>8, <2>9 DEF Enough
<1>2. Inv /\ AllCounted /\ Enough /\ [Next]_vars => AllCounted' /\ Enough'
    BY NextCounts
<1>3. Inv /\ AllCounted /\ Enough => SlotsAccounted
    BY EnoughAccounts DEF Inv
<1> QED
    BY <1>1, <1>2, <1>3, ConnectionsInvariant, PTL DEF Spec
=============================================================================
