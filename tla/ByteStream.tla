----------------------------- MODULE ByteStream -----------------------------
(***************************************************************************)
(* What the send side of a slot promises to the rest of the server, without*)
(* buffers, locks or operations: on a connection that was opened, what is  *)
(* sent is transmitted in that order, every byte once, until it breaks.    *)
(* Then nothing is promised until the next one opens.                      *)
(*                                                                         *)
(* SendBuffer, the model of ClientInfos.h, is shown to implement it.       *)
(***************************************************************************)
EXTENDS Naturals, Sequences

CONSTANT Bytes

VARIABLES open,     \* a connection is open
          pending,  \* what was sent on it and is not transmitted yet
          wire      \* what was transmitted on it

vars == <<open, pending, wire>>

Closed == pending = <<>> /\ wire = <<>>

Init == open = FALSE /\ Closed

Open == ~open /\ open' = TRUE /\ Closed'

Break == open /\ open' = FALSE /\ Closed'

(* Bytes are sent: they come after all that wait. *)
Send == /\ open /\ pending' \in Seq(Bytes) /\ Len(pending') > Len(pending)
        /\ SubSeq(pending', 1, Len(pending)) = pending
        /\ UNCHANGED <<open, wire>>

(* The first so many of those that wait are transmitted. *)
Transmit == /\ open
            /\ \E n \in 1 .. Len(pending) :
                   /\ wire' = wire \o SubSeq(pending, 1, n)
                   /\ pending' = SubSeq(pending, n + 1, Len(pending))
            /\ UNCHANGED open

Next == Open \/ Break \/ Send \/ Transmit

Spec == Init /\ [][Next]_vars
=============================================================================
