---------------------------- MODULE PacketStream ----------------------------
(***************************************************************************)
(* What the receive side of a session promises, without a ring, indices or *)
(* a queue: bytes arrive in a stream, and whoever takes gets the packet the*)
(* stream begins with, whole, or nothing when not even its header is there.*)
(* All that is over when the stream is torn.                               *)
(*                                                                         *)
(* SessionBuffer, the model of ClientSession.h, is shown to implement it.  *)
(***************************************************************************)
EXTENDS Naturals, Sequences

CONSTANTS Byte,     \* records with the fields packet, off and size
          HeadSize  \* the bytes of a header

VARIABLES stream,  \* what arrived and was not taken yet
          popped,  \* what was taken, in order
          torn

vars == <<stream, popped, torn>>

Nothing == stream = <<>> /\ popped = <<>>

(* The bytes of one packet, from the first to the last. *)
Whole(s) ==
    /\ s # <<>>
    /\ s = [k \in 1 .. s[1].size |->
               [packet |-> s[1].packet, off |-> k - 1, size |-> s[1].size]]

Init == Nothing /\ torn = FALSE

Arrive == /\ ~torn /\ stream' \in Seq(Byte) /\ Len(stream') > Len(stream)
          /\ SubSeq(stream', 1, Len(stream)) = stream
          /\ UNCHANGED <<popped, torn>>

Take == /\ ~torn
        /\ \E n \in 1 .. Len(stream) :
               /\ Whole(SubSeq(stream, 1, n))
               /\ popped' = Append(popped, SubSeq(stream, 1, n))
               /\ stream' = SubSeq(stream, n + 1, Len(stream))
        /\ UNCHANGED torn

TakeNothing == /\ ~torn /\ Len(stream) < HeadSize
               /\ popped' = Append(popped, <<>>)
               /\ UNCHANGED <<stream, torn>>

Tear == ~torn /\ torn' = TRUE /\ Nothing'

Next == Arrive \/ Take \/ TakeNothing \/ Tear

Spec == Init /\ [][Next]_vars
=============================================================================
