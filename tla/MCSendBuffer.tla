---------------------------- MODULE MCSendBuffer ----------------------------
(* SendBuffer for TLC: sizes that fill the buffer exactly and leave gaps. *)
EXTENDS SendBuffer

MCSizes == {1, 2, 3}
=============================================================================
