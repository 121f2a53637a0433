-------------------------- MODULE MCSessionBuffer --------------------------
(* SessionBuffer for TLC: headers of two bytes, so that they too can wrap. *)
EXTENDS SessionBuffer

MCSizes == {2, 3}
=============================================================================
