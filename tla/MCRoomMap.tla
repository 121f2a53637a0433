------------------------------ MODULE MCRoomMap ------------------------------
(* A map of three by two sections: users go to opposite corners and beyond  *)
(* the near edge.                                                           *)
EXTENDS RoomMap, TLC

CONSTANTS u1, u2, m1

MCPlaces      == {<<-1, 0>>, <<0, 0>>, <<2, 1>>}
MCSpawnPlaces == {<<0, 0>>, <<1, 0>>}
Alike         == Permutations({u1, u2})
=============================================================================
