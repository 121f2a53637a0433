----------------------------- MODULE MCGameRooms -----------------------------
(* GameRooms for TLC: a room for one client and a room for two; the packet *)
(* threads are alike.                                                       *)
EXTENDS GameRooms, TLC

CONSTANTS r1, r2

MCRooms == {r1, r2}
MCMaxEnterSize == [r \in MCRooms |-> IF r = r1 THEN 1 ELSE 2]
MCSymmetry == Permutations(PacketThreads)
=============================================================================
