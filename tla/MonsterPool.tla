----------------------------- MODULE MonsterPool -----------------------------
(***************************************************************************)
(* What a monster spawner promises, without a stack, a queue of respawns,  *)
(* jobs or an index: a monster is dead, about to enter the room, or alive, *)
(* in that circle, and every update sends in as many of the dead as died   *)
(* RespawnTime updates before, whichever they are.                         *)
(*                                                                         *)
(* MonsterSpawner, the model of MonsterSpawner.cpp, is shown to implement  *)
(* it.                                                                     *)
(***************************************************************************)
EXTENDS Naturals, FiniteSets

CONSTANTS Monsters, RespawnTime

VARIABLES dead, entering, alive,  \* sets of monsters
          died  \* how many died after the k-th last update, before the next

vars == <<dead, entering, alive, died>>

(* All are dead, and have been for so long that the first update is theirs. *)
Init == /\ dead = Monsters /\ entering = {} /\ alive = {}
        /\ died = [k \in 1 .. RespawnTime |->
                      IF k = RespawnTime THEN Cardinality(Monsters) ELSE 0]

Update == \E S \in SUBSET dead :
    /\ Cardinality(S) = died[RespawnTime]
    /\ dead' = dead \ S
    /\ entering' = entering \cup S
    /\ died' = [k \in 1 .. RespawnTime |-> IF k = 1 THEN 0 ELSE died[k - 1]]
    /\ UNCHANGED alive

Enter == \E m \in entering :
    /\ entering' = entering \ {m}
    /\ alive' = alive \cup {m}
    /\ UNCHANGED <<dead, died>>

Die == \E m \in alive :
    /\ alive' = alive \ {m}
    /\ dead' = dead \cup {m}
    /\ died' = [died EXCEPT ![1] = @ + 1]
    /\ UNCHANGED entering

Next == Update \/ Enter \/ Die

Spec == Init /\ [][Next]_vars
=============================================================================
