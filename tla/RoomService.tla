---------------------------- MODULE RoomService -----------------------------
(***************************************************************************)
(* What the rooms promise their clients, without jobs, handlers, results or*)
(* sessions: a request moves its client into a room or out of its room, at *)
(* once and at most once, or is turned down; and the answer, later, is the *)
(* room the client is then in.  No client is in two rooms.                 *)
(*                                                                         *)
(* GameRooms, the model of the handlers of ClientSession.h and of ChatRoom,*)
(* is shown to implement it.                                               *)
(***************************************************************************)
CONSTANTS Clients, Rooms, None

VARIABLES users,    \* [Rooms -> SUBSET Clients]
          waiting,  \* the clients whose request is not answered
          told      \* the room each client was told it is in, or None

vars == <<users, waiting, told>>

(* c is in room x and in no other, or in none. *)
In(c, x) == \A r \in Rooms : c \in users[r] <=> r = x

Init == /\ users = [r \in Rooms |-> {}]
        /\ waiting = {}
        /\ told = [c \in Clients |-> None]

Ask(c) == /\ c \notin waiting
          /\ waiting' = waiting \cup {c}
          /\ UNCHANGED <<users, told>>

(* A client that was told it is in no room is let into one.  It may have    *)
(* asked just now.                                                          *)
Enter(c, r) == /\ told[c] = None /\ In(c, None)
               /\ users' = [users EXCEPT ![r] = @ \cup {c}]
               /\ waiting' = waiting \cup {c}
               /\ UNCHANGED told

Leave(c) == /\ c \in waiting /\ told[c] # None /\ In(c, told[c])
            /\ users' = [users EXCEPT ![told[c]] = @ \ {c}]
            /\ UNCHANGED <<waiting, told>>

(* The answer, or the end of a request nothing came of. *)
Answer(c) == /\ c \in waiting
             /\ waiting' = waiting \ {c}
             /\ \E x \in Rooms \cup {None} :
                    In(c, x) /\ told' = [told EXCEPT ![c] = x]
             /\ UNCHANGED users

Next == \E c \in Clients : \/ Ask(c) \/ Leave(c) \/ Answer(c)
                           \/ \E r \in Rooms : Enter(c, r)

Spec == Init /\ [][Next]_vars
=============================================================================
