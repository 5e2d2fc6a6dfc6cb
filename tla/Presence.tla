------------------------------ MODULE Presence ------------------------------
(***************************************************************************)
(* What the server promises about where a user is: at any time every       *)
(* session is at one place (nowhere, logged in, in a lobby, or in a room   *)
(* of a lobby), it moves only along the edges of the protocol, and neither *)
(* a lobby, counted with its rooms, nor a room ever holds more users than  *)
(* it may.                                                                 *)
(***************************************************************************)
EXTENDS Integers, FiniteSets

CONSTANTS PoolSize, MaxLobbyCount, MaxLobbyUserCount, MaxRoomCountByLobby,
          MaxRoomUserCount

VARIABLE place

Session == 0 .. PoolSize - 1
Nowhere == <<"nowhere">>
Login   == <<"login">>
InLobby(l)   == <<"lobby", l>>
InRoom(l, r) == <<"room", l, r>>

LobbyIndex == 0 .. MaxLobbyCount - 1
RoomIndex  == 0 .. MaxRoomCountByLobby - 1

At(p) == {s \in Session : place[s] = p}
Population(l) ==
    Cardinality(At(InLobby(l)) \cup UNION {At(InRoom(l, r)) : r \in RoomIndex})

Move(s, from, to) == place[s] = from /\ place' = [place EXCEPT ![s] = to]

Init == place = [s \in Session |-> Nowhere]

Step(s) ==
    \/ Move(s, Nowhere, Login)
    \/ \E l \in LobbyIndex :
        \/ Population(l) < MaxLobbyUserCount /\ Move(s, Login, InLobby(l))
        \/ Move(s, InLobby(l), Login)
        \/ \E r \in RoomIndex :
            \/ /\ Cardinality(At(InRoom(l, r))) < MaxRoomUserCount
               /\ Move(s, InLobby(l), InRoom(l, r))
            \/ Move(s, InRoom(l, r), InLobby(l))
    \/ place[s] # Nowhere /\ place' = [place EXCEPT ![s] = Nowhere]

Next == \E s \in Session : Step(s)
Spec == Init /\ [][Next]_place
=============================================================================
