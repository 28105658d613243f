------------------------------- MODULE Rooms -------------------------------
(***************************************************************************)
(* What the chat tracker promises: who is in which room, with no threads,  *)
(* no hash table and no packets.  A peer is in one room at most, a room    *)
(* holds MaxRoomSize peers at most, and MaxRooms rooms are in use at most. *)
(* Nothing happens any more once the service has failed.                   *)
(***************************************************************************)
EXTENDS Integers, FiniteSets

CONSTANTS Peer, MaxRooms, MaxRoomSize

VARIABLES member,   \* the room each peer is in, 0 for none
          failed

roomVars == <<member, failed>>

RoomNumbers == 1..(2 * MaxRooms)

Occupied == {r \in RoomNumbers : \E p \in Peer : member[p] = r}

Occupants(r) == {p \in Peer : member[p] = r}

RoomInit == member = [p \in Peer |-> 0] /\ failed = FALSE

\* A peer enters a room, from outside or from another room.
Enter(p, r) ==
    /\ ~failed
    /\ member[p] # r
    /\ member' = [member EXCEPT ![p] = r]
    /\ Cardinality(Occupants(r)) < MaxRoomSize
    /\ r \in Occupied \/ Cardinality(Occupied) < MaxRooms
    /\ UNCHANGED failed

Leave(p) ==
    /\ ~failed
    /\ member[p] # 0
    /\ member' = [member EXCEPT ![p] = 0]
    /\ UNCHANGED failed

Fail == ~failed /\ failed' = TRUE /\ UNCHANGED member

RoomNext ==
    \/ \E p \in Peer, r \in RoomNumbers : Enter(p, r)
    \/ \E p \in Peer : Leave(p)
    \/ Fail

RoomSpec == RoomInit /\ [][RoomNext]_roomVars
=============================================================================
