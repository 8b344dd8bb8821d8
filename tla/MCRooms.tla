------------------------------ MODULE MCRooms ------------------------------
(* Instances of Rooms for TLC: three sessions and two room IDs, so that two *)
(* rooms can share a member, and a session can be told of one while it is   *)
(* mapped to the other.                                                     *)
EXTENDS Rooms, Naturals, TLC

CONSTANT MaxBuilt   \* how many room objects the matcher's clients build

MCNoOther == {}
Symmetry == Permutations(Session) \cup Permutations(RoomId) \cup Permutations(Caller \ {Main})
FewRooms == Cardinality(built) <= MaxBuilt
=============================================================================
