---------------------------- MODULE MCRoomSteps ----------------------------
(* Users, rooms and workers are interchangeable.                            *)
EXTENDS RoomSteps, TLC

Symmetry == Permutations(Users) \cup Permutations(Rooms) \cup Permutations(Workers)
=============================================================================
