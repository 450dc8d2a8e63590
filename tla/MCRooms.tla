------------------------------ MODULE MCRooms ------------------------------
(* Instances of Rooms for TLC.                                              *)
EXTENDS Rooms, TLC

Symmetric == Permutations(Users) \cup Permutations(Tabs)
=============================================================================
