------------------------------ MODULE MCRooms ------------------------------
EXTENDS Rooms, TLC

(* Workers differ in nothing but their names. *)
Symmetric == Permutations(Workers)
=============================================================================
