------------------------------ MODULE MCFights ------------------------------
(* An instance of Fights for TLC: one player can rescue the other. *)
EXTENDS Fights, TLC

Alike == Permutations(Rooms) \cup Permutations(Mobs)
=============================================================================
