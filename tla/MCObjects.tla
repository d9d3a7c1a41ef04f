----------------------------- MODULE MCObjects -----------------------------
(* A bag, lamps that stack and a sheet things lie under, in two rooms.     *)
EXTENDS Objects, TLC

CONSTANTS bag, lamp, sheet, corpse, scraps, yard, tower, ann, bob

MCWeight == (bag :> 1) @@ (lamp :> 1) @@ (sheet :> 1) @@ (corpse :> 5) @@ (scraps :> 1)
MCSize == (bag :> 3) @@ (sheet :> 2)
MCBelow == (yard :> Null) @@ (tower :> yard)
MCSymmetry == Permutations({ann, bob})
=============================================================================
