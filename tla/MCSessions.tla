----------------------------- MODULE MCSessions -----------------------------
(* Sessions for TLC: connections, mobs and names are interchangeable.      *)
EXTENDS Sessions, TLC

Alike == Permutations(Conns) \cup Permutations(Mobs)
=============================================================================
