----------------------------- MODULE MCScripts -----------------------------
EXTENDS Scripts, TLC
MCSymmetry == Permutations(Scripts) \cup Permutations(Mobs)
=============================================================================
