----------------------------- MODULE MCGameLoop -----------------------------
EXTENDS GameLoop, TLC
CONSTANTS d1, d2, d3
MCAbove == Descs \X Descs
MCFds == 1 .. 4
MCSymmetry == Permutations(Descs)
=============================================================================
