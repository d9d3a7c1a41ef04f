----------------------------- MODULE MCTerminal -----------------------------
(* A seller, and a bettor who may be an immortal, at one terminal.         *)
EXTENDS ExchangeTerminal, TLC

\* Nothing tells things and auctions apart that have not been made, or names.
MCSymmetry == Permutations(Things) \cup Permutations(Auctions) \cup Permutations(Names)
=============================================================================
