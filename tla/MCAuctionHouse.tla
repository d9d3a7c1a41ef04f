--------------------------- MODULE MCAuctionHouse ---------------------------
(* AuctionHouse with the code's sort, for TLC. *)
EXTENDS AuctionHouse, AuctionSort

\* Mortal players are alike, and so are auctions.
Alike == Permutations(Players \ Immortals) \cup Permutations(Auctions)
=============================================================================
