---------------------------- MODULE AuctionSort ----------------------------
(***************************************************************************)
(* sort_auction_bets (auction.cpp) as a function on lists of bets.         *)
(*                                                                         *)
(* The code walks the linked list once.  A bet that is lower than its      *)
(* successor is unlinked and put back further down, and the walk goes on   *)
(* from its new place.  The place is searched after the successor: behind  *)
(* the first bet that is lower, or at the end when there is none.  In the  *)
(* first case the INSERT macro is given pIterBets->next as the node to     *)
(* insert before, and evaluates it again after it has already changed      *)
(* it, which links the bet to itself: the walk then never ends.            *)
(***************************************************************************)
EXTENDS Naturals, Sequences, SequencesExt

\* The bets of `rest` from place `at` on that are lower than `bet`.
LowerBets(rest, at, bet) == {j \in at..Len(rest) : rest[j].max < bet.max}

\* A walk is where it is in which list, and whether a self-link has caught it.
\* Unlink the bet at w.at and put it back further down.
MoveDown(w) ==
  LET bet == w.list[w.at]
      rest == RemoveAt(w.list, w.at)
      lower == LowerBets(rest, w.at, bet)
      place == IF lower = {} THEN Len(rest) ELSE CHOOSE j \in lower : \A k \in lower : j <= k
  IN IF place = Len(rest)
     THEN [w EXCEPT !.list = Append(rest, bet), !.at = Len(w.list) + 1]
     ELSE [w EXCEPT !.looped = TRUE]

\* One turn of the walk.
WalkStep(w) ==
  IF w.looped \/ w.at >= Len(w.list) THEN w
  ELSE IF w.list[w.at].max < w.list[w.at + 1].max THEN MoveDown(w)
  ELSE [w EXCEPT !.at = @ + 1]

\* Every turn moves on by one place at least, so Len(bets) turns end the walk.
WalkThrough(bets) ==
  FoldLeft(LAMBDA w, turn : WalkStep(w), [list |-> bets, at |-> 1, looped |-> FALSE],
           [i \in 1..Len(bets) |-> i])

PassSort(bets) == WalkThrough(bets).list

PassLoops(bets) == WalkThrough(bets).looped
=============================================================================
