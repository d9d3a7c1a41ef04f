-------------------------- MODULE AuctionPromises --------------------------
(***************************************************************************)
(* What comments and messages of the auction code promise, stated of the   *)
(* exchange with the code's own sort.  The code breaks each of them.       *)
(***************************************************************************)
EXTENDS AuctionHouse, AuctionSort

\* "Posortuj stawki licytantów": sorting the bets comes to an end.
SortReturns == ~hung

\* "możesz ją zakończyć. I tak też robisz.": an auction somebody has ended
\* does not open again.
FinishFinal ==
  [][\A a \in Auctions :
       Listed(a) /\ market[a].ended /\ market'[a].stage = "listed" => market'[a].ended]_vars

\* "oblicz ile tak naprawdę będą musieli zapłacić": with the item the winner
\* gets back what his limit is above the price.
WinnerPaysBet ==
  [][\A p \in Players, a \in Auctions :
       LET m == market[a] IN
       Collect(p, a) /\ p # m.seller /\ ~m.collected /\ m.bets[1].name = p =>
         gold'[p] = gold[p] + m.bets[1].max - m.bet]_vars
=============================================================================
