---------------------------- MODULE AuctionHouse ----------------------------
(***************************************************************************)
(* One stock exchange of the game (stock_market.cpp, auction.cpp): players *)
(* publish auctions, bid with an upper limit that is taken from them at    *)
(* once, buy out, end and delete auctions, and come back to collect the    *)
(* item, the refund or the payment.  Every handler is one action, as the   *)
(* game loop runs it without interruption.                                 *)
(*                                                                         *)
(* An auction's list of bets is kept in the order the code's linked list   *)
(* has.  What sort_auction_bets makes of that order is a parameter,        *)
(* because its loop over the list is modelled in AuctionSort and because   *)
(* what is proved here needs only that it permutes the list.               *)
(*                                                                         *)
(* Abstracted: the quantity a bettor declares, which nothing reads; the    *)
(* buy_out flag of a bet, which no live code sets; the bettors' own price, *)
(* of which only the first one's is used, as the bet of the auction; the   *)
(* carried weight of the winner; the terminal screens and the objects      *)
(* themselves (ExchangeTerminal).                                          *)
(***************************************************************************)
EXTENDS Integers, Sequences, FiniteSets

CONSTANTS
  Players,       \* names of the players
  Immortals,     \* those of them that are immortals
  NoOne,         \* the seller of an auction that does not exist
  Auctions,      \* auctions that may ever be published, one identity each
  Amounts,       \* the prices and limits players type
  Buyouts,       \* the buyout prices sellers set; 0 is none
  Lots,          \* the quantities sellers offer
  Purse,         \* the gold a player starts with
  SortBets(_),   \* the list sort_auction_bets leaves
  SortLoops(_)   \* does sort_auction_bets never return from this list

Bet == [name : Players, max : Amounts]

DistinctNames(bets) == \A i, j \in DOMAIN bets : bets[i].name = bets[j].name => i = j

\* A list of bets as the linked list of an auction may hold them.
BetList(bets) == bets \in Seq(Bet) /\ DistinctNames(bets)

Elements(bets) == {bets[i] : i \in DOMAIN bets}

\* The lists t and s hold the same bets of as many names.
IsReordering(t, s) ==
  BetList(t) /\ Len(t) = Len(s) /\ Elements(t) = Elements(s)

ASSUME HouseAssumption ==
  /\ IsFiniteSet(Players)
  /\ Immortals \subseteq Players
  /\ NoOne \notin Players
  /\ Amounts \subseteq Nat \ {0}
  /\ Buyouts \subseteq Amounts \cup {0}
  /\ Lots \subseteq Nat \ {0}
  /\ Purse \in Nat

\* Unless it loops, the sort only reorders the bets of all but the seller.
ASSUME SortAssumption ==
  \A n \in 0..(Cardinality(Players) - 1) : \A s \in [1..n -> Bet] :
    DistinctNames(s) =>
      SortLoops(s) \in BOOLEAN /\ (~SortLoops(s) => IsReordering(SortBets(s), s))

VARIABLES
  gold,       \* CHAR_DATA::gold, what the player has on hand
  market,     \* the auctions of the exchange, in memory
  stockFile,  \* the auctions as save_stock_market last wrote them
  hung        \* the game loop is stuck in sort_auction_bets

vars == <<gold, market, stockFile, hung>>

Entry == [stage     : {"unborn", "listed", "removed"},
          seller    : Players \cup {NoOne},
          start     : Nat,
          buyout    : Buyouts \cup {0},
          lot       : Nat,
          bets      : Seq(Bet),
          bet       : Nat,
          ended     : BOOLEAN,
          paid      : BOOLEAN,
          collected : BOOLEAN]

Unborn == [stage |-> "unborn", seller |-> NoOne, start |-> 0, buyout |-> 0, lot |-> 1,
           bets |-> <<>>, bet |-> 0, ended |-> FALSE, paid |-> FALSE,
           collected |-> FALSE]

Removed == [Unborn EXCEPT !.stage = "removed"]

TypeOK ==
  /\ gold \in [Players -> Nat]
  /\ market \in [Auctions -> Entry]
  /\ stockFile \in [Auctions -> Entry]
  /\ hung \in BOOLEAN

Init ==
  /\ gold = [p \in Players |-> Purse]
  /\ market = [a \in Auctions |-> Unborn]
  /\ stockFile = market
  /\ hung = FALSE

---------------------------------------------------------------------------
(* Helpers on one auction.                                                 *)

Listed(a) == market[a].stage = "listed"

Member(bets, p) == \E i \in DOMAIN bets : bets[i].name = p

Position(bets, p) == CHOOSE i \in DOMAIN bets : bets[i].name = p

\* What the exchange holds of p's gold in this list.
Deposit(bets, p) == IF Member(bets, p) THEN bets[Position(bets, p)].max ELSE 0

\* Mutant: a member's second bet is linked beside his first.
LinkBet(bets, p, limit) == Append(bets, [name |-> p, max |-> limit])

\* p's limit becomes `limit`: a member's bet is changed in place, a new one
\* is linked at the end.
PutBet(bets, p, limit) ==
  IF Member(bets, p)
  THEN [bets EXCEPT ![Position(bets, p)].max = limit]
  ELSE Append(bets, [name |-> p, max |-> limit])

\* The list without its i-th bet.
Unlink(bets, i) == [j \in 1..(Len(bets) - 1) |-> bets[IF j < i THEN j ELSE j + 1]]

\* The current price of a sorted list.
CurrentBet(bets, start) ==
  IF Len(bets) = 0 THEN start
  ELSE IF Len(bets) = 1 THEN (IF start # 0 THEN start ELSE start + 5)
  ELSE bets[2].max + 5

\* sort_auction_bets, when it returns: the list in order, the price anew.
Sorted(m) ==
  [m EXCEPT !.bets = SortBets(m.bets), !.bet = CurrentBet(SortBets(m.bets), m.start)]

\* Mutant: the change is sorted but not saved.
SortOnly(a, m) ==
  /\ market' = [market EXCEPT ![a] = Sorted(m)]
  /\ UNCHANGED <<stockFile, hung>>

\* Auction a becomes m, sorted, and the exchange is saved.  When the sort
\* loops, nothing after it happens any more.
SortAndSave(a, m) ==
  IF SortLoops(m.bets)
  THEN market' = [market EXCEPT ![a] = m] /\ hung' = TRUE /\ UNCHANGED stockFile
  ELSE market' = [market EXCEPT ![a] = Sorted(m)] /\ stockFile' = market' /\ UNCHANGED hung

\* The commission of the exchange: 20, 15, 10, 5 or 2 percent.  (In the code
\* a float product, which is exact to the credit below a million.)
TaxPercent(bet) ==
  IF bet < 1000 THEN 20 ELSE IF bet < 10000 THEN 15
  ELSE IF bet < 100000 THEN 10 ELSE IF bet < 1000000 THEN 5 ELSE 2

Tax(bet) == (bet * TaxPercent(bet)) \div 100

---------------------------------------------------------------------------
(* The handlers of the terminal.                                           *)

\* "send": the prepared offer becomes an auction.  The buyout was above the
\* starting price when it was typed, but that price may be raised afterwards.
Publish(p, a, start, buyout, lot) ==
  /\ market[a].stage = "unborn"
  /\ market' = [market EXCEPT ![a] = [Unborn EXCEPT !.stage = "listed", !.seller = p,
                   !.start = start, !.buyout = buyout, !.lot = lot, !.bet = start]]
  /\ stockFile' = market'
  /\ UNCHANGED <<gold, hung>>

\* Mutant: who has a bet may raise it after the end.
OpenToBettors(p, a) ==
  /\ Listed(a) /\ p # market[a].seller
  /\ market[a].ended => Member(market[a].bets, p)

BiddingOpen(p, a) == Listed(a) /\ ~market[a].ended /\ p # market[a].seller

\* Mutant: the purse is compared with the current price.
AffordsPrice(p, a, limit) == gold[p] >= market[a].bet

\* The whole limit must be on hand, even when only a raise is charged.
Affords(p, a, limit) == gold[p] >= limit

\* Mutant: a bettor is charged his whole limit when he raises it.
ChargeAll(p, a, limit) == gold' = [gold EXCEPT ![p] = @ - limit]

Charge(p, a, limit) == gold' = [gold EXCEPT ![p] = @ - (limit - Deposit(market[a].bets, p))]

HighEnough(m, limit) ==
  IF m.bets = <<>> THEN limit >= m.start ELSE limit >= m.bets[1].max + 5

\* "licytuj <limit>"
PlaceBet(p, a, limit) ==
  LET m == market[a] IN
  /\ BiddingOpen(p, a)
  /\ HighEnough(m, limit)
  /\ Affords(p, a, limit)
  /\ limit >= Deposit(m.bets, p)
  /\ Charge(p, a, limit)
  /\ SortAndSave(a, [m EXCEPT !.bets = PutBet(@, p, limit)])

BuyoutStands(m) ==
  m.bet <= m.buyout /\ (m.bets # <<>> => m.bets[1].max <= m.buyout)

\* "buyout"
BuyOut(p, a) ==
  LET m == market[a] IN
  /\ BiddingOpen(p, a)
  /\ m.buyout # 0
  /\ BuyoutStands(m)
  /\ Affords(p, a, m.buyout)
  /\ Charge(p, a, m.buyout)
  /\ SortAndSave(a, [m EXCEPT !.bets = PutBet(@, p, m.buyout), !.ended = TRUE])

\* "ilosc <n>": of the quantity nothing reads, but the bets are sorted again
DeclareQuantity(p, a) ==
  LET m == market[a] IN
  /\ Listed(a) /\ ~m.ended /\ Member(m.bets, p) /\ m.lot # 1
  /\ SortAndSave(a, m)
  /\ UNCHANGED gold

\* "zakoncz": an immortal any time, the seller only without bets; not saved
Finish(p, a) ==
  /\ Listed(a)
  /\ p \in Immortals \/ (p = market[a].seller /\ market[a].bets = <<>>)
  /\ market' = [market EXCEPT ![a].ended = TRUE]
  /\ UNCHANGED <<gold, stockFile, hung>>

\* "usun" in the list: the deposits of the bettors are freed with the auction
Delete(p, a) ==
  /\ Listed(a)
  /\ p \in Immortals \/ (p = market[a].seller /\ market[a].bets = <<>>)
  /\ market' = [market EXCEPT ![a] = Removed]
  /\ stockFile' = market'
  /\ UNCHANGED <<gold, hung>>

\* Mutant: the unsold item goes back to the seller, still marked as there.
GatheredHalf(p, m) ==
  IF p = m.seller THEN [m EXCEPT !.paid = TRUE]
  ELSE IF m.bets[1].name = p /\ ~m.collected
       THEN [m EXCEPT !.collected = TRUE, !.bets = Unlink(m.bets, 1)]
       ELSE [m EXCEPT !.bets = Unlink(m.bets, Position(m.bets, p))]

\* What auction_item_gather makes of the auction m when p collects.
Gathered(p, m) ==
  IF p = m.seller
  THEN IF m.collected \/ m.bets # <<>>
       THEN [m EXCEPT !.paid = TRUE]
       ELSE [m EXCEPT !.paid = TRUE, !.collected = TRUE]
  ELSE IF m.bets[1].name = p /\ ~m.collected
       THEN [m EXCEPT !.collected = TRUE, !.bets = Unlink(m.bets, 1)]
       ELSE [m EXCEPT !.bets = Unlink(m.bets, Position(m.bets, p))]

\* What auction_item_gather puts into p's hand.
Proceeds(p, m) ==
  IF p = m.seller
  THEN IF m.collected \/ m.bets # <<>> THEN m.bet - Tax(m.bet) ELSE 0
  ELSE IF m.bets[1].name = p /\ ~m.collected THEN 0 ELSE Deposit(m.bets, p)

Settled(m) == m.paid /\ m.collected /\ m.bets = <<>>

\* "odbierz": gather, remove the auction when nothing is left in it, save
Collect(p, a) ==
  LET m == market[a]
      left == Gathered(p, m)
  IN /\ Listed(a) /\ m.ended
     /\ (p = m.seller /\ ~m.paid) \/ (p # m.seller /\ Member(m.bets, p))
     /\ gold' = [gold EXCEPT ![p] = @ + Proceeds(p, m)]
     /\ market' = [market EXCEPT ![a] = IF Settled(left) THEN Removed ELSE left]
     /\ stockFile' = market'
     /\ UNCHANGED hung

---------------------------------------------------------------------------
(* The clock and the server.                                               *)

\* The end_time in memory and the one in the file are reached.
Expire(a) ==
  /\ stockFile[a].stage = "listed" /\ ~stockFile[a].ended
  /\ market' = [market EXCEPT ![a].ended = TRUE]
  /\ stockFile' = [stockFile EXCEPT ![a].ended = TRUE]
  /\ UNCHANGED <<gold, hung>>

\* load_stock_markets: every auction of the file, its bets sorted.
Reloaded(m) == IF m.stage = "listed" THEN Sorted(m) ELSE m

\* An orderly reboot, which saves every character first.  A file whose list
\* makes the sort loop hangs the server while it boots.
Reboot ==
  LET loops == \E a \in Auctions : SortLoops(stockFile[a].bets) IN
  /\ hung' = loops
  /\ market' = IF loops THEN market ELSE [a \in Auctions |-> Reloaded(stockFile[a])]
  /\ UNCHANGED <<gold, stockFile>>

---------------------------------------------------------------------------
PlayerStep(p, a) ==
  \/ \E start \in Amounts, buyout \in Buyouts, lot \in Lots : Publish(p, a, start, buyout, lot)
  \/ \E limit \in Amounts : PlaceBet(p, a, limit)
  \/ BuyOut(p, a)
  \/ DeclareQuantity(p, a)
  \/ Finish(p, a)
  \/ Delete(p, a)
  \/ Collect(p, a)

Next ==
  /\ ~hung
  /\ \/ \E p \in Players, a \in Auctions : PlayerStep(p, a)
     \/ \E a \in Auctions : Expire(a)
     \/ Reboot

Spec == Init /\ [][Next]_vars

---------------------------------------------------------------------------
(* Properties.                                                             *)

\* A name is at most once in a list of bets and the seller never is, in memory and
\* in the file: is_auction_member and auction_creator, which look only for a
\* name, then always mean one bet and one role.
BettorsDistinct ==
  \A a \in Auctions : \A m \in {market[a], stockFile[a]} :
    DistinctNames(m.bets) /\ ~Member(m.bets, m.seller)

\* Safety: between two commands the file says what memory says, except that
\* an early end is not in it, nor is the current price and the order in which
\* a reload sorts the bets.
StockFileCurrent ==
  ~hung => \A a \in Auctions :
    LET m == market[a] f == stockFile[a] IN
    /\ f = [m EXCEPT !.ended = f.ended, !.bet = f.bet, !.bets = f.bets]
    /\ IsReordering(m.bets, f.bets)
    /\ f.ended => m.ended

\* Safety: an auction in the list can always still be settled.  Somebody is
\* entitled to collect from it, and the unsold or undelivered item and the
\* payment have the people they are meant for.
Settleable ==
  \A a \in Auctions : Listed(a) =>
    /\ ~market[a].paid \/ market[a].bets # <<>>
    /\ market[a].paid \/ market[a].collected => market[a].ended

\* The seller's reserve holds: whatever the order of the bets is and however
\* often they are priced anew, no current price, and so no payment made from
\* it, is below the starting price.
ReserveMet ==
  \A a \in Auctions : Listed(a) => market[a].bet >= market[a].start

\* Safety: the bets are ones the code may price and look up by name, through
\* every order of bids, buyouts, collections and reloads (do_bet,
\* sort_auction_members, set_auction_price).
FairBets == BettorsDistinct /\ ReserveMet

\* Action property: once an auction has ended, its winner stands until he has
\* the item: no command of another player takes the first place from him.
\* (A reboot sorts the list again and may.)
WinnerStands ==
  [][\A a \in Auctions :
       LET m == market[a] IN
       Listed(a) /\ m.ended /\ ~m.collected /\ m.bets # <<>> =>
         \/ Reboot
         \/ market'[a].stage = "removed"
         \/ market'[a].collected
         \/ market'[a].bets # <<>> /\ market'[a].bets[1] = m.bets[1]]_vars

---------------------------------------------------------------------------
(* The exchange keeps the escrow's promises.                               *)

\* The deal an auction is.
DealOf(m) ==
  [stage |-> CASE m.stage = "unborn" -> "unmade"
               [] m.stage = "removed" -> "gone"
               [] m.stage = "listed" -> IF m.ended THEN "closed" ELSE "open",
   held  |-> [p \in Players |-> Deposit(m.bets, p)],
   sold  |-> m.collected,
   paid  |-> m.paid]

Ledger == INSTANCE Escrow WITH
  People <- Players, Deals <- Auctions, Sums <- Amounts,
  purse <- gold, deals <- [a \in Auctions |-> DealOf(market[a])]

\* Refinement: every command, the clock and the reboot move gold between the
\* players' hands and the auctions only as the escrow promises.
DepositsKept == Ledger!Spec
=============================================================================
