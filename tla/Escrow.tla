------------------------------- MODULE Escrow -------------------------------
(***************************************************************************)
(* What the players of the game are promised about their gold while it is  *)
(* tied up in deals that a third party holds: an abstract specification,   *)
(* with no prices, lists, files or items.                                  *)
(*                                                                         *)
(*   - gold enters a deal only from the hand of the one whose deposit      *)
(*     grows, credit by credit, and only while the deal is open;           *)
(*   - a deposit leaves a closed deal back to its owner in full, except    *)
(*     that one deposit per deal may be kept, for the thing sold;          *)
(*   - the seller is paid at most once per deal, and never has to pay;     *)
(*   - a deal disappears only when nobody's deposit is left in it, unless  *)
(*     an arbiter cancels it, which forfeits the deposits.                 *)
(***************************************************************************)
EXTENDS Integers

CONSTANTS
  People,  \* whose gold it is
  Deals,   \* the deals that may ever be made
  Sums     \* the deposits one can make

VARIABLES
  purse,   \* the gold each person has on hand
  deals    \* per deal: its stage, the deposits, is the thing sold, is it paid

vars == <<purse, deals>>

Nothing == [p \in People |-> 0]

Deal(stage, held, sold, paid) == [stage |-> stage, held |-> held, sold |-> sold, paid |-> paid]

Unmade == Deal("unmade", Nothing, FALSE, FALSE)

Gone == Deal("gone", Nothing, FALSE, FALSE)

Init ==
  /\ purse \in [People -> Nat]
  /\ deals = [d \in Deals |-> Unmade]

Make(d) ==
  /\ deals[d] = Unmade
  /\ deals' = [deals EXCEPT ![d] = Deal("open", Nothing, FALSE, FALSE)]
  /\ UNCHANGED purse

\* p's deposit becomes `amount`; the difference comes from p's purse.
Stake(p, d, amount, stage) ==
  /\ deals[d].stage = "open"
  /\ purse[p] + deals[d].held[p] >= amount
  /\ purse' = [purse EXCEPT ![p] = @ + deals[d].held[p] - amount]
  /\ deals' = [deals EXCEPT ![d] = Deal(stage, [@.held EXCEPT ![p] = amount], @.sold, @.paid)]

Close(d) ==
  /\ deals[d].stage = "open"
  /\ deals' = [deals EXCEPT ![d].stage = "closed"]
  /\ UNCHANGED purse

\* Closed deals may open again; the deposits stay.
Reopen(reopened) ==
  /\ \A d \in reopened : deals[d].stage = "closed"
  /\ deals' = [d \in Deals |-> IF d \in reopened THEN [deals[d] EXCEPT !.stage = "open"] ELSE deals[d]]
  /\ UNCHANGED purse

\* A step on a closed deal leaves it as `left`, or gone once it is empty.
Leave(d, left) ==
  \/ deals' = [deals EXCEPT ![d] = left]
  \/ /\ left.held = Nothing
     /\ deals' = [deals EXCEPT ![d] = Gone]

Refund(p, d) ==
  /\ deals[d].stage = "closed" /\ deals[d].held[p] > 0
  /\ purse' = [purse EXCEPT ![p] = @ + deals[d].held[p]]
  /\ Leave(d, [deals[d] EXCEPT !.held[p] = 0])

\* p gets the thing sold, and the deposit is kept.
HandOver(p, d) ==
  /\ deals[d].stage = "closed" /\ ~deals[d].sold /\ deals[d].held[p] > 0
  /\ UNCHANGED purse
  /\ Leave(d, Deal("closed", [deals[d].held EXCEPT ![p] = 0], TRUE, deals[d].paid))

\* The seller is paid for it; what, is not said here.
Pay(p, d) ==
  /\ deals[d].stage = "closed" /\ ~deals[d].paid
  /\ purse'[p] >= purse[p]
  /\ purse' = [purse EXCEPT ![p] = purse'[p]]
  /\ Leave(d, Deal("closed", deals[d].held, deals[d].sold, TRUE))

\* Nobody wanted the thing: the deal is over without a payment.
Withdraw(d) ==
  /\ deals[d].stage = "closed" /\ ~deals[d].sold /\ ~deals[d].paid
  /\ deals[d].held = Nothing
  /\ UNCHANGED purse
  /\ deals' = [deals EXCEPT ![d] = Gone]

\* The arbiter, at any stage.
Cancel(d) ==
  /\ deals[d].stage \in {"open", "closed"}
  /\ deals' = [deals EXCEPT ![d] = Gone]
  /\ UNCHANGED purse

Next ==
  \/ \E d \in Deals : Make(d) \/ Close(d) \/ Withdraw(d) \/ Cancel(d)
  \/ \E d \in Deals, p \in People : Refund(p, d) \/ HandOver(p, d) \/ Pay(p, d)
  \/ \E d \in Deals, p \in People, amount \in Sums, stage \in {"open", "closed"} :
       Stake(p, d, amount, stage)
  \/ \E reopened \in SUBSET Deals : Reopen(reopened)

Spec == Init /\ [][Next]_vars
=============================================================================
