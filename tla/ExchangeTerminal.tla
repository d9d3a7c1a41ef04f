-------------------------- MODULE ExchangeTerminal --------------------------
(***************************************************************************)
(* The terminal of a stock exchange (stock_market.cpp): the screens a      *)
(* player walks through, the auction his connection points at while he     *)
(* does (olc_editing), and the goods themselves, from the inventory of the *)
(* seller to that of the winner.                                           *)
(*                                                                         *)
(* Prices and bets are AuctionHouse's: here an auction has at most one     *)
(* bettor, whose bet wins, and a command that would not be accepted is no  *)
(* step.  There is one exchange and the goods are the only ones that can   *)
(* be published: ships and houses never get through "send".  Equal goods   *)
(* do not grow into stacks again (Objects), and a good answers to one name.*)
(***************************************************************************)
EXTENDS Naturals, Sequences, FiniteSets

CONSTANTS
    Players,
    Immortals,   \* those of them that are immortals
    Auctions,    \* AUCTION_DATA that may be made, one identity each
    Things,      \* OBJ_DATA that may be made, one identity each
    Names,       \* what things are called
    None,        \* NULL, and the empty name
    Stack,       \* the pieces a thing has when it is found
    Lots         \* the quantities sellers type

ASSUME TerminalAssumption ==
    /\ Immortals \subseteq Players
    /\ None \notin Players \cup Auctions \cup Things \cup Names
    /\ Stack \subseteq Nat \ {0} /\ Lots \subseteq Nat \ {0}

VARIABLES
    thing,    \* the goods
    bag,      \* first_carrying .. last_carrying of each player
    offer,    \* the auctions
    screen,   \* pcdata->line_nr of those at the terminal
    editing,  \* desc->olc_editing
    astray,   \* history: what an auction sells although "send" took another thing,
              \* or extracted it as the first of several pieces
    wild      \* freed memory was used: nothing is promised from here on

vars == <<thing, bag, offer, screen, editing, astray, wild>>

Good == [name : Names \cup {None}, count : Nat, stage : {"unmade", "live", "freed"}]

Unmade == [name |-> None, count |-> 0, stage |-> "unmade"]

Offer == [stage : {"unborn", "new", "listed", "freed"},
          seller : Players \cup {None}, goods : BOOLEAN, name : Names \cup {None},
          lot : Nat, item : Things \cup {None}, timed : BOOLEAN,
          winner : Players \cup {None},
          ended : BOOLEAN, paid : BOOLEAN, collected : BOOLEAN]

\* new_auction
Blank == [stage |-> "unborn", seller |-> None, goods |-> TRUE, name |-> None,
          lot |-> 1, item |-> None, timed |-> FALSE, winner |-> None,
          ended |-> FALSE, paid |-> FALSE, collected |-> FALSE]

Screens == {"off", "main", "new", "list", "details"}

TypeOK ==
    /\ thing \in [Things -> Good]
    /\ bag \in [Players -> Seq(Things)]
    /\ offer \in [Auctions -> Offer]
    /\ screen \in [Players -> Screens]
    /\ editing \in [Players -> Auctions \cup {None}]
    /\ astray \subseteq Things /\ wild \in BOOLEAN

Init ==
    /\ thing = [t \in Things |-> Unmade]
    /\ bag = [p \in Players |-> <<>>]
    /\ offer = [a \in Auctions |-> Blank]
    /\ screen = [p \in Players |-> "off"]
    /\ editing = [p \in Players |-> None]
    /\ astray = {} /\ wild = FALSE

-----------------------------------------------------------------------------
(* Goods. *)

Carried(p) == {bag[p][i] : i \in DOMAIN bag[p]}
Named(p, n) == {i \in DOMAIN bag[p] : thing[bag[p][i]].name = n}

\* get_obj_carry: the last thing of the list that answers to the name.
Has(p, n) == Named(p, n) # {}
Latest(p, n) == bag[p][CHOOSE i \in Named(p, n) : \A j \in Named(p, n) : j <= i]

\* UNLINK
Without(s, t) ==
    LET i == CHOOSE j \in DOMAIN s : s[j] = t
    IN [j \in 1 .. Len(s) - 1 |-> IF j < i THEN s[j] ELSE s[j + 1]]

Fresh == {t \in Things : thing[t].stage = "unmade"}
NewThing == CHOOSE t \in Fresh : TRUE

\* A thing is bought, made, picked up or given back: linked at the end.
Find(p, n, k) ==
    /\ Fresh # {}
    /\ thing' = [thing EXCEPT ![NewThing] = [name |-> n, count |-> k, stage |-> "live"]]
    /\ bag' = [bag EXCEPT ![p] = Append(@, NewThing)]
    /\ UNCHANGED <<offer, screen, editing, astray, wild>>

\* A thing is dropped for another to take.
Give(p, q, t) ==
    /\ p # q /\ t \in Carried(p)
    /\ bag' = [bag EXCEPT ![p] = Without(@, t), ![q] = Append(@, t)]
    /\ UNCHANGED <<thing, offer, screen, editing, astray, wild>>

\* A thing is eaten, junked or, when its owner leaves the game, freed with
\* him; what he loads when he comes back is found anew.
Lose(p, t) ==
    /\ t \in Carried(p)
    /\ bag' = [bag EXCEPT ![p] = Without(@, t)]
    /\ thing' = [thing EXCEPT ![t].stage = "freed"]
    /\ UNCHANGED <<offer, screen, editing, astray, wild>>

-----------------------------------------------------------------------------
(* The terminal. *)

ListedIn(o) == {a \in Auctions : o[a].stage = "listed"}

\* save_stock_market writes the item of every auction it has not given up.
SaveBreaks(o, g) ==
    \E a \in ListedIn(o) : o[a].item # None /\ g[o[a].item].stage = "freed"

\* free_auction frees the item too, wherever it is: in somebody's hands or in
\* an auction of whoever got it meanwhile.
FreeBreaks(a) ==
    LET t == offer[a].item IN
    /\ t # None
    /\ \/ thing[t].stage = "freed"
       \/ \E p \in Players : t \in Carried(p)
       \/ \E b \in ListedIn(offer) \ {a} : offer[b].item = t
FreedGoods(m) ==
    IF m.item = None THEN thing ELSE [thing EXCEPT ![m.item].stage = "freed"]
Freed == [Blank EXCEPT !.stage = "freed"]

GoTo(p, s, a) ==
    /\ screen' = [screen EXCEPT ![p] = s]
    /\ editing' = [editing EXCEPT ![p] = a]

At(p, s) == screen[p] = s

\* do_exchange, from the room or, as any other command, from a screen of the
\* terminal; exchange prints the main screen.
Enter(p) ==
    /\ GoTo(p, "main", None)
    /\ UNCHANGED <<thing, bag, offer, astray, wild>>

\* "done", or a command outside of the auction room: edit_done.
Done(p) ==
    /\ screen[p] # "off"
    /\ GoTo(p, "off", None)
    /\ UNCHANGED <<thing, bag, offer, astray, wild>>

OwnNew(p) == {a \in Auctions : offer[a].stage = "new" /\ offer[a].seller = p}
Spare == {a \in Auctions : offer[a].stage = "unborn"}
NewAuction == CHOOSE a \in Spare : TRUE

\* "nowa": the offer being edited, else the one left unpublished, else a new.
Prepare(p) ==
    /\ At(p, "main")
    /\ IF editing[p] # None
       THEN GoTo(p, "new", editing[p]) /\ UNCHANGED offer
       ELSE IF OwnNew(p) # {}
       THEN GoTo(p, "new", CHOOSE a \in OwnNew(p) : TRUE) /\ UNCHANGED offer
       ELSE /\ Spare # {}
            /\ offer' = [offer EXCEPT ![NewAuction] =
                             [Blank EXCEPT !.stage = "new", !.seller = p]]
            /\ GoTo(p, "new", NewAuction)
    /\ UNCHANGED <<thing, bag, astray, wild>>

\* "1": the list of the goods on sale.
Browse(p) ==
    /\ At(p, "main")
    /\ GoTo(p, "list", editing[p])
    /\ UNCHANGED <<thing, bag, offer, astray, wild>>

-----------------------------------------------------------------------------
(* The screen of a new offer. *)

Edits(p) == At(p, "new") /\ offer[editing[p]].stage = "new"
Edited(p) == offer[editing[p]]
Edit(p, m) == offer' = [offer EXCEPT ![editing[p]] = m]

\* "typ"
ChooseType(p, goods) ==
    /\ Edits(p)
    /\ Edit(p, [Edited(p) EXCEPT !.goods = goods, !.name = None])
    /\ UNCHANGED <<thing, bag, screen, editing, astray, wild>>

\* "towar": the thing is looked at and stays with its owner.
ChooseGoods(p, t) ==
    /\ Edits(p) /\ Edited(p).goods /\ t \in Carried(p)
    /\ Edit(p, [Edited(p) EXCEPT !.lot = 1, !.name = thing[t].name, !.item = t])
    /\ UNCHANGED <<thing, bag, screen, editing, astray, wild>>

\* "ilosc": too many are refused with the name of the item in hand.
ChooseLot(p, n) ==
    /\ Edits(p) /\ Edited(p).goods /\ Has(p, Edited(p).name)
    /\ IF n <= thing[Latest(p, Edited(p).name)].count
       THEN Edit(p, [Edited(p) EXCEPT !.lot = n]) /\ UNCHANGED wild
       ELSE /\ wild' = (thing[Edited(p).item].stage = "freed")
            /\ wild' /\ UNCHANGED offer
    /\ UNCHANGED <<thing, bag, screen, editing, astray>>

\* "czas"
ChooseTime(p) ==
    /\ Edits(p) /\ ~ Edited(p).timed
    /\ Edit(p, [Edited(p) EXCEPT !.timed = TRUE])
    /\ UNCHANGED <<thing, bag, screen, editing, astray, wild>>

\* Mutant: the piece that is sold stays in the list of its owner.
TakeButLast(bags, goods, p, n, lot, t) ==
    [bags |-> bags, goods |-> [goods EXCEPT ![t].count = 1]]

\* Mutant: the pieces are counted off the stack and again when it leaves.
TakeTwice(bags, goods, p, n, lot, t) ==
    [bags |-> [bags EXCEPT ![p] = Without(@, t)],
     goods |-> [goods EXCEPT ![t].count = @ - lot - 1]]

\* The loop of "send": `lot` times the last thing of the name is taken off its
\* stack, whose rest goes to the end of the list, and out of the hands of the
\* seller; all but the last of them are extracted.
Take(bags, goods, p, n, lot, t) ==
    LET rest == goods[t].count - lot
        spent == [goods EXCEPT ![t].count = 1, ![t].stage = IF lot > 1 THEN "freed" ELSE "live"]
    IN IF rest = 0
       THEN [bags |-> [bags EXCEPT ![p] = Without(@, t)], goods |-> spent]
       ELSE [bags |-> [bags EXCEPT ![p] = Append(Without(@, t), NewThing)],
             goods |-> [spent EXCEPT ![NewThing] =
                            [name |-> n, count |-> rest, stage |-> "live"]]]

\* "send": what is taken is the last thing of that name, what is sold is the
\* thing that was looked at.
Send(p) ==
    LET m == Edited(p)
        t == Latest(p, m.name)
        r == Take(bag, thing, p, m.name, m.lot, t)
    IN /\ Edits(p) /\ m.goods /\ m.timed /\ Has(p, m.name)
       /\ m.lot <= thing[t].count
       /\ m.lot < thing[t].count => Fresh # {}
       /\ bag' = r.bags /\ thing' = r.goods
       /\ Edit(p, [m EXCEPT !.stage = "listed"])
       /\ astray' = IF t = m.item /\ m.lot = 1 THEN astray ELSE astray \cup {m.item}
       /\ wild' = (SaveBreaks(offer, thing) \/ thing[m.item].stage = "freed")
       /\ GoTo(p, "list", None)

\* "back": the offer stays under his hand.
BackFromNew(p) ==
    /\ At(p, "new")
    /\ GoTo(p, "main", editing[p])
    /\ UNCHANGED <<thing, bag, offer, astray, wild>>

\* Mutant: the pointer is kept.
EraseKeeps(p) ==
    /\ Edits(p)
    /\ Edit(p, Freed) /\ thing' = FreedGoods(Edited(p))
    /\ wild' = FreeBreaks(editing[p])
    /\ GoTo(p, "main", editing[p])
    /\ UNCHANGED <<bag, astray>>

\* "erase"
Erase(p) ==
    /\ Edits(p)
    /\ Edit(p, Freed) /\ thing' = FreedGoods(Edited(p))
    /\ wild' = FreeBreaks(editing[p])
    /\ GoTo(p, "main", None)
    /\ UNCHANGED <<bag, astray>>

-----------------------------------------------------------------------------
(* The list, and the screen of one auction. *)

\* What is not his any more when the auction is over sends him back to the
\* list, the pointer still set.
Show(p, a) ==
    GoTo(p, IF offer[a].ended /\ p \notin {offer[a].seller, offer[a].winner}
            THEN "list" ELSE "details", a)

\* stock_show_details: an item that is still to be delivered is described.
ShowBreaks(p, a) ==
    /\ screen'[p] = "details" /\ offer[a].item # None
    /\ thing[offer[a].item].stage = "freed"

\* "pokaz"
Open(p, a) ==
    /\ At(p, "list") /\ a \in ListedIn(offer)
    /\ Show(p, a)
    /\ wild' = ShowBreaks(p, a)
    /\ UNCHANGED <<thing, bag, offer, astray>>

BackFromList(p) ==
    /\ At(p, "list")
    /\ GoTo(p, "main", None)
    /\ UNCHANGED <<thing, bag, offer, astray, wild>>

BackFromDetails(p) ==
    /\ At(p, "details") /\ offer[editing[p]].stage = "listed"
    /\ GoTo(p, "list", None)
    /\ UNCHANGED <<thing, bag, offer, astray, wild>>

\* The first thing every command of the screen does is to read the type of
\* the auction it points at.
ReadFreed(p) ==
    /\ At(p, "details") /\ offer[editing[p]].stage = "freed"
    /\ wild' = TRUE
    /\ UNCHANGED <<thing, bag, offer, screen, editing, astray>>

\* The auctions a command may mean: any by its number in the list, on the
\* screen of one that one.
Meant(p) ==
    CASE screen[p] = "list" -> ListedIn(offer)
      [] screen[p] = "details" -> {editing[p]} \cap ListedIn(offer)
      [] OTHER -> {}

\* "licytuj" and "buyout", for the bettor who wins in the end
Bid(p, a) ==
    /\ At(p, "details") /\ a \in Meant(p) /\ p # offer[a].seller /\ ~ offer[a].ended
    /\ offer' = [offer EXCEPT ![a].winner = p]
    /\ wild' = SaveBreaks(offer, thing)
    /\ UNCHANGED <<thing, bag, screen, editing, astray>>

\* "zakoncz"; the screen is printed again.
Finish(p, a) ==
    /\ a \in Meant(p) /\ ~ offer[a].ended
    /\ p \in Immortals \/ (p = offer[a].seller /\ offer[a].winner = None)
    /\ offer' = [offer EXCEPT ![a].ended = TRUE]
    /\ IF At(p, "details") /\ p \notin {offer[a].seller, offer[a].winner}
       THEN GoTo(p, "list", a) ELSE UNCHANGED <<screen, editing>>
    /\ wild' = ShowBreaks(p, a)
    /\ UNCHANGED <<thing, bag, astray>>

\* "usun" in the list.  (On the screen of an auction it looks the number up
\* in no list and finds nothing.)
Delete(p, a) ==
    /\ At(p, "list") /\ a \in Meant(p)
    /\ p \in Immortals \/ (p = offer[a].seller /\ offer[a].winner = None)
    /\ offer' = [offer EXCEPT ![a] = Freed]
    /\ thing' = FreedGoods(offer[a])
    /\ wild' = (FreeBreaks(a) \/ SaveBreaks(offer', thing'))
    /\ GoTo(p, "list", None)
    /\ UNCHANGED <<bag, astray>>

\* auction_item_gather
Delivers(p, m) == IF p = m.seller THEN m.winner = None /\ ~ m.collected ELSE ~ m.collected
Gathered(p, m) ==
    IF Delivers(p, m)
    THEN [m EXCEPT !.item = None, !.collected = TRUE, !.paid = @ \/ p = m.seller, !.winner = None]
    ELSE [m EXCEPT !.paid = TRUE]
Settled(m) == m.paid /\ m.collected /\ m.winner = None

\* "odbierz"
Collect(p, a) ==
    LET m == Gathered(p, offer[a]) IN
    /\ a \in Meant(p) /\ offer[a].ended
    /\ (p = offer[a].seller /\ ~ offer[a].paid) \/ p = offer[a].winner
    /\ offer' = [offer EXCEPT ![a] = IF Settled(m) THEN Freed ELSE m]
    /\ bag' = IF Delivers(p, offer[a]) THEN [bag EXCEPT ![p] = Append(@, offer[a].item)] ELSE bag
    /\ wild' = (SaveBreaks(offer', thing)
                  \/ (Delivers(p, offer[a]) /\ thing[offer[a].item].stage = "freed"))
    /\ GoTo(p, "list", None)
    /\ UNCHANGED <<thing, astray>>

\* The end of an auction is reached.
Expire(a) ==
    /\ offer[a].stage = "listed" /\ ~ offer[a].ended
    /\ offer' = [offer EXCEPT ![a].ended = TRUE]
    /\ UNCHANGED <<thing, bag, screen, editing, astray, wild>>

-----------------------------------------------------------------------------
Command(p) ==
    \/ Enter(p) \/ Done(p) \/ Prepare(p) \/ Browse(p)
    \/ \E goods \in BOOLEAN : ChooseType(p, goods)
    \/ \E t \in Things : ChooseGoods(p, t)
    \/ \E n \in Lots : ChooseLot(p, n)
    \/ ChooseTime(p) \/ Send(p) \/ BackFromNew(p) \/ Erase(p)
    \/ BackFromList(p) \/ BackFromDetails(p) \/ ReadFreed(p)
    \/ \E a \in Auctions :
        Open(p, a) \/ Bid(p, a) \/ Finish(p, a) \/ Delete(p, a) \/ Collect(p, a)

Elsewhere(p) ==
    \/ \E n \in Names, k \in Stack : Find(p, n, k)
    \/ \E t \in Things : Lose(p, t) \/ \E q \in Players : Give(p, q, t)

Next ==
    /\ ~ wild
    /\ \/ \E p \in Players : Command(p) \/ Elsewhere(p)
       \/ \E a \in Auctions : Expire(a)

Spec == Init /\ [][Next]_vars

-----------------------------------------------------------------------------
(* Properties. *)

\* A seller has one unpublished offer at most, however often he leaves the
\* terminal and the game and comes back.
OneOffer == \A p \in Players : \A a, b \in OwnNew(p) : a = b

\* Safety: a screen and the auction under the hand fit: the commands of the
\* new offer only ever meet the one unpublished offer of the very player, and
\* the screen of an auction one that is or was published.
ScreenFits ==
    /\ OneOffer
    /\ \A p \in Players :
        /\ screen[p] = "off" => editing[p] = None
        /\ screen[p] = "new" => editing[p] \in OwnNew(p)
        /\ screen[p] = "main" => editing[p] \in OwnNew(p) \cup {None}
        /\ screen[p] = "details" =>
              editing[p] # None /\ offer[editing[p]].stage \in {"listed", "freed"}

\* Safety: an auction whose item has not been collected has it: it was taken
\* from the seller, is in nobody's hands and in no other auction, however many
\* things bear its name and whatever is sold wrongly beside it.  What "send"
\* itself confuses is excused: a thing that is sold although the last thing of
\* its name was taken, or was extracted with the first of several pieces.
HeldItem ==
    ~ wild => \A a \in ListedIn(offer) :
        LET t == offer[a].item IN
        ~ offer[a].collected /\ t \notin astray =>
            /\ t # None /\ thing[t].stage = "live"
            /\ \A p \in Players : t \notin Carried(p)
            /\ \A b \in ListedIn(offer) \ {a} : offer[b].item # t
=============================================================================
