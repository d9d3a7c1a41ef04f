----------------------- MODULE ExchangeTerminal_proofs -----------------------
(***************************************************************************)
(* Proofs about ExchangeTerminal, for any players, auctions and goods.      *)
(*                                                                         *)
(* Nothing is asked of the goods: there are stacks, namesakes, and freed    *)
(* memory that is read.  That the item of an auction is held is claimed of  *)
(* the things that "send" took as it sold them.                             *)
(***************************************************************************)
EXTENDS ExchangeTerminal, SequenceTheorems, WellFoundedInduction, TLAPS

-----------------------------------------------------------------------------
(* The inductive invariant. *)

\* An auction has the fields of one, whatever is in them.
Whole(m) ==
    m = [f \in {"stage", "seller", "goods", "name", "lot", "item", "timed", "winner",
                "ended", "paid", "collected"} |-> m[f]]

Shaped ==
    /\ offer = [a \in Auctions |-> offer[a]]
    /\ \A a \in Auctions : Whole(offer[a])

Hands ==
    /\ screen \in [Players -> Screens]
    /\ editing \in [Players -> Auctions \cup {None}]

\* What ScreenFits says of one player
Fits(p) ==
    /\ screen[p] = "off" => editing[p] = None
    /\ screen[p] = "new" => editing[p] \in OwnNew(p)
    /\ screen[p] = "main" => editing[p] \in OwnNew(p) \cup {None}
    /\ screen[p] = "details" =>
          editing[p] # None /\ offer[editing[p]].stage \in {"listed", "freed"}

IInv == Shaped /\ Hands /\ OneOffer /\ \A p \in Players : Fits(p)

LEMMA TerminalFacts == None \notin Players /\ None \notin Auctions
  BY TerminalAssumption

LEMMA InvFits == IInv => ScreenFits
  BY DEF IInv, ScreenFits, Fits

-----------------------------------------------------------------------------
(* Lemmas. *)

\* One auction is written.
LEMMA Written ==
  ASSUME Shaped, NEW a \in Auctions, NEW m, Whole(m), offer' = [offer EXCEPT ![a] = m]
  PROVE  /\ Shaped'
         /\ offer'[a] = m
         /\ \A b \in Auctions : b # a => offer'[b] = offer[b]
  BY DEF Shaped

LEMMA BlankWhole ==
  /\ Whole(Blank)
  /\ Whole(Freed) /\ Freed.stage = "freed"
  /\ \A p : LET m == [Blank EXCEPT !.stage = "new", !.seller = p] IN
            Whole(m) /\ m.stage = "new" /\ m.seller = p
  <1>1. Whole(Blank)
    BY DEF Whole, Blank
  <1> QED BY <1>1 DEF Whole, Freed

\* No unpublished offer appears, changes hands or is given up.
Calm ==
    \A a \in Auctions :
        \/ offer'[a].stage = offer[a].stage /\ offer'[a].seller = offer[a].seller
        \/ offer[a].stage = "listed" /\ offer'[a].stage \in {"listed", "freed"}

LEMMA CalmOwn == ASSUME Calm, NEW p PROVE OwnNew(p)' = OwnNew(p)
  BY DEF Calm, OwnNew

\* Then whose screen stays as it is keeps the fit, and one who goes elsewhere
\* has to fit there.
LEMMA CalmStay == ASSUME IInv, Calm, NEW p \in Players, screen'[p] = screen[p], editing'[p] = editing[p]
                  PROVE  Fits(p)'
  BY CalmOwn DEF IInv, Fits, Hands, Calm

LEMMA CalmStep ==
  ASSUME IInv, Calm, Shaped', UNCHANGED <<screen, editing>>
  PROVE  IInv'
  <1>1. \A p \in Players : Fits(p)'
    BY CalmStay
  <1>2. OneOffer'
    BY CalmOwn DEF IInv, OneOffer
  <1> QED BY <1>1, <1>2 DEF IInv, Hands

LEMMA CalmGo ==
  ASSUME IInv, Calm, Shaped', NEW p \in Players, NEW s \in Screens, NEW a \in Auctions \cup {None},
         GoTo(p, s, a),
         s = "off" => a = None,
         s = "new" => a \in OwnNew(p),
         s = "main" => a \in OwnNew(p) \cup {None},
         s = "details" => a # None /\ offer'[a].stage \in {"listed", "freed"}
  PROVE  IInv'
  <1>1. screen'[p] = s /\ editing'[p] = a
    BY DEF GoTo, IInv, Hands
  <1>2. \A q \in Players \ {p} : screen'[q] = screen[q] /\ editing'[q] = editing[q]
    BY DEF GoTo, IInv, Hands
  <1>3. Hands'
    BY DEF GoTo, IInv, Hands
  <1>4. Fits(p)'
    BY <1>1, CalmOwn DEF Fits
  <1>5. \A q \in Players : Fits(q)'
    BY <1>2, <1>4, CalmStay
  <1>6. OneOffer'
    BY CalmOwn DEF IInv, OneOffer
  <1> QED BY <1>3, <1>5, <1>6 DEF IInv

LEMMA SameCalm == ASSUME IInv, offer' = offer PROVE Calm /\ Shaped'
  BY DEF Calm, IInv, Shaped

\* An auction that was published is changed, or given up.
LEMMA ListedCalm ==
  ASSUME IInv, NEW a \in Auctions, NEW m, Whole(m), offer' = [offer EXCEPT ![a] = m],
         \/ m.stage = offer[a].stage /\ m.seller = offer[a].seller
         \/ offer[a].stage = "listed" /\ m.stage \in {"listed", "freed"}
  PROVE  Calm /\ Shaped'
  <1>1. Shaped' /\ offer'[a] = m /\ \A b \in Auctions : b # a => offer'[b] = offer[b]
    BY Written DEF IInv
  <1> QED BY <1>1 DEF Calm

\* The offer a player edits is his own one and has the fields of one.
LEMMA EditedOwn ==
  ASSUME IInv, NEW p \in Players, Edits(p)
  PROVE  editing[p] \in OwnNew(p) /\ editing[p] \in Auctions /\ Whole(offer[editing[p]])
  BY DEF IInv, Edits, At, Fits, OwnNew, Shaped

-----------------------------------------------------------------------------
(* The commands keep the invariant. *)

\* Those that change nothing but where the player is
LEMMA Walks ==
  ASSUME IInv, NEW p \in Players,
         Enter(p) \/ Done(p) \/ Browse(p) \/ BackFromNew(p) \/ BackFromList(p)
           \/ BackFromDetails(p) \/ \E a \in Auctions : Open(p, a)
  PROVE  IInv'
  <1>1. offer' = offer
    BY DEF Enter, Done, Browse, BackFromNew, BackFromList, BackFromDetails, Open
  <1>2. Calm /\ Shaped'
    BY <1>1, SameCalm
  <1>3. CASE Enter(p) \/ BackFromList(p)
    BY <1>2, <1>3, CalmGo DEF Enter, BackFromList, Screens
  <1>4. CASE Done(p)
    BY <1>2, <1>4, CalmGo DEF Done, Screens
  <1>5. CASE Browse(p)
    BY <1>2, <1>5, CalmGo DEF Browse, Screens, IInv, Hands
  <1>6. CASE BackFromNew(p)
    BY <1>2, <1>6, CalmGo DEF BackFromNew, At, Screens, IInv, Fits, Hands
  <1>7. CASE BackFromDetails(p)
    BY <1>2, <1>7, CalmGo DEF BackFromDetails, Screens
  <1>8. ASSUME NEW a \in Auctions, Open(p, a) PROVE IInv'
    <2>1. offer'[a].stage = "listed" /\ a # None
      BY <1>1, <1>8, TerminalFacts DEF Open, ListedIn
    <2>2. \E s \in {"list", "details"} : GoTo(p, s, a)
      BY <1>8 DEF Open, Show
    <2> QED BY <1>2, <2>1, <2>2, CalmGo DEF Screens
  <1> QED BY <1>3, <1>4, <1>5, <1>6, <1>7, <1>8

\* Those that fill in the offer
LEMMA Fills ==
  ASSUME IInv, NEW p \in Players,
         \/ \E goods \in BOOLEAN : ChooseType(p, goods)
         \/ \E t \in Things : ChooseGoods(p, t)
         \/ \E n \in Lots : ChooseLot(p, n)
         \/ ChooseTime(p)
  PROVE  IInv'
  <1>1. Edits(p) /\ UNCHANGED <<screen, editing>>
    BY DEF ChooseType, ChooseGoods, ChooseLot, ChooseTime
  <1>2. editing[p] \in Auctions /\ Whole(Edited(p))
    BY <1>1, EditedOwn DEF Edited
  <1>3. ASSUME NEW m, Edit(p, m), Whole(m), m.stage = Edited(p).stage, m.seller = Edited(p).seller
        PROVE  IInv'
    BY <1>1, <1>2, <1>3, ListedCalm, CalmStep DEF Edit, Edited
  <1>4. ASSUME NEW goods \in BOOLEAN, ChooseType(p, goods) PROVE IInv'
    <2>1. PICK m : m = [Edited(p) EXCEPT !.goods = goods, !.name = None]
      OBVIOUS
    <2>2. Edit(p, m)
      BY <1>4, <2>1 DEF ChooseType
    <2>3. Whole(m) /\ m.stage = Edited(p).stage /\ m.seller = Edited(p).seller
      BY <1>2, <2>1 DEF Whole
    <2> QED BY <1>3, <2>2, <2>3
  <1>5. ASSUME NEW t \in Things, ChooseGoods(p, t) PROVE IInv'
    <2>1. PICK m : m = [Edited(p) EXCEPT !.lot = 1, !.name = thing[t].name, !.item = t]
      OBVIOUS
    <2>2. Edit(p, m)
      BY <1>5, <2>1 DEF ChooseGoods
    <2>3. Whole(m) /\ m.stage = Edited(p).stage /\ m.seller = Edited(p).seller
      BY <1>2, <2>1 DEF Whole
    <2> QED BY <1>3, <2>2, <2>3
  <1>6. ASSUME NEW n \in Lots, ChooseLot(p, n) PROVE IInv'
    <2>1. CASE offer' = offer
      BY <1>1, <2>1, SameCalm, CalmStep
    <2>2. CASE offer' # offer
      <3>1. PICK m : m = [Edited(p) EXCEPT !.lot = n]
        OBVIOUS
      <3>2. Edit(p, m)
        BY <1>6, <2>2, <3>1 DEF ChooseLot
      <3>3. Whole(m) /\ m.stage = Edited(p).stage /\ m.seller = Edited(p).seller
        BY <1>2, <3>1 DEF Whole
      <3> QED BY <1>3, <3>2, <3>3
    <2> QED BY <2>1, <2>2
  <1>7. ASSUME ChooseTime(p) PROVE IInv'
    <2>1. PICK m : m = [Edited(p) EXCEPT !.timed = TRUE]
      OBVIOUS
    <2>2. Edit(p, m)
      BY <1>7, <2>1 DEF ChooseTime
    <2>3. Whole(m) /\ m.stage = Edited(p).stage /\ m.seller = Edited(p).seller
      BY <1>2, <2>1 DEF Whole
    <2> QED BY <1>3, <2>2, <2>3
  <1> QED BY <1>4, <1>5, <1>6, <1>7

\* Those that do something to a published auction
LEMMA Deals ==
  ASSUME IInv, NEW p \in Players, NEW a \in Auctions,
         Bid(p, a) \/ Finish(p, a) \/ Delete(p, a) \/ Collect(p, a)
  PROVE  IInv'
  <1>1. offer[a].stage = "listed" /\ Whole(offer[a]) /\ a # None
    BY TerminalFacts DEF Bid, Finish, Delete, Collect, Meant, ListedIn, IInv, Shaped
  <1>2. ASSUME NEW m, Whole(m), m.stage \in {"listed", "freed"}, offer' = [offer EXCEPT ![a] = m]
        PROVE  Calm /\ Shaped' /\ offer'[a].stage = m.stage
    BY <1>1, <1>2, ListedCalm, Written DEF IInv
  <1>3. CASE Bid(p, a)
    <2>1. PICK m : m = [offer[a] EXCEPT !.winner = p]
      OBVIOUS
    <2>2. offer' = [offer EXCEPT ![a] = m]
      BY <1>3, <2>1 DEF Bid
    <2>3. Whole(m) /\ m.stage = "listed"
      BY <1>1, <2>1 DEF Whole
    <2> QED BY <1>2, <1>3, <2>2, <2>3, CalmStep DEF Bid
  <1>4. CASE Finish(p, a)
    <2>1. PICK m : m = [offer[a] EXCEPT !.ended = TRUE]
      OBVIOUS
    <2>2. offer' = [offer EXCEPT ![a] = m]
      BY <1>4, <2>1 DEF Finish
    <2>3. Whole(m) /\ m.stage = "listed"
      BY <1>1, <2>1 DEF Whole
    <2>4. Calm /\ Shaped'
      BY <1>2, <2>2, <2>3
    <2>5. GoTo(p, "list", a) \/ UNCHANGED <<screen, editing>>
      BY <1>4 DEF Finish
    <2> QED BY <2>4, <2>5, CalmGo, CalmStep DEF Screens
  <1>5. CASE Delete(p, a)
    <2>1. offer' = [offer EXCEPT ![a] = Freed] /\ GoTo(p, "list", None)
      BY <1>5 DEF Delete
    <2>2. Calm /\ Shaped'
      BY <1>2, <2>1, BlankWhole
    <2> QED BY <2>1, <2>2, CalmGo DEF Screens
  <1>6. CASE Collect(p, a)
    <2>1. PICK g : g = Gathered(p, offer[a])
      OBVIOUS
    <2>2. Whole(g) /\ g.stage = "listed"
      BY <1>1, <2>1 DEF Gathered, Whole
    <2>3. PICK m : m = IF Settled(g) THEN Freed ELSE g
      OBVIOUS
    <2>4. Whole(m) /\ m.stage \in {"listed", "freed"}
      BY <2>2, <2>3, BlankWhole
    <2>5. offer' = [offer EXCEPT ![a] = m] /\ GoTo(p, "list", None)
      BY <1>6, <2>1, <2>3 DEF Collect
    <2>6. Calm /\ Shaped'
      BY <1>2, <2>4, <2>5
    <2> QED BY <2>5, <2>6, CalmGo DEF Screens
  <1> QED BY <1>3, <1>4, <1>5, <1>6

\* The one unpublished offer of p is given up: published, or freed.
LEMMA GivenUp ==
  ASSUME IInv, NEW p \in Players, Edits(p), NEW m, Whole(m), m.stage \in {"listed", "freed"},
         Edit(p, m), NEW s \in {"list", "main"}, GoTo(p, s, None)
  PROVE  IInv'
  <1> DEFINE a == editing[p]
  <1>1. a \in OwnNew(p) /\ a \in Auctions
    BY EditedOwn
  <1>2. /\ Shaped' /\ offer'[a] = m
        /\ \A b \in Auctions : b # a => offer'[b] = offer[b]
    BY <1>1, Written DEF Edit, IInv
  <1>3. screen'[p] = s /\ editing'[p] = None /\ Hands'
    BY DEF GoTo, IInv, Hands, Screens
  <1>4. \A q \in Players \ {p} : screen'[q] = screen[q] /\ editing'[q] = editing[q]
    BY DEF GoTo, IInv, Hands
  <1>5. \A q \in Players : OwnNew(q)' = OwnNew(q) \ {a}
    BY <1>1, <1>2 DEF OwnNew
  <1>6. \A q \in Players \ {p} : a \notin OwnNew(q)
    BY <1>1 DEF OwnNew
  <1>7. ASSUME NEW q \in Players, q # p PROVE Fits(q)'
    <2>1. Fits(q) /\ OwnNew(q)' = OwnNew(q)
      BY <1>5, <1>6, <1>7 DEF IInv
    <2>2. screen[q] = "details" =>
             offer'[editing[q]].stage \in {"listed", "freed"} /\ editing[q] # None
      <3>1. SUFFICES ASSUME screen[q] = "details"
                     PROVE  offer'[editing[q]].stage \in {"listed", "freed"} /\ editing[q] # None
        OBVIOUS
      <3>2. editing[q] # None /\ offer[editing[q]].stage \in {"listed", "freed"} /\ editing[q] \in Auctions
        BY <2>1, <3>1 DEF Fits, IInv, Hands
      <3>3. editing[q] # a
        BY <1>1, <3>2 DEF OwnNew
      <3> QED BY <1>2, <3>2, <3>3
    <2> QED BY <1>4, <1>7, <2>1, <2>2 DEF Fits
  <1>8. Fits(p)'
    BY <1>3 DEF Fits
  <1>9. OneOffer'
    BY <1>5 DEF IInv, OneOffer
  <1> QED BY <1>2, <1>3, <1>7, <1>8, <1>9 DEF IInv

LEMMA Sends == ASSUME IInv, NEW p \in Players, Send(p) PROVE IInv'
  <1>1. Edits(p) /\ Whole(Edited(p))
    BY EditedOwn DEF Send, Edited
  <1>2. PICK m : m = [Edited(p) EXCEPT !.stage = "listed"]
    OBVIOUS
  <1>3. Whole(m) /\ m.stage = "listed"
    BY <1>1, <1>2 DEF Whole
  <1>4. Edit(p, m) /\ GoTo(p, "list", None)
    BY <1>2 DEF Send
  <1> QED BY <1>1, <1>3, <1>4, GivenUp

LEMMA Erases == ASSUME IInv, NEW p \in Players, Erase(p) PROVE IInv'
  BY BlankWhole, GivenUp DEF Erase

\* A new offer is made only for one who has none.
LEMMA Prepares == ASSUME IInv, NEW p \in Players, Prepare(p) PROVE IInv'
  <1>1. At(p, "main") /\ screen[p] = "main" /\ Fits(p)
    BY DEF Prepare, At, IInv
  <1>2. CASE editing[p] # None
    <2>1. GoTo(p, "new", editing[p]) /\ offer' = offer
      BY <1>2 DEF Prepare
    <2>2. editing[p] \in OwnNew(p) /\ editing[p] \in Auctions
      BY <1>1, <1>2 DEF Fits, OwnNew
    <2> QED BY <2>1, <2>2, SameCalm, CalmGo DEF Screens
  <1>3. CASE editing[p] = None /\ OwnNew(p) # {}
    <2>1. PICK a : a = CHOOSE b \in OwnNew(p) : TRUE
      OBVIOUS
    <2>2. a \in OwnNew(p) /\ a \in Auctions
      BY <1>3, <2>1 DEF OwnNew
    <2>3. GoTo(p, "new", a) /\ offer' = offer
      BY <1>3, <2>1 DEF Prepare
    <2> QED BY <2>2, <2>3, SameCalm, CalmGo DEF Screens
  <1>4. CASE editing[p] = None /\ OwnNew(p) = {}
    <2>1. PICK a : a = NewAuction
      OBVIOUS
    <2>2. PICK m : m = [Blank EXCEPT !.stage = "new", !.seller = p]
      OBVIOUS
    <2>3. Spare # {} /\ offer' = [offer EXCEPT ![a] = m] /\ GoTo(p, "new", a)
      BY <1>4, <2>1, <2>2 DEF Prepare
    <2>4. a \in Auctions /\ offer[a].stage = "unborn"
      BY <2>1, <2>3 DEF NewAuction, Spare
    <2>5. Whole(m) /\ m.stage = "new" /\ m.seller = p
      BY <2>2, BlankWhole
    <2>6. /\ Shaped' /\ offer'[a] = m
          /\ \A b \in Auctions : b # a => offer'[b] = offer[b]
      BY <2>3, <2>4, <2>5, Written DEF IInv
    <2>7. OwnNew(p)' = {a} /\ \A q \in Players \ {p} : OwnNew(q)' = OwnNew(q)
      BY <1>4, <2>4, <2>5, <2>6 DEF OwnNew
    <2>8. screen'[p] = "new" /\ editing'[p] = a /\ Hands'
      BY <2>3, <2>4 DEF GoTo, IInv, Hands, Screens
    <2>9. \A q \in Players \ {p} : screen'[q] = screen[q] /\ editing'[q] = editing[q]
      BY <2>3 DEF GoTo, IInv, Hands
    <2>10. ASSUME NEW q \in Players, q # p PROVE Fits(q)'
      <3>1. Fits(q) /\ editing[q] \in Auctions \cup {None}
        BY DEF IInv, Hands
      <3>2. screen[q] = "details" =>
               offer'[editing[q]].stage \in {"listed", "freed"} /\ editing[q] # None
        BY <2>4, <2>6, <3>1 DEF Fits
      <3> QED BY <2>7, <2>9, <2>10, <3>1, <3>2 DEF Fits
    <2>11. Fits(p)'
      BY <2>7, <2>8 DEF Fits
    <2>12. OneOffer'
      BY <2>7 DEF IInv, OneOffer
    <2> QED BY <2>6, <2>8, <2>10, <2>11, <2>12 DEF IInv
  <1> QED BY <1>2, <1>3, <1>4

LEMMA Ends == ASSUME IInv, NEW a \in Auctions, Expire(a) PROVE IInv'
  <1>1. PICK m : m = [offer[a] EXCEPT !.ended = TRUE]
    OBVIOUS
  <1>2. offer' = [offer EXCEPT ![a] = m] /\ UNCHANGED <<screen, editing>>
    BY <1>1 DEF Expire
  <1>3. Whole(m) /\ m.stage = offer[a].stage /\ m.seller = offer[a].seller
    BY <1>1 DEF IInv, Shaped, Whole
  <1> QED BY <1>2, <1>3, ListedCalm, CalmStep

LEMMA Untouched ==
  ASSUME IInv, UNCHANGED <<offer, screen, editing>> PROVE IInv'
  BY SameCalm, CalmStep

-----------------------------------------------------------------------------
LEMMA InvStep == IInv /\ [Next]_vars => IInv'
  <1> SUFFICES ASSUME IInv, [Next]_vars PROVE IInv'
    OBVIOUS
  <1>1. ASSUME NEW p \in Players, Command(p) PROVE IInv'
    <2>1. CASE ReadFreed(p)
      BY <2>1, Untouched DEF ReadFreed
    <2> QED BY <1>1, <2>1, Walks, Fills, Deals, Sends, Erases, Prepares DEF Command
  <1>2. ASSUME NEW p \in Players, Elsewhere(p) PROVE IInv'
    BY <1>2, Untouched DEF Elsewhere, Find, Lose, Give
  <1>3. CASE UNCHANGED vars
    BY <1>3, Untouched DEF vars
  <1> QED BY <1>1, <1>2, <1>3, Ends DEF Next

LEMMA InitInv == Init => IInv
  <1> SUFFICES ASSUME Init PROVE IInv
    OBVIOUS
  <1>1. \A a \in Auctions : offer[a] = Blank /\ offer[a].stage # "new"
    BY DEF Init, Blank
  <1>2. Shaped
    BY <1>1, BlankWhole DEF Init, Shaped
  <1>3. Hands
    BY DEF Init, Hands, Screens
  <1>4. \A p \in Players : OwnNew(p) = {}
    BY <1>1 DEF OwnNew
  <1>5. \A p \in Players : Fits(p)
    BY DEF Init, Fits
  <1> QED BY <1>2, <1>3, <1>4, <1>5 DEF IInv, OneOffer

\* A screen and the auction under the hand fit, and nobody has two unpublished
\* offers, whatever any number of players do with any auctions and goods.
THEOREM TerminalScreenFits == Spec => []ScreenFits
  BY InitInv, InvStep, InvFits, PTL DEF Spec

-----------------------------------------------------------------------------
(* Lists: what a thing taken off one, or put at its end, leaves of it.     *)

LEMMA Unlinked ==
  ASSUME NEW S, NEW s \in Seq(S), NEW t, \E j \in DOMAIN s : s[j] = t
  PROVE  \E k \in 1 .. Len(s) :
            /\ s[k] = t
            /\ Without(s, t) \in Seq(S)
            /\ DOMAIN Without(s, t) = 1 .. Len(s) - 1
            /\ \A j \in 1 .. Len(s) - 1 :
                  Without(s, t)[j] = IF j < k THEN s[j] ELSE s[j + 1]
  <1>1. PICK k : k = CHOOSE j \in DOMAIN s : s[j] = t
    OBVIOUS
  <1>2. k \in DOMAIN s /\ s[k] = t
    BY <1>1
  <1>3. Len(s) \in Nat /\ DOMAIN s = 1 .. Len(s) /\ \A j \in 1 .. Len(s) : s[j] \in S
    BY LenProperties, ElementOfSeq
  <1>4. PICK n : n = Len(s) - 1
    OBVIOUS
  <1> DEFINE f == [j \in 1 .. n |-> IF j < k THEN s[j] ELSE s[j + 1]]
  <1>5. Without(s, t) = f
    BY <1>1, <1>4 DEF Without
  <1>9. n \in Nat
    BY <1>2, <1>3, <1>4
  <1>6. \A j \in 1 .. n : j \in 1 .. Len(s) /\ j + 1 \in 1 .. Len(s)
    BY <1>3, <1>4
  <1>7. f \in [1 .. n -> S]
    BY <1>3, <1>6
  <1>8. f \in Seq(S)
    BY <1>7, <1>9, SeqDef
  <1> QED BY <1>2, <1>3, <1>4, <1>5, <1>8, <1>9

LEMMA UnlinkedSet ==
  ASSUME NEW S, NEW s \in Seq(S), NEW t, \E j \in DOMAIN s : s[j] = t
  PROVE  /\ Without(s, t) \in Seq(S)
         /\ \A j \in DOMAIN Without(s, t) : \E i \in DOMAIN s : Without(s, t)[j] = s[i]
  <1>1. PICK w : w = Without(s, t)
    OBVIOUS
  <1>2. PICK k \in 1 .. Len(s) :
            /\ s[k] = t /\ w \in Seq(S) /\ DOMAIN w = 1 .. Len(s) - 1
            /\ \A j \in 1 .. Len(s) - 1 : w[j] = IF j < k THEN s[j] ELSE s[j + 1]
    <2>1. \E k \in 1 .. Len(s) :
            /\ s[k] = t
            /\ Without(s, t) \in Seq(S)
            /\ DOMAIN Without(s, t) = 1 .. Len(s) - 1
            /\ \A j \in 1 .. Len(s) - 1 :
                  Without(s, t)[j] = IF j < k THEN s[j] ELSE s[j + 1]
      BY Unlinked
    <2> QED BY <1>1, <2>1
  <1>3. Len(s) \in Nat /\ DOMAIN s = 1 .. Len(s)
    BY LenProperties
  <1>4. \A j \in DOMAIN w : \E i \in DOMAIN s : w[j] = s[i]
    <2> TAKE j \in DOMAIN w
    <2>1. CASE j < k
      BY <1>2, <1>3, <2>1
    <2>2. CASE ~ j < k
      <3>1. w[j] = s[j + 1] /\ j + 1 \in DOMAIN s
        BY <1>2, <1>3, <2>2
      <3> QED BY <3>1
    <2> QED BY <2>1, <2>2
  <1> QED BY <1>1, <1>2, <1>4

LEMMA AppendedSet ==
  ASSUME NEW S, NEW s \in Seq(S), NEW t \in S
  PROVE  /\ Append(s, t) \in Seq(S)
         /\ \A j \in DOMAIN Append(s, t) :
               Append(s, t)[j] = t \/ \E i \in DOMAIN s : Append(s, t)[j] = s[i]
  <1>1. PICK w : w = Append(s, t)
    OBVIOUS
  <1>2. /\ w \in Seq(S) /\ Len(w) = Len(s) + 1 /\ Len(s) \in Nat
        /\ w[Len(s) + 1] = t /\ \A i \in 1 .. Len(s) : w[i] = s[i]
        /\ DOMAIN s = 1 .. Len(s) /\ DOMAIN w = 1 .. Len(w)
    BY <1>1, AppendProperties, LenProperties
  <1>3. \A i \in DOMAIN w : i \in DOMAIN s \/ i = Len(s) + 1
    BY <1>2
  <1>5. \A i \in DOMAIN w : w[i] = t \/ \E j \in DOMAIN s : w[i] = s[j]
    BY <1>2, <1>3
  <1> QED BY <1>1, <1>2, <1>5

\* A set of positions of a list has a last one.
LEMMA LastOf ==
  ASSUME NEW n \in Nat, NEW I, I \subseteq 1 .. n, I # {}
  PROVE  \E i \in I : \A j \in I : j <= i
  <1> DEFINE J == {n - i : i \in I}
  <1>1. J \subseteq Nat /\ J # {}
    <2>1. \A i \in I : n - i \in Nat
      OBVIOUS
    <2> QED BY <2>1
  <1> HIDE DEF J
  <1>2. PICK x \in J : \A y \in J : ~ (<<y, x>> \in OpToRel(<, Nat))
    BY <1>1, NatLessThanWellFounded, WFMin
  <1>3. \A y \in J : ~ (y < x)
    BY <1>1, <1>2 DEF OpToRel
  <1>4. PICK i \in I : x = n - i
    BY DEF J
  <1>5. \A j \in I : n - j \in J
    BY DEF J
  <1>6. \A j \in I : j \in Nat /\ ~ (n - j < n - i)
    BY <1>3, <1>4, <1>5
  <1> QED BY <1>4, <1>6

-----------------------------------------------------------------------------
(* Types: whatever the goods are.                                          *)

\* What the fields of an auction owe to each other and to the goods
Sound(m, g) ==
    /\ m.item # None => g[m.item].stage # "unmade"
    /\ m.stage = "new" /\ m.name # None => m.item # None /\ g[m.item].name = m.name
    /\ m.stage = "listed" /\ ~ m.collected => m.item # None
    /\ m.lot # 0

Made == \A t \in Things : thing[t].stage = "unmade" <=> thing[t].name = None

BagsMade == \A p \in Players : \A i \in DOMAIN bag[p] : thing[bag[p][i]].stage # "unmade"

\* What the steps of the screens and of the history give
Sides == Hands /\ astray \subseteq Things

Typed == TypeOK /\ Made /\ BagsMade /\ \A a \in Auctions : Sound(offer[a], thing)

\* Goods are made once and keep their name.
Grows == \A t \in Things : thing[t].stage # "unmade" =>
             thing'[t].stage # "unmade" /\ thing'[t].name = thing[t].name

LEMMA SoundGrows ==
  ASSUME Typed, Grows, NEW m \in Offer, Sound(m, thing)
  PROVE  Sound(m, thing')
  <1>1. m.item \in Things \cup {None}
    BY DEF Offer
  <1> QED BY <1>1 DEF Sound, Grows

LEMMA GrowsKeeps ==
  ASSUME Typed, Grows, offer' \in [Auctions -> Offer],
         \A a \in Auctions : Sound(offer'[a], thing)
  PROVE  \A a \in Auctions : Sound(offer'[a], thing')
  <1>1. ASSUME NEW a \in Auctions PROVE Sound(offer'[a], thing')
    <2>1. PICK m \in Offer : m = offer'[a]
      OBVIOUS
    <2> QED BY <2>1, SoundGrows
  <1> QED BY <1>1

\* One auction is written.
LEMMA OfferWritten ==
  ASSUME Typed, NEW a \in Auctions, NEW m \in Offer, Sound(m, thing),
         offer' = [offer EXCEPT ![a] = m]
  PROVE  /\ offer' \in [Auctions -> Offer]
         /\ offer'[a] = m
         /\ \A b \in Auctions : b # a => offer'[b] = offer[b]
         /\ \A b \in Auctions : Sound(offer'[b], thing)
  <1>1. offer' \in [Auctions -> Offer]
    BY DEF Typed, TypeOK
  <1>2. offer'[a] = m /\ \A b \in Auctions : b # a => offer'[b] = offer[b]
    BY DEF Typed, TypeOK
  <1> QED BY <1>1, <1>2 DEF Typed

LEMMA SameGoods ==
  ASSUME Typed, Sides', UNCHANGED <<thing, bag>>, wild' \in BOOLEAN,
         offer' \in [Auctions -> Offer], \A a \in Auctions : Sound(offer'[a], thing)
  PROVE  Typed'
  <1>1. TypeOK'
    BY DEF Typed, TypeOK, Sides, Hands
  <1>2. Made' /\ BagsMade'
    BY DEF Typed, Made, BagsMade
  <1> QED BY <1>1, <1>2 DEF Typed

LEMMA OfferFields ==
  ASSUME NEW m \in Offer
  PROVE  /\ m.stage \in {"unborn", "new", "listed", "freed"}
         /\ m.seller \in Players \cup {None} /\ m.goods \in BOOLEAN
         /\ m.name \in Names \cup {None} /\ m.lot \in Nat
         /\ m.item \in Things \cup {None} /\ m.timed \in BOOLEAN
         /\ m.winner \in Players \cup {None}
         /\ m.ended \in BOOLEAN /\ m.paid \in BOOLEAN /\ m.collected \in BOOLEAN
  BY DEF Offer

LEMMA BlankSound ==
  /\ Blank \in Offer /\ Sound(Blank, thing)
  /\ Freed \in Offer /\ Sound(Freed, thing) /\ Freed.stage = "freed"
  /\ Freed.item = None
  <1>1. Blank \in Offer /\ Blank.item = None /\ Blank.stage = "unborn" /\ Blank.lot = 1
    BY DEF Blank, Offer
  <1>2. Freed \in Offer /\ Freed.item = None /\ Freed.stage = "freed" /\ Freed.lot = 1
    BY DEF Blank, Offer, Freed
  <1> QED BY <1>1, <1>2 DEF Sound

\* The last thing of a name is one he carries.
LEMMA LatestIs ==
  ASSUME Typed, NEW p \in Players, NEW n, Has(p, n)
  PROVE  /\ Latest(p, n) \in Things /\ thing[Latest(p, n)].name = n
         /\ n # None
         /\ \E i \in DOMAIN bag[p] : bag[p][i] = Latest(p, n)
  <1>1. bag[p] \in Seq(Things)
    BY DEF Typed, TypeOK
  <1>2. Len(bag[p]) \in Nat /\ DOMAIN bag[p] = 1 .. Len(bag[p])
        /\ \A i \in DOMAIN bag[p] : bag[p][i] \in Things
    BY <1>1, LenProperties, ElementOfSeq
  <1>3. Named(p, n) \subseteq 1 .. Len(bag[p]) /\ Named(p, n) # {}
    BY <1>2 DEF Has, Named
  <1>4. \E i \in Named(p, n) : \A j \in Named(p, n) : j <= i
    BY <1>2, <1>3, LastOf
  <1>5. PICK k : k = CHOOSE i \in Named(p, n) : \A j \in Named(p, n) : j <= i
    OBVIOUS
  <1>6. k \in Named(p, n) /\ Latest(p, n) = bag[p][k]
    BY <1>4, <1>5 DEF Latest
  <1>7. k \in DOMAIN bag[p] /\ thing[bag[p][k]].name = n /\ bag[p][k] \in Things
    BY <1>2, <1>6 DEF Named
  <1>8. n # None
    BY <1>7 DEF Typed, Made, BagsMade
  <1> QED BY <1>6, <1>7, <1>8

\* What leaves a bag leaves the others in it, and what comes comes last.
LEMMA BagFacts ==
  ASSUME Typed, NEW p \in Players
  PROVE  /\ bag[p] \in Seq(Things)
         /\ \A i \in DOMAIN bag[p] : bag[p][i] \in Things /\ bag[p][i] \in Carried(p)
  <1>1. bag[p] \in Seq(Things)
    BY DEF Typed, TypeOK
  <1>2. \A i \in DOMAIN bag[p] : bag[p][i] \in Things
    BY <1>1, LenProperties, ElementOfSeq
  <1> QED BY <1>1, <1>2 DEF Carried

LEMMA BagWithout ==
  ASSUME Typed, NEW p \in Players, NEW t \in Carried(p)
  PROVE  /\ t \in Things /\ \E i \in DOMAIN bag[p] : bag[p][i] = t
         /\ Without(bag[p], t) \in Seq(Things)
         /\ \A j \in DOMAIN Without(bag[p], t) :
               \E i \in DOMAIN bag[p] : Without(bag[p], t)[j] = bag[p][i]
  <1>1. bag[p] \in Seq(Things) /\ \E i \in DOMAIN bag[p] : bag[p][i] = t
    BY BagFacts DEF Carried
  <1>2. t \in Things
    BY <1>1, BagFacts
  <1> QED BY <1>1, <1>2, UnlinkedSet

LEMMA FreshIs == ASSUME Fresh # {} PROVE NewThing \in Things /\ thing[NewThing].stage = "unmade"
  BY DEF Fresh, NewThing

\* Goods are made, changed or freed, and bags change.
LEMMA NewGoods ==
  ASSUME Typed, Sides', Grows, Made', BagsMade', wild' \in BOOLEAN,
         thing' \in [Things -> Good], bag' \in [Players -> Seq(Things)],
         offer' \in [Auctions -> Offer], \A a \in Auctions : Sound(offer'[a], thing)
  PROVE  Typed'
  <1>1. \A a \in Auctions : Sound(offer'[a], thing')
    BY GrowsKeeps
  <1> QED BY <1>1 DEF Typed, TypeOK, Sides, Hands

LEMMA SomeFreed ==
  ASSUME Typed, NEW t \in Things, thing[t].stage # "unmade",
         thing' = [thing EXCEPT ![t].stage = "freed"]
  PROVE  thing' \in [Things -> Good] /\ Grows /\ Made'
  <1>1. thing \in [Things -> Good]
    BY DEF Typed, TypeOK
  <1>2. thing' \in [Things -> Good]
    BY <1>1 DEF Good
  <1>3. \A u \in Things : thing'[u].name = thing[u].name /\ (thing'[u].stage = "unmade" <=> thing[u].stage = "unmade")
    BY <1>1 DEF Good
  <1> QED BY <1>2, <1>3 DEF Typed, Made, Grows

\* The item of an auction, if it has one, is freed.
LEMMA ItemFreed ==
  ASSUME Typed, NEW a \in Auctions, thing' = FreedGoods(offer[a])
  PROVE  thing' \in [Things -> Good] /\ Grows /\ Made'
  <1>1. offer[a] \in Offer /\ Sound(offer[a], thing)
    BY DEF Typed, TypeOK
  <1>2. CASE offer[a].item = None
    BY <1>2 DEF FreedGoods, Typed, TypeOK, Made, Grows
  <1>3. CASE offer[a].item # None
    BY <1>1, <1>3, SomeFreed, OfferFields DEF FreedGoods, Sound
  <1> QED BY <1>2, <1>3

LEMMA SameBags ==
  ASSUME Typed, Grows, bag' = bag PROVE BagsMade' /\ bag' \in [Players -> Seq(Things)]
  BY BagFacts DEF Typed, TypeOK, BagsMade, Grows

\* A player edits an unpublished offer of his.
LEMMA EditedSound ==
  ASSUME IInv, Typed, NEW p \in Players, Edits(p)
  PROVE  /\ editing[p] \in Auctions /\ Edited(p) = offer[editing[p]]
         /\ Edited(p) \in Offer /\ Sound(Edited(p), thing) /\ Edited(p).stage = "new"
  <1>1. editing[p] \in Auctions
    BY EditedOwn
  <1> QED BY <1>1 DEF Typed, TypeOK, Edited, Edits

\* Only where the player is
LEMMA TypedWalks ==
  ASSUME Typed, Sides', NEW p \in Players,
         Enter(p) \/ Done(p) \/ Browse(p) \/ BackFromNew(p) \/ BackFromList(p)
           \/ BackFromDetails(p) \/ ReadFreed(p) \/ \E a \in Auctions : Open(p, a)
  PROVE  Typed'
  <1>1. UNCHANGED <<thing, bag, offer>>
    BY DEF Enter, Done, Browse, BackFromNew, BackFromList, BackFromDetails, ReadFreed, Open
  <1>2. wild' \in BOOLEAN
    <2>1. wild' = wild \/ wild' = TRUE \/ \E a \in Auctions : wild' = ShowBreaks(p, a)
      BY DEF Enter, Done, Browse, BackFromNew, BackFromList, BackFromDetails, ReadFreed, Open
    <2>2. \A a \in Auctions : ShowBreaks(p, a) \in BOOLEAN
      BY DEF ShowBreaks
    <2> QED BY <2>1, <2>2 DEF Typed, TypeOK
  <1> QED BY <1>1, <1>2, SameGoods DEF Typed, TypeOK

\* One auction is written, and no goods move.
LEMMA OneWritten ==
  ASSUME Typed, Sides', UNCHANGED <<thing, bag>>, wild' \in BOOLEAN,
         NEW a \in Auctions, NEW m \in Offer, Sound(m, thing), offer' = [offer EXCEPT ![a] = m]
  PROVE  Typed'
  BY OfferWritten, SameGoods

LEMMA TypedFills ==
  ASSUME IInv, Typed, Sides', NEW p \in Players,
         \/ \E goods \in BOOLEAN : ChooseType(p, goods)
         \/ \E t \in Things : ChooseGoods(p, t)
         \/ \E n \in Lots : ChooseLot(p, n)
         \/ ChooseTime(p)
  PROVE  Typed'
  <1>1. Edits(p) /\ UNCHANGED <<thing, bag>>
    BY DEF ChooseType, ChooseGoods, ChooseLot, ChooseTime
  <1>2. wild' \in BOOLEAN
    BY DEF ChooseType, ChooseGoods, ChooseLot, ChooseTime, Typed, TypeOK
  <1>3. /\ editing[p] \in Auctions /\ Edited(p) = offer[editing[p]]
        /\ Edited(p) \in Offer /\ Sound(Edited(p), thing) /\ Edited(p).stage = "new"
    BY <1>1, EditedSound
  <1>4. ASSUME NEW m \in Offer, Edit(p, m), Sound(m, thing) PROVE Typed'
    BY <1>1, <1>2, <1>3, <1>4, OneWritten DEF Edit
  <1>5. PICK e \in Offer : e = Edited(p)
    BY <1>3
  <1>6. ASSUME NEW goods \in BOOLEAN, ChooseType(p, goods) PROVE Typed'
    <2>1. PICK m : m = [e EXCEPT !.goods = goods, !.name = None]
      OBVIOUS
    <2>2. m \in Offer
      BY <2>1 DEF Offer
    <2>3. m.item = e.item /\ m.name = None /\ m.stage = "new" /\ m.lot = e.lot
      BY <1>3, <1>5, <2>1 DEF Offer
    <2>4. Sound(m, thing)
      BY <1>3, <1>5, <2>3 DEF Sound
    <2> QED BY <1>4, <1>5, <1>6, <2>1, <2>2, <2>4 DEF ChooseType
  <1>7. ASSUME NEW t \in Things, ChooseGoods(p, t) PROVE Typed'
    <2>1. PICK m : m = [e EXCEPT !.lot = 1, !.name = thing[t].name, !.item = t]
      OBVIOUS
    <2>2. thing[t].name \in Names \cup {None}
      BY DEF Typed, TypeOK, Good
    <2>3. m \in Offer
      BY <2>1, <2>2 DEF Offer
    <2>4. m.item = t /\ m.name = thing[t].name /\ m.stage = "new" /\ m.lot = 1
      BY <1>3, <1>5, <2>1 DEF Offer
    <2>5. thing[t].stage # "unmade" /\ t # None
      BY <1>7, TerminalAssumption DEF ChooseGoods, Carried, Typed, BagsMade
    <2>6. Sound(m, thing)
      BY <2>4, <2>5 DEF Sound
    <2> QED BY <1>4, <1>5, <1>7, <2>1, <2>3, <2>6 DEF ChooseGoods
  <1>8. ASSUME NEW n \in Lots, ChooseLot(p, n) PROVE Typed'
    <2>1. CASE offer' = offer
      BY <1>1, <1>2, <2>1, SameGoods DEF Typed, TypeOK
    <2>2. CASE offer' # offer
      <3>1. PICK m : m = [e EXCEPT !.lot = n]
        OBVIOUS
      <3>2. Edit(p, m)
        BY <1>5, <1>8, <2>2, <3>1 DEF ChooseLot
      <3>3. n \in Nat /\ n # 0
        BY TerminalAssumption
      <3>4. m \in Offer
        BY <3>1, <3>3 DEF Offer
      <3>5. m.item = e.item /\ m.name = e.name /\ m.stage = e.stage /\ m.lot = n
            /\ m.collected = e.collected
        BY <3>1 DEF Offer
      <3>6. Sound(m, thing)
        BY <1>3, <1>5, <3>3, <3>5 DEF Sound
      <3> QED BY <1>4, <3>2, <3>4, <3>6
    <2> QED BY <2>1, <2>2
  <1>9. ASSUME ChooseTime(p) PROVE Typed'
    <2>1. PICK m : m = [e EXCEPT !.timed = TRUE]
      OBVIOUS
    <2>2. m \in Offer
      BY <2>1 DEF Offer
    <2>3. m.item = e.item /\ m.name = e.name /\ m.stage = e.stage /\ m.lot = e.lot
          /\ m.collected = e.collected
      BY <2>1 DEF Offer
    <2>4. Sound(m, thing)
      BY <1>3, <1>5, <2>3 DEF Sound
    <2> QED BY <1>4, <1>5, <1>9, <2>1, <2>2, <2>4 DEF ChooseTime
  <1> QED BY <1>6, <1>7, <1>8, <1>9

LEMMA TypedPrepare == ASSUME Typed, Sides', NEW p \in Players, Prepare(p) PROVE Typed'
  <1>1. UNCHANGED <<thing, bag, wild>>
    BY DEF Prepare
  <1>2. CASE offer' = offer
    BY <1>1, <1>2, SameGoods DEF Typed, TypeOK
  <1>3. CASE offer' # offer
    <2>1. PICK m : m = [Blank EXCEPT !.stage = "new", !.seller = p]
      OBVIOUS
    <2>2. m \in Offer
      BY <2>1, BlankSound DEF Offer
    <2>3. m.item = None /\ m.name = None /\ m.stage = "new" /\ m.lot = 1
      BY <2>1 DEF Blank
    <2>4. Spare # {} /\ offer' = [offer EXCEPT ![NewAuction] = m]
      BY <1>3, <2>1 DEF Prepare
    <2>5. NewAuction \in Auctions
      BY <2>4 DEF Spare, NewAuction
    <2>6. Sound(m, thing)
      BY <2>3 DEF Sound
    <2>7. wild' \in BOOLEAN
      BY <1>1 DEF Typed, TypeOK
    <2> QED BY <1>1, <2>2, <2>4, <2>5, <2>6, <2>7, OneWritten
  <1> QED BY <1>2, <1>3

\* A published auction is one, and its fields are in order.
LEMMA ListedSound ==
  ASSUME Typed, NEW a \in ListedIn(offer)
  PROVE  a \in Auctions /\ offer[a] \in Offer /\ Sound(offer[a], thing) /\ offer[a].stage = "listed"
  BY DEF ListedIn, Typed, TypeOK

LEMMA TypedDeals ==
  ASSUME Typed, Sides', NEW a \in Auctions,
         \/ Expire(a)
         \/ \E p \in Players : Bid(p, a) \/ Finish(p, a)
  PROVE  Typed'
  <1>1. UNCHANGED <<thing, bag>>
    BY DEF Expire, Bid, Finish
  <1>2. wild' \in BOOLEAN
    BY DEF Expire, Bid, Finish, SaveBreaks, ShowBreaks, Typed, TypeOK
  <1>3. PICK e \in Offer : e = offer[a] /\ Sound(e, thing) /\ e.stage = "listed"
    BY DEF Expire, Bid, Finish, Meant, ListedIn, Typed, TypeOK
  <1>4. ASSUME NEW m \in Offer, offer' = [offer EXCEPT ![a] = m],
               m.item = e.item, m.name = e.name, m.stage = e.stage, m.lot = e.lot,
               m.collected = e.collected
        PROVE  Typed'
    <2>1. Sound(m, thing)
      BY <1>3, <1>4 DEF Sound
    <2> QED BY <1>1, <1>2, <1>4, <2>1, OneWritten
  <1>5. ASSUME NEW p \in Players, Bid(p, a) PROVE Typed'
    <2>1. PICK m : m = [e EXCEPT !.winner = p]
      OBVIOUS
    <2>2. m \in Offer
      BY <2>1 DEF Offer
    <2>3. m.item = e.item /\ m.name = e.name /\ m.stage = e.stage /\ m.lot = e.lot
          /\ m.collected = e.collected
      BY <2>1 DEF Offer
    <2>4. offer' = [offer EXCEPT ![a] = m]
      BY <1>3, <1>5, <2>1 DEF Bid
    <2> QED BY <1>4, <2>2, <2>3, <2>4
  <1>6. ASSUME offer' = [offer EXCEPT ![a].ended = TRUE] PROVE Typed'
    <2>1. PICK m : m = [e EXCEPT !.ended = TRUE]
      OBVIOUS
    <2>2. m \in Offer
      BY <2>1 DEF Offer
    <2>3. m.item = e.item /\ m.name = e.name /\ m.stage = e.stage /\ m.lot = e.lot
          /\ m.collected = e.collected
      BY <2>1 DEF Offer
    <2>4. offer' = [offer EXCEPT ![a] = m]
      BY <1>3, <1>6, <2>1
    <2> QED BY <1>4, <2>2, <2>3, <2>4
  <1> QED BY <1>5, <1>6 DEF Expire, Finish

\* An offer is given up, and its item freed with it.
LEMMA TypedFreed ==
  ASSUME Typed, Sides', wild' \in BOOLEAN, bag' = bag, NEW a \in Auctions,
         offer' = [offer EXCEPT ![a] = Freed], thing' = FreedGoods(offer[a])
  PROVE  Typed'
  BY BlankSound, OfferWritten, ItemFreed, SameBags, NewGoods

LEMMA TypedErase == ASSUME IInv, Typed, Sides', NEW p \in Players, Erase(p) PROVE Typed'
  <1>1. wild' \in BOOLEAN
    BY DEF Erase, FreeBreaks
  <1> QED BY <1>1, EditedSound, TypedFreed DEF Erase, Edit

LEMMA TypedDelete ==
  ASSUME Typed, Sides', NEW p \in Players, NEW a \in Auctions, Delete(p, a) PROVE Typed'
  <1>1. wild' \in BOOLEAN
    BY DEF Delete, FreeBreaks, SaveBreaks
  <1> QED BY <1>1, TypedFreed DEF Delete

\* What "odbierz" leaves of an auction; what it gives is an item.
LEMMA GatheredIs ==
  ASSUME Typed, NEW a \in Auctions, NEW p \in Players, offer[a].stage = "listed"
  PROVE  /\ Gathered(p, offer[a]) \in Offer
         /\ Gathered(p, offer[a]).stage = "listed"
         /\ Gathered(p, offer[a]).lot = offer[a].lot
         /\ Delivers(p, offer[a]) => /\ offer[a].item \in Things /\ ~ offer[a].collected
                                     /\ Gathered(p, offer[a]).item = None
                                     /\ Gathered(p, offer[a]).collected
         /\ ~ Delivers(p, offer[a]) => /\ Gathered(p, offer[a]).item = offer[a].item
                                       /\ Gathered(p, offer[a]).collected = offer[a].collected
         /\ Sound(Gathered(p, offer[a]), thing)
  <1>1. PICK e \in Offer : e = offer[a] /\ Sound(e, thing) /\ e.stage = "listed"
    BY DEF Typed, TypeOK
  <1>2. CASE Delivers(p, e)
    <2>1. PICK x \in BOOLEAN : x = (e.paid \/ p = e.seller)
      OBVIOUS
    <2>2. PICK m : m = [e EXCEPT !.item = None, !.collected = TRUE, !.paid = x, !.winner = None]
      OBVIOUS
    <2>3. m = Gathered(p, e)
      BY <1>2, <2>1, <2>2 DEF Gathered
    <2>4. m \in Offer
      BY <2>2 DEF Offer
    <2>5. m.stage = "listed" /\ m.lot = e.lot /\ m.item = None /\ m.collected
      BY <1>1, <2>2 DEF Offer
    <2>6. ~ e.collected /\ e.item \in Things
      BY <1>1, <1>2, OfferFields DEF Delivers, Sound
    <2>7. Sound(m, thing)
      BY <1>1, <2>5 DEF Sound
    <2> QED BY <1>1, <1>2, <2>3, <2>4, <2>5, <2>6, <2>7
  <1>3. CASE ~ Delivers(p, e)
    <2>1. PICK m : m = [e EXCEPT !.paid = TRUE]
      OBVIOUS
    <2>2. m = Gathered(p, e)
      BY <1>3, <2>1 DEF Gathered
    <2>3. m \in Offer
      BY <2>1 DEF Offer
    <2>4. m.stage = "listed" /\ m.lot = e.lot /\ m.item = e.item /\ m.collected = e.collected
          /\ m.name = e.name
      BY <1>1, <2>1 DEF Offer
    <2>5. Sound(m, thing)
      BY <1>1, <2>4 DEF Sound
    <2> QED BY <1>1, <1>3, <2>2, <2>3, <2>4, <2>5
  <1> QED BY <1>2, <1>3, <1>1

LEMMA TypedCollect ==
  ASSUME Typed, Sides', NEW p \in Players, NEW a \in Auctions, Collect(p, a) PROVE Typed'
  <1>1. offer[a].stage = "listed" /\ thing' = thing
    BY DEF Collect, Meant, ListedIn
  <1>2. wild' \in BOOLEAN
    BY DEF Collect, SaveBreaks
  <1>3. PICK g \in Offer : g = Gathered(p, offer[a]) /\ Sound(g, thing)
    BY <1>1, GatheredIs
  <1>4. PICK m \in Offer : m = (IF Settled(g) THEN Freed ELSE g) /\ Sound(m, thing)
    BY <1>3, BlankSound
  <1>5. offer' = [offer EXCEPT ![a] = m]
    BY <1>3, <1>4 DEF Collect
  <1>6. bag' \in [Players -> Seq(Things)] /\ BagsMade'
    <2>1. CASE ~ Delivers(p, offer[a])
      BY <1>1, <2>1 DEF Collect, Typed, TypeOK, BagsMade
    <2>2. CASE Delivers(p, offer[a])
      <3>1. PICK t \in Things : t = offer[a].item /\ thing[t].stage # "unmade"
        BY <1>1, <2>2, GatheredIs, TerminalAssumption DEF Typed, Sound
      <3>2. bag' = [bag EXCEPT ![p] = Append(bag[p], t)] /\ bag \in [Players -> Seq(Things)]
        BY <2>2, <3>1 DEF Collect, Typed, TypeOK
      <3>3. /\ Append(bag[p], t) \in Seq(Things)
            /\ \A j \in DOMAIN Append(bag[p], t) :
                  Append(bag[p], t)[j] = t \/ \E i \in DOMAIN bag[p] : Append(bag[p], t)[j] = bag[p][i]
        BY <3>2, AppendedSet
      <3>4. bag' \in [Players -> Seq(Things)]
        BY <3>2, <3>3
      <3>5. ASSUME NEW q \in Players, NEW j \in DOMAIN bag'[q] PROVE thing[bag'[q][j]].stage # "unmade"
        BY <3>1, <3>2, <3>3, <3>5 DEF Typed, BagsMade
      <3> QED BY <1>1, <3>4, <3>5 DEF BagsMade
    <2> QED BY <2>1, <2>2
  <1>7. Grows /\ Made' /\ thing' \in [Things -> Good]
    BY <1>1 DEF Grows, Typed, TypeOK, Made
  <1>8. offer' \in [Auctions -> Offer] /\ \A b \in Auctions : Sound(offer'[b], thing)
    BY <1>4, <1>5, OfferWritten
  <1> QED BY <1>2, <1>6, <1>7, <1>8, NewGoods

\* A thing is made.
LEMMA OneMade ==
  ASSUME Typed, NEW g, g \in [Things -> Good],
         \A u \in Things : g[u].name = thing[u].name /\ (g[u].stage = "unmade" <=> thing[u].stage = "unmade"),
         Fresh # {}, NEW n \in Names, NEW k \in Nat,
         thing' = [g EXCEPT ![NewThing] = [name |-> n, count |-> k, stage |-> "live"]]
  PROVE  /\ thing' \in [Things -> Good] /\ Grows /\ Made'
         /\ NewThing \in Things /\ thing'[NewThing].stage # "unmade"
         /\ thing'[NewThing] = [name |-> n, count |-> k, stage |-> "live"]
         /\ \A u \in Things \ {NewThing} : thing'[u] = g[u]
  <1>1. NewThing \in Things /\ thing[NewThing].stage = "unmade"
    BY FreshIs
  <1>2. PICK x : x = [name |-> n, count |-> k, stage |-> "live"]
    OBVIOUS
  <1>3. x \in Good /\ x.name = n /\ x.stage = "live" /\ n # None
    BY <1>2, TerminalAssumption DEF Good
  <1>4. /\ thing' \in [Things -> Good] /\ thing'[NewThing] = x
        /\ \A u \in Things \ {NewThing} : thing'[u] = g[u]
    BY <1>1, <1>2, <1>3
  <1>5. Grows /\ Made'
    BY <1>1, <1>3, <1>4 DEF Grows, Made, Typed
  <1> QED BY <1>1, <1>2, <1>3, <1>4, <1>5

\* A thing goes to the end of one bag, and what is in the others is made.
LEMMA BagGets ==
  ASSUME Typed, Grows, NEW p \in Players, NEW s \in Seq(Things), NEW t \in Things,
         \A j \in DOMAIN s : \E i \in DOMAIN bag[p] : s[j] = bag[p][i],
         thing'[t].stage # "unmade"
  PROVE  /\ Append(s, t) \in Seq(Things)
         /\ \A j \in DOMAIN Append(s, t) : thing'[Append(s, t)[j]].stage # "unmade"
  <1>1. /\ Append(s, t) \in Seq(Things)
        /\ \A j \in DOMAIN Append(s, t) :
              Append(s, t)[j] = t \/ \E i \in DOMAIN s : Append(s, t)[j] = s[i]
    BY AppendedSet
  <1>2. \A i \in DOMAIN bag[p] : thing'[bag[p][i]].stage # "unmade"
    BY BagFacts DEF Grows, Typed, BagsMade
  <1> QED BY <1>1, <1>2

LEMMA TypedFind ==
  ASSUME Typed, Sides', NEW p \in Players, NEW n \in Names, NEW k \in Stack, Find(p, n, k)
  PROVE  Typed'
  <1>1. /\ Fresh # {} /\ UNCHANGED <<offer, wild>>
        /\ thing' = [thing EXCEPT ![NewThing] = [name |-> n, count |-> k, stage |-> "live"]]
        /\ bag' = [bag EXCEPT ![p] = Append(bag[p], NewThing)]
    BY DEF Find
  <1>2. k \in Nat
    BY TerminalAssumption
  <1>3. thing \in [Things -> Good] /\ bag \in [Players -> Seq(Things)]
        /\ offer \in [Auctions -> Offer] /\ wild \in BOOLEAN
        /\ \A a \in Auctions : Sound(offer[a], thing)
    BY DEF Typed, TypeOK
  <1>4. /\ thing' \in [Things -> Good] /\ Grows /\ Made'
        /\ NewThing \in Things /\ thing'[NewThing].stage # "unmade"
    BY <1>1, <1>2, <1>3, OneMade
  <1>5. \A j \in DOMAIN bag[p] : \E i \in DOMAIN bag[p] : bag[p][j] = bag[p][i]
    OBVIOUS
  <1>6. /\ Append(bag[p], NewThing) \in Seq(Things)
        /\ \A j \in DOMAIN Append(bag[p], NewThing) :
              thing'[Append(bag[p], NewThing)[j]].stage # "unmade"
    BY <1>3, <1>4, <1>5, BagGets
  <1>7. \A q \in Players : \A i \in DOMAIN bag[q] : thing'[bag[q][i]].stage # "unmade"
    BY <1>4, BagFacts DEF Grows, Typed, BagsMade
  <1>8. bag' \in [Players -> Seq(Things)] /\ BagsMade'
    BY <1>1, <1>3, <1>6, <1>7 DEF BagsMade
  <1> QED BY <1>1, <1>3, <1>4, <1>8, NewGoods

LEMMA TypedLose ==
  ASSUME Typed, Sides', NEW p \in Players, NEW t \in Things, Lose(p, t) PROVE Typed'
  <1>1. /\ t \in Carried(p) /\ UNCHANGED <<offer, wild>>
        /\ bag' = [bag EXCEPT ![p] = Without(bag[p], t)]
        /\ thing' = [thing EXCEPT ![t].stage = "freed"]
    BY DEF Lose
  <1>2. /\ Without(bag[p], t) \in Seq(Things)
        /\ \A j \in DOMAIN Without(bag[p], t) :
              \E i \in DOMAIN bag[p] : Without(bag[p], t)[j] = bag[p][i]
        /\ \E i \in DOMAIN bag[p] : bag[p][i] = t
    BY <1>1, BagWithout
  <1>3. thing' \in [Things -> Good] /\ Grows /\ Made'
    BY <1>1, <1>2, SomeFreed DEF Typed, BagsMade
  <1>4. \A q \in Players : \A i \in DOMAIN bag[q] : thing'[bag[q][i]].stage # "unmade"
    BY <1>3, BagFacts DEF Grows, Typed, BagsMade
  <1>5. bag' \in [Players -> Seq(Things)] /\ BagsMade'
    BY <1>1, <1>2, <1>4 DEF BagsMade, Typed, TypeOK
  <1> QED BY <1>1, <1>3, <1>5, NewGoods DEF Typed, TypeOK

LEMMA TypedGive ==
  ASSUME Typed, Sides', NEW p \in Players, NEW q \in Players, NEW t \in Things, Give(p, q, t)
  PROVE  Typed'
  <1>1. /\ t \in Carried(p) /\ p # q /\ UNCHANGED <<thing, offer, wild>>
        /\ bag' = [bag EXCEPT ![p] = Without(bag[p], t), ![q] = Append(@, t)]
        /\ bag \in [Players -> Seq(Things)]
    BY DEF Give, Typed, TypeOK
  <1>2. /\ Without(bag[p], t) \in Seq(Things)
        /\ \A j \in DOMAIN Without(bag[p], t) :
              \E i \in DOMAIN bag[p] : Without(bag[p], t)[j] = bag[p][i]
        /\ \E i \in DOMAIN bag[p] : bag[p][i] = t
    BY <1>1, BagWithout
  <1>3. thing' \in [Things -> Good] /\ Grows /\ Made' /\ thing'[t].stage # "unmade"
    BY <1>1, <1>2 DEF Grows, Typed, TypeOK, Made, BagsMade
  <1>4. \A r \in Players : \A i \in DOMAIN bag[r] : thing'[bag[r][i]].stage # "unmade"
    BY <1>3, BagFacts DEF Grows, Typed, BagsMade
  <1>5. \A j \in DOMAIN bag[q] : \E i \in DOMAIN bag[q] : bag[q][j] = bag[q][i]
    OBVIOUS
  <1>6. /\ Append(bag[q], t) \in Seq(Things)
        /\ \A j \in DOMAIN Append(bag[q], t) : thing'[Append(bag[q], t)[j]].stage # "unmade"
    BY <1>1, <1>3, <1>5, BagGets
  <1>7. /\ bag'[p] = Without(bag[p], t) /\ bag'[q] = Append(bag[q], t)
        /\ \A r \in Players \ {p, q} : bag'[r] = bag[r]
    BY <1>1
  <1>8. bag' \in [Players -> Seq(Things)]
    BY <1>1, <1>2, <1>6
  <1>9. ASSUME NEW r \in Players, NEW i \in DOMAIN bag'[r] PROVE thing'[bag'[r][i]].stage # "unmade"
    <2>1. CASE r = p
      <3>1. PICK j \in DOMAIN bag[p] : Without(bag[p], t)[i] = bag[p][j]
        BY <1>2, <1>7, <2>1
      <3> QED BY <1>4, <1>7, <2>1, <3>1
    <2>2. CASE r = q
      BY <1>6, <1>7, <2>2
    <2>3. CASE r \notin {p, q}
      BY <1>4, <1>7, <2>3
    <2> QED BY <2>1, <2>2, <2>3
  <1>10. BagsMade'
    BY <1>9 DEF BagsMade
  <1> QED BY <1>1, <1>3, <1>8, <1>10, NewGoods DEF Typed, TypeOK

\* What "send" takes: the bag loses the last thing of the name and gets the
\* rest of its pieces, and the thing is one piece, or freed.
Spent(t, lot) ==
    [thing EXCEPT ![t].count = 1, ![t].stage = IF lot > 1 THEN "freed" ELSE "live"]

Taken(p, n, lot, t) ==
    LET r == Take(bag, thing, p, n, lot, t)
        k == thing[t].count - lot
    IN  /\ k \in Nat
        /\ k = 0 => /\ r.goods = Spent(t, lot)
                    /\ r.bags = [bag EXCEPT ![p] = Without(bag[p], t)]
        /\ k # 0 => /\ r.goods = [Spent(t, lot) EXCEPT ![NewThing] =
                                     [name |-> n, count |-> k, stage |-> "live"]]
                    /\ r.bags = [bag EXCEPT ![p] = Append(Without(bag[p], t), NewThing)]

SpentIs(t, lot) ==
    /\ Spent(t, lot) \in [Things -> Good]
    /\ \A u \in Things :
          /\ Spent(t, lot)[u].name = thing[u].name
          /\ Spent(t, lot)[u].stage = "unmade" <=> thing[u].stage = "unmade"
    /\ \A u \in Things \ {t} : Spent(t, lot)[u] = thing[u]
    /\ Spent(t, lot)[t].count = 1
    /\ Spent(t, lot)[t].stage = IF lot > 1 THEN "freed" ELSE "live"

LEMMA TakenIs ==
  ASSUME Typed, NEW p \in Players, NEW n, NEW lot \in Nat, lot # 0, Has(p, n),
         NEW t, t = Latest(p, n), lot <= thing[t].count
  PROVE  Taken(p, n, lot, t) /\ SpentIs(t, lot)
  <1>1. t \in Things /\ thing[t].stage # "unmade" /\ thing \in [Things -> Good]
    BY LatestIs DEF Typed, TypeOK, BagsMade
  <1>2. thing[t] \in Good /\ thing[t].count \in Nat
    BY <1>1 DEF Good
  <1>3. PICK st : st = IF lot > 1 THEN "freed" ELSE "live"
    OBVIOUS
  <1>4. PICK g : g = Spent(t, lot) /\ g = [thing EXCEPT ![t].count = 1, ![t].stage = st]
    BY <1>3 DEF Spent
  <1>5. PICK k \in Nat : k = thing[t].count - lot
    BY <1>2
  <1>6. PICK x : x = [[thing[t] EXCEPT !.count = 1] EXCEPT !.stage = st]
    OBVIOUS
  <1>7. x \in Good /\ x.name = thing[t].name /\ x.count = 1 /\ x.stage = st
    BY <1>2, <1>3, <1>6 DEF Good
  <1>8. g = [thing EXCEPT ![t] = x]
    BY <1>1, <1>4, <1>6
  <1>9. /\ g \in [Things -> Good] /\ g[t] = x
        /\ \A u \in Things \ {t} : g[u] = thing[u]
    BY <1>1, <1>7, <1>8
  <1>12. PICK r : r = Take(bag, thing, p, n, lot, t)
    OBVIOUS
  <1>10. /\ k = 0 => r.goods = g /\ r.bags = [bag EXCEPT ![p] = Without(bag[p], t)]
         /\ k # 0 => /\ r.goods = [g EXCEPT ![NewThing] =
                                          [name |-> n, count |-> k, stage |-> "live"]]
                     /\ r.bags = [bag EXCEPT ![p] = Append(Without(bag[p], t), NewThing)]
    BY <1>4, <1>5, <1>12 DEF Take, Spent
  <1>11. \A u \in Things : /\ g[u].name = thing[u].name
                           /\ g[u].stage = "unmade" <=> thing[u].stage = "unmade"
    BY <1>1, <1>3, <1>7, <1>9
  <1> QED BY <1>3, <1>4, <1>5, <1>7, <1>9, <1>10, <1>11, <1>12 DEF Taken, SpentIs

LEMMA TypedSend == ASSUME IInv, Typed, Sides', NEW p \in Players, Send(p) PROVE Typed'
  <1>1. Edits(p)
    BY DEF Send
  <1>2. PICK m \in Offer : /\ m = Edited(p) /\ Sound(m, thing) /\ m.stage = "new"
                           /\ editing[p] \in Auctions /\ m = offer[editing[p]]
    BY <1>1, EditedSound
  <1>3. PICK t : t = Latest(p, m.name)
    OBVIOUS
  <1>4. PICK r : r = Take(bag, thing, p, m.name, m.lot, t)
    OBVIOUS
  <1>5. /\ Has(p, m.name) /\ m.lot <= thing[t].count /\ m.lot \in Nat /\ m.lot # 0
        /\ m.goods /\ (m.lot < thing[t].count => Fresh # {})
        /\ bag' = r.bags /\ thing' = r.goods
        /\ Edit(p, [m EXCEPT !.stage = "listed"])
        /\ wild' = (SaveBreaks(offer, thing) \/ thing[m.item].stage = "freed")
    BY <1>2, <1>3, <1>4, OfferFields DEF Send, Sound
  <1>6. /\ t \in Things /\ m.name # None /\ \E i \in DOMAIN bag[p] : bag[p][i] = t
        /\ t \in Carried(p)
    BY <1>3, <1>5, LatestIs, BagFacts
  <1>7. wild' \in BOOLEAN
    BY <1>5 DEF SaveBreaks
  <1>8. offer' \in [Auctions -> Offer] /\ \A a \in Auctions : Sound(offer'[a], thing)
    <2>1. PICK e : e = [m EXCEPT !.stage = "listed"]
      OBVIOUS
    <2>2. e \in Offer
      BY <2>1 DEF Offer
    <2>3. e.item = m.item /\ e.name = m.name /\ e.stage = "listed" /\ e.lot = m.lot
      BY <2>1 DEF Offer
    <2>4. Sound(e, thing)
      BY <1>2, <1>6, <2>3 DEF Sound
    <2> QED BY <1>2, <1>5, <2>1, <2>2, <2>4, OfferWritten DEF Edit
  <1>9. PICK g : g = Spent(t, m.lot)
    OBVIOUS
  <1>10. PICK k : k = thing[t].count - m.lot
    OBVIOUS
  <1>11. /\ k \in Nat
         /\ k = 0 => r.goods = g /\ r.bags = [bag EXCEPT ![p] = Without(bag[p], t)]
         /\ k # 0 => /\ r.goods = [g EXCEPT ![NewThing] =
                                      [name |-> m.name, count |-> k, stage |-> "live"]]
                     /\ r.bags = [bag EXCEPT ![p] = Append(Without(bag[p], t), NewThing)]
         /\ g \in [Things -> Good]
         /\ \A u \in Things : /\ g[u].name = thing[u].name
                              /\ g[u].stage = "unmade" <=> thing[u].stage = "unmade"
    <2>1. Taken(p, m.name, m.lot, t) /\ SpentIs(t, m.lot)
      BY <1>3, <1>5, TakenIs
    <2> QED BY <1>4, <1>9, <1>10, <2>1 DEF Taken, SpentIs
  <1>12. /\ Without(bag[p], t) \in Seq(Things)
         /\ \A j \in DOMAIN Without(bag[p], t) :
               \E i \in DOMAIN bag[p] : Without(bag[p], t)[j] = bag[p][i]
    BY <1>6, BagWithout
  <1>13. bag \in [Players -> Seq(Things)]
    BY DEF Typed, TypeOK
  <1>14. CASE k = 0
    <2>1. /\ thing' = g /\ bag' = [bag EXCEPT ![p] = Without(bag[p], t)]
      BY <1>5, <1>11, <1>14
    <2>2. thing' \in [Things -> Good] /\ Grows /\ Made'
      BY <1>11, <2>1 DEF Grows, Made, Typed
    <2>3. \A q \in Players : \A i \in DOMAIN bag[q] : thing'[bag[q][i]].stage # "unmade"
      BY <2>2, BagFacts DEF Grows, Typed, BagsMade
    <2>4. bag' \in [Players -> Seq(Things)] /\ BagsMade'
      BY <1>12, <1>13, <2>1, <2>3 DEF BagsMade
    <2> QED BY <1>7, <1>8, <2>2, <2>4, NewGoods
  <1>15. CASE k # 0
    <2>1. /\ thing' = [g EXCEPT ![NewThing] = [name |-> m.name, count |-> k, stage |-> "live"]]
          /\ bag' = [bag EXCEPT ![p] = Append(Without(bag[p], t), NewThing)]
      BY <1>5, <1>11, <1>15
    <2>2. Fresh # {} /\ m.name \in Names
      <3>1. thing[t].count \in Nat
        BY <1>6 DEF Typed, TypeOK, Good
      <3> QED BY <1>2, <1>5, <1>6, <1>10, <1>15, <3>1, OfferFields
    <2>3. /\ thing' \in [Things -> Good] /\ Grows /\ Made'
          /\ NewThing \in Things /\ thing'[NewThing].stage # "unmade"
      BY <1>11, <2>1, <2>2, OneMade
    <2>4. PICK w \in Seq(Things) : w = Without(bag[p], t)
      BY <1>12
    <2>5. /\ Append(w, NewThing) \in Seq(Things)
          /\ \A j \in DOMAIN Append(w, NewThing) : thing'[Append(w, NewThing)[j]].stage # "unmade"
      BY <1>12, <2>3, <2>4, BagGets
    <2>6. \A q \in Players : \A i \in DOMAIN bag[q] : thing'[bag[q][i]].stage # "unmade"
      BY <2>3, BagFacts DEF Grows, Typed, BagsMade
    <2>7. bag' \in [Players -> Seq(Things)] /\ BagsMade'
      BY <1>13, <2>1, <2>4, <2>5, <2>6 DEF BagsMade
    <2> QED BY <1>7, <1>8, <2>3, <2>7, NewGoods
  <1> QED BY <1>14, <1>15

LEMMA AstrayStep == ASSUME IInv, Typed, [Next]_vars PROVE astray' \subseteq Things
  <1>1. astray \subseteq Things
    BY DEF Typed, TypeOK
  <1>2. CASE \E p \in Players : Send(p)
    <2>1. PICK p \in Players : Send(p)
      BY <1>2
    <2>2. PICK m \in Offer : m = Edited(p) /\ Sound(m, thing) /\ m.stage = "new"
      BY <2>1, EditedSound DEF Send
    <2>3. Has(p, m.name) /\ astray' \subseteq astray \cup {m.item}
      BY <2>1, <2>2 DEF Send
    <2>4. m.item \in Things
      BY <2>2, <2>3, LatestIs, OfferFields DEF Sound
    <2> QED BY <1>1, <2>3, <2>4
  <1>3. CASE ~ \E p \in Players : Send(p)
    <2>1. ASSUME NEW p \in Players, Command(p) PROVE astray' = astray
      <3>1. CASE Enter(p) \/ Done(p) \/ Prepare(p) \/ Browse(p) \/ BackFromNew(p)
                   \/ BackFromList(p) \/ BackFromDetails(p) \/ ReadFreed(p) \/ Erase(p)
        BY <3>1 DEF Enter, Done, Prepare, Browse, BackFromNew, BackFromList, BackFromDetails,
                    ReadFreed, Erase
      <3>2. CASE \/ \E goods \in BOOLEAN : ChooseType(p, goods)
                 \/ \E t \in Things : ChooseGoods(p, t)
                 \/ \E n \in Lots : ChooseLot(p, n)
                 \/ ChooseTime(p)
        BY <3>2 DEF ChooseType, ChooseGoods, ChooseLot, ChooseTime
      <3>3. CASE \E a \in Auctions :
                   Open(p, a) \/ Bid(p, a) \/ Finish(p, a) \/ Delete(p, a) \/ Collect(p, a)
        BY <3>3 DEF Open, Bid, Finish, Delete, Collect
      <3> QED BY <1>3, <2>1, <3>1, <3>2, <3>3 DEF Command
    <2>2. ASSUME NEW p \in Players, Elsewhere(p) PROVE astray' = astray
      BY <2>2 DEF Elsewhere, Find, Lose, Give
    <2>3. ASSUME NEW a \in Auctions, Expire(a) PROVE astray' = astray
      BY <2>3 DEF Expire
    <2>4. astray' = astray
      BY <2>1, <2>2, <2>3 DEF Next, vars
    <2> QED BY <1>1, <2>4
  <1> QED BY <1>2, <1>3

LEMMA TypedStep == IInv /\ IInv' /\ Typed /\ [Next]_vars => Typed'
  <1> SUFFICES ASSUME IInv, IInv', Typed, [Next]_vars PROVE Typed'
    OBVIOUS
  <1>1. Sides'
    BY AstrayStep DEF IInv, Sides
  <1>2. ASSUME NEW p \in Players, Command(p) PROVE Typed'
    <2>1. CASE \E a \in Auctions : Bid(p, a) \/ Finish(p, a) \/ Delete(p, a) \/ Collect(p, a)
      BY <1>1, <2>1, TypedDeals, TypedDelete, TypedCollect
    <2> QED BY <1>1, <1>2, <2>1, TypedWalks, TypedFills, TypedPrepare, TypedSend, TypedErase
            DEF Command
  <1>3. ASSUME NEW p \in Players, Elsewhere(p) PROVE Typed'
    BY <1>1, <1>3, TypedFind, TypedLose, TypedGive DEF Elsewhere
  <1>4. ASSUME NEW a \in Auctions, Expire(a) PROVE Typed'
    BY <1>1, <1>4, TypedDeals
  <1>5. CASE UNCHANGED vars
    BY <1>1, <1>5, SameGoods DEF vars, Typed, TypeOK
  <1> QED BY <1>2, <1>3, <1>4, <1>5 DEF Next

LEMMA InitTyped == Init => Typed
  <1> SUFFICES ASSUME Init PROVE Typed
    OBVIOUS
  <1>1. Unmade \in Good /\ Unmade.stage = "unmade" /\ Unmade.name = None
    BY DEF Unmade, Good
  <1>2. \A t \in Things : thing[t] = Unmade
    BY DEF Init
  <1>3. \A p \in Players : bag[p] \in Seq(Things) /\ DOMAIN bag[p] = {}
    BY EmptySeq DEF Init
  <1>4. TypeOK
    BY <1>1, <1>3, BlankSound DEF Init, TypeOK, Screens
  <1>5. \A a \in Auctions : Sound(offer[a], thing)
    BY BlankSound DEF Init
  <1> QED BY <1>1, <1>2, <1>3, <1>4, <1>5 DEF Typed, Made, BagsMade

\* Goods, bags, auctions and screens have their types, with stacks of any size
\* and any number of things of one name.
THEOREM TerminalTypes == Spec => []TypeOK
  <1>1. Typed => TypeOK
    BY DEF Typed
  <1> QED BY <1>1, InitInv, InitTyped, InvStep, TypedStep, PTL DEF Spec

-----------------------------------------------------------------------------
(* The goods.  All that is said of things is said of those not astray.     *)

\* In nobody's hands
InNo(b, t) == \A p \in Players : \A i \in DOMAIN b[p] : b[p][i] # t

\* One thing, one place in one bag
Apart(b, X) ==
    \A p, q \in Players : \A i \in DOMAIN b[p], j \in DOMAIN b[q] :
        b[p][i] = b[q][j] /\ b[p][i] \in X => p = q /\ i = j

\* What a bag holds lives.
Lively(b, g, X) == \A t \in X : g[t].stage = "live" \/ InNo(b, t)

\* The item of a published auction lives, in no bag and in no other auction.
Kept(o, g, b, X) ==
    \A a \in Auctions : o[a].stage = "listed" /\ o[a].item \in X =>
        /\ g[o[a].item].stage = "live" /\ InNo(b, o[a].item)
        /\ \A c \in Auctions : c # a /\ o[c].stage = "listed" => o[c].item # o[a].item

\* Every bag; a thing at the end of one; a thing out of one
Bags == [Players -> Seq(Things)]
Puts(b, p, t) == [b EXCEPT ![p] = Append(b[p], t)]
Drops(b, p, t) == [b EXCEPT ![p] = Without(b[p], t)]

Fine(o, g, b, X) == Lively(b, g, X) /\ Apart(b, X) /\ Kept(o, g, b, X)

Sane == Things \ astray
Goods == Fine(offer, thing, bag, Sane)

Held == wild \/ Goods

LEMMA GoodsHeld == Typed /\ Held => HeldItem
  <1> SUFFICES ASSUME Typed, Held, ~ wild, NEW a \in ListedIn(offer), ~ offer[a].collected,
                      offer[a].item \notin astray
               PROVE  /\ offer[a].item # None /\ thing[offer[a].item].stage = "live"
                      /\ \A p \in Players : offer[a].item \notin Carried(p)
                      /\ \A b \in ListedIn(offer) \ {a} : offer[b].item # offer[a].item
    BY DEF HeldItem
  <1>1. a \in Auctions /\ offer[a].stage = "listed" /\ offer[a].item # None
    BY DEF ListedIn, Typed, Sound
  <1>2. offer[a].item \in Sane
    BY <1>1, OfferFields DEF Typed, TypeOK, Sane
  <1>3. /\ thing[offer[a].item].stage = "live" /\ InNo(bag, offer[a].item)
        /\ \A b \in Auctions : b # a /\ offer[b].stage = "listed" => offer[b].item # offer[a].item
    BY <1>1, <1>2 DEF Held, Goods, Fine, Kept
  <1> QED BY <1>1, <1>3 DEF InNo, Carried, ListedIn

\* A thing gets to the end of a bag.
LEMMA Gains ==
  ASSUME NEW b \in Bags, NEW p \in Players, NEW t \in Things, NEW X,
         Apart(b, X), t \in X => InNo(b, t)
  PROVE  /\ Apart(Puts(b, p, t), X)
         /\ \A u : u # t /\ InNo(b, u) => InNo(Puts(b, p, t), u)
  <1>0. PICK c : c = Puts(b, p, t) /\ c = [b EXCEPT ![p] = Append(b[p], t)]
    BY DEF Puts
  <1>1. PICK s : s = Append(b[p], t)
    OBVIOUS
  <1>2. PICK n \in Nat : n = Len(b[p])
    BY LenProperties DEF Bags
  <1>3. /\ s \in Seq(Things) /\ DOMAIN b[p] = 1 .. n /\ DOMAIN s = 1 .. n + 1
        /\ s[n + 1] = t /\ \A i \in 1 .. n : s[i] = b[p][i]
    <2>1. b[p] \in Seq(Things)
      BY DEF Bags
    <2> QED BY <1>1, <1>2, <2>1, AppendProperties, LenProperties
  <1>4. c[p] = s /\ \A q \in Players \ {p} : c[q] = b[q]
    BY <1>0, <1>1 DEF Bags
  <1> DEFINE Old(q, i) == i \in DOMAIN b[q] /\ c[q][i] = b[q][i]
             New(q, i) == q = p /\ i = n + 1 /\ c[q][i] = t
  <1>5. ASSUME NEW q \in Players, NEW i \in DOMAIN c[q] PROVE Old(q, i) \/ New(q, i)
    <2>1. CASE q = p
      <3>1. i \in 1 .. n \/ i = n + 1
        BY <1>3, <1>4, <2>1
      <3> QED BY <1>3, <1>4, <2>1, <3>1
    <2>2. CASE q # p
      BY <1>4, <2>2
    <2> QED BY <2>1, <2>2
  <1> HIDE DEF Old, New
  <1>7. ASSUME NEW q \in Players, NEW r \in Players, NEW i \in DOMAIN c[q], NEW j \in DOMAIN c[r],
               c[q][i] = c[r][j], c[q][i] \in X
        PROVE  q = r /\ i = j
    <2>1. CASE Old(q, i) /\ Old(r, j)
      BY <1>7, <2>1 DEF Old, Apart
    <2>2. CASE New(q, i) /\ New(r, j)
      BY <2>2 DEF New
    <2>3. CASE New(q, i) /\ Old(r, j)
      BY <1>7, <2>3 DEF Old, New, InNo
    <2>4. CASE Old(q, i) /\ New(r, j)
      BY <1>7, <2>4 DEF Old, New, InNo
    <2> QED BY <1>5, <2>1, <2>2, <2>3, <2>4
  <1>8. ASSUME NEW u, u # t, InNo(b, u), NEW q \in Players, NEW i \in DOMAIN c[q] PROVE c[q][i] # u
    BY <1>5, <1>8 DEF Old, New, InNo
  <1>9. Apart(c, X)
    BY <1>7 DEF Apart
  <1>10. \A u : u # t /\ InNo(b, u) => InNo(c, u)
    BY <1>8 DEF InNo
  <1> QED BY <1>0, <1>9, <1>10

\* A thing leaves the place of it that is found first.
LEMMA Loses ==
  ASSUME NEW b \in Bags, NEW p \in Players, NEW t, NEW X, Apart(b, X),
         \E i \in DOMAIN b[p] : b[p][i] = t
  PROVE  /\ Drops(b, p, t) \in Bags /\ Apart(Drops(b, p, t), X)
         /\ \A u : InNo(b, u) => InNo(Drops(b, p, t), u)
         /\ t \in X => InNo(Drops(b, p, t), t)
  <1>0. PICK c : c = Drops(b, p, t) /\ c = [b EXCEPT ![p] = Without(b[p], t)]
    BY DEF Drops
  <1>1. PICK w : w = Without(b[p], t)
    OBVIOUS
  <1>2. b[p] \in Seq(Things)
    BY DEF Bags
  <1>3. PICK n \in Nat : n = Len(b[p])
    BY <1>2, LenProperties
  <1>4. PICK k \in 1 .. n :
           /\ b[p][k] = t /\ w \in Seq(Things) /\ DOMAIN w = 1 .. n - 1 /\ DOMAIN b[p] = 1 .. n
           /\ \A j \in 1 .. n - 1 : w[j] = IF j < k THEN b[p][j] ELSE b[p][j + 1]
    <2>1. PICK s \in Seq(Things) : s = b[p] /\ \E j \in DOMAIN s : s[j] = t
      BY <1>2
    <2>2. \E k \in 1 .. Len(s) :
             /\ s[k] = t
             /\ Without(s, t) \in Seq(Things)
             /\ DOMAIN Without(s, t) = 1 .. Len(s) - 1
             /\ \A j \in 1 .. Len(s) - 1 :
                   Without(s, t)[j] = IF j < k THEN s[j] ELSE s[j + 1]
      <3>1. \E j \in DOMAIN s : s[j] = t
        BY <2>1
      <3> QED BY ONLY <3>1, Unlinked, s \in Seq(Things)
    <2>3. w = Without(s, t) /\ n = Len(s) /\ DOMAIN s = 1 .. n
      BY <1>1, <1>3, <2>1, LenProperties
    <2> QED BY <2>1, <2>2, <2>3
  <1>5. c[p] = w /\ \A q \in Players \ {p} : c[q] = b[q]
    BY <1>0, <1>1 DEF Bags
  <1>6. c \in Bags
    BY <1>0, <1>1, <1>4 DEF Bags
  <1> DEFINE from(q, i) == IF q = p /\ ~ (i < k) THEN i + 1 ELSE i
  <1>7. ASSUME NEW q \in Players, NEW i \in DOMAIN c[q]
        PROVE  from(q, i) \in DOMAIN b[q] /\ c[q][i] = b[q][from(q, i)] /\ (q = p => from(q, i) # k)
    <2>1. CASE q = p
      <3>1. i \in 1 .. n - 1
        BY <1>4, <1>5, <2>1
      <3>2. CASE i < k
        BY <1>4, <1>5, <2>1, <3>1, <3>2
      <3>3. CASE ~ (i < k)
        BY <1>4, <1>5, <2>1, <3>1, <3>3
      <3> QED BY <3>2, <3>3
    <2>2. CASE q # p
      BY <1>5, <2>2
    <2> QED BY <2>1, <2>2
  <1>8. ASSUME NEW q \in Players, NEW i \in DOMAIN c[q], NEW j \in DOMAIN c[q], from(q, i) = from(q, j)
        PROVE  i = j
    <2>1. CASE q = p
      <3>1. i \in 1 .. n - 1 /\ j \in 1 .. n - 1
        BY <1>4, <1>5, <2>1
      <3> QED BY <1>8, <2>1, <3>1
    <2>2. CASE q # p
      BY <1>8, <2>2
    <2> QED BY <2>1, <2>2
  <1> HIDE DEF from
  <1>9. ASSUME NEW q \in Players, NEW r \in Players, NEW i \in DOMAIN c[q], NEW j \in DOMAIN c[r],
               c[q][i] = c[r][j], c[q][i] \in X
        PROVE  q = r /\ i = j
    <2>1. q = r /\ from(q, i) = from(r, j)
      BY <1>7, <1>9 DEF Apart
    <2> QED BY <1>8, <2>1
  <1>10. ASSUME NEW u, InNo(b, u), NEW q \in Players, NEW i \in DOMAIN c[q] PROVE c[q][i] # u
    BY <1>7, <1>10 DEF InNo
  <1>11. ASSUME t \in X, NEW q \in Players, NEW i \in DOMAIN c[q] PROVE c[q][i] # t
    <2>1. SUFFICES ASSUME c[q][i] = t PROVE FALSE
      OBVIOUS
    <2>2. from(q, i) \in DOMAIN b[q] /\ b[q][from(q, i)] = t /\ (q = p => from(q, i) # k)
      BY <1>7, <2>1
    <2>3. k \in DOMAIN b[p] /\ b[p][k] = t
      BY <1>4
    <2>4. q = p /\ from(q, i) = k
      BY <1>11, <2>2, <2>3 DEF Apart
    <2> QED BY <2>2, <2>4
  <1>12. Apart(c, X)
    BY <1>9 DEF Apart
  <1>13. \A u : InNo(b, u) => InNo(c, u)
    BY <1>10 DEF InNo
  <1>14. t \in X => InNo(c, t)
    BY <1>11 DEF InNo
  <1> QED BY <1>0, <1>6, <1>12, <1>13, <1>14

LEMMA HeldSame == ASSUME Goods, UNCHANGED <<thing, bag, offer, astray>> PROVE Goods'
  BY DEF Goods, Fine, Lively, Apart, Kept, InNo, Sane

LEMMA SaneThings == Sane \subseteq Things /\ None \notin Sane
  BY TerminalAssumption DEF Sane

\* One auction is written, none is published, and no goods move.
LEMMA HeldWritten ==
  ASSUME Typed, Goods, UNCHANGED <<thing, bag, astray>>, NEW a \in Auctions, NEW m,
         offer' = [offer EXCEPT ![a] = m],
         m.stage = "listed" => /\ offer[a].stage = "listed"
                               /\ m.item = offer[a].item \/ m.item = None
  PROVE  Goods'
  <1>1. offer'[a] = m /\ \A b \in Auctions : b # a => offer'[b] = offer[b]
    BY DEF Typed, TypeOK
  <1>2. Lively(bag, thing, Sane) /\ Apart(bag, Sane) /\ Kept(offer, thing, bag, Sane)
    BY DEF Goods, Fine
  <1>3. Kept(offer', thing, bag, Sane)
    BY <1>1, <1>2, SaneThings DEF Kept
  <1> QED BY <1>2, <1>3 DEF Goods, Fine, Sane

LEMMA HeldFills ==
  ASSUME IInv, Typed, Goods, NEW p \in Players,
         \/ \E goods \in BOOLEAN : ChooseType(p, goods)
         \/ \E t \in Things : ChooseGoods(p, t)
         \/ \E n \in Lots : ChooseLot(p, n)
         \/ ChooseTime(p)
  PROVE  Goods'
  <1>1. Edits(p) /\ UNCHANGED <<thing, bag, astray>>
    BY DEF ChooseType, ChooseGoods, ChooseLot, ChooseTime
  <1>2. /\ editing[p] \in Auctions /\ Edited(p) = offer[editing[p]]
        /\ Edited(p) \in Offer /\ Edited(p).stage = "new"
    BY <1>1, EditedSound
  <1>3. ASSUME NEW m, Edit(p, m), m.stage = "new" PROVE Goods'
    BY <1>1, <1>2, <1>3, HeldWritten DEF Edit
  <1>4. offer' = offer \/ \E m : Edit(p, m) /\ m.stage = "new"
    <2>1. \A goods : [Edited(p) EXCEPT !.goods = goods, !.name = None].stage = "new"
      BY <1>2 DEF Offer
    <2>2. \A t, n : [Edited(p) EXCEPT !.lot = 1, !.name = n, !.item = t].stage = "new"
      BY <1>2 DEF Offer
    <2>3. \A n : [Edited(p) EXCEPT !.lot = n].stage = "new"
      BY <1>2 DEF Offer
    <2>4. [Edited(p) EXCEPT !.timed = TRUE].stage = "new"
      BY <1>2 DEF Offer
    <2> QED BY <2>1, <2>2, <2>3, <2>4 DEF ChooseType, ChooseGoods, ChooseLot, ChooseTime
  <1> QED BY <1>1, <1>3, <1>4, HeldSame

LEMMA HeldPrepare == ASSUME Typed, Goods, NEW p \in Players, Prepare(p) PROVE Goods'
  <1>1. UNCHANGED <<thing, bag, astray>>
    BY DEF Prepare
  <1>2. CASE offer' # offer
    <2>1. PICK m : m = [Blank EXCEPT !.stage = "new", !.seller = p]
      OBVIOUS
    <2>2. m.stage = "new"
      BY <2>1 DEF Blank
    <2>3. Spare # {} /\ offer' = [offer EXCEPT ![NewAuction] = m]
      BY <1>2, <2>1 DEF Prepare
    <2>4. NewAuction \in Auctions
      BY <2>3 DEF Spare, NewAuction
    <2> QED BY <1>1, <2>2, <2>3, <2>4, HeldWritten
  <1> QED BY <1>1, <1>2, HeldSame

LEMMA HeldDeals ==
  ASSUME Typed, Goods, NEW a \in Auctions,
         \/ Expire(a)
         \/ \E p \in Players : Bid(p, a) \/ Finish(p, a)
  PROVE  Goods'
  <1>1. UNCHANGED <<thing, bag, astray>>
    BY DEF Expire, Bid, Finish
  <1>2. PICK e \in Offer : e = offer[a] /\ e.stage = "listed"
    BY DEF Expire, Bid, Finish, Meant, ListedIn, Typed, TypeOK
  <1>3. ASSUME NEW p \in Players, Bid(p, a) PROVE Goods'
    <2>1. PICK m : m = [e EXCEPT !.winner = p]
      OBVIOUS
    <2>2. m.item = e.item /\ offer' = [offer EXCEPT ![a] = m]
      BY <1>2, <1>3, <2>1 DEF Bid, Offer
    <2> QED BY <1>1, <1>2, <2>2, HeldWritten
  <1>4. ASSUME offer' = [offer EXCEPT ![a].ended = TRUE] PROVE Goods'
    <2>1. PICK m : m = [e EXCEPT !.ended = TRUE]
      OBVIOUS
    <2>2. m.item = e.item /\ offer' = [offer EXCEPT ![a] = m]
      BY <1>2, <1>4, <2>1 DEF Offer
    <2> QED BY <1>1, <1>2, <2>2, HeldWritten
  <1> QED BY <1>3, <1>4 DEF Expire, Finish

\* An offer is given up, with an item nobody needs.
LEMMA HeldFreed ==
  ASSUME Typed, Goods, UNCHANGED <<bag, astray>>, NEW a \in Auctions, ~ FreeBreaks(a),
         offer' = [offer EXCEPT ![a] = Freed], thing' = FreedGoods(offer[a])
  PROVE  Goods'
  <1>1. /\ offer'[a] = Freed /\ Freed.stage = "freed"
        /\ \A b \in Auctions : b # a => offer'[b] = offer[b]
    BY BlankSound DEF Typed, TypeOK
  <1>2. offer[a] \in Offer /\ Sound(offer[a], thing) /\ thing \in [Things -> Good]
    BY DEF Typed, TypeOK
  <1>3. PICK t \in Things \cup {None} : t = offer[a].item
    BY <1>2, OfferFields
  <1>4. CASE t = None
    <2>1. thing' = thing
      BY <1>3, <1>4 DEF FreedGoods
    <2> QED BY <1>1, <2>1, HeldWritten
  <1>5. CASE t # None
    <2>1. /\ t \in Things /\ thing' = [thing EXCEPT ![t].stage = "freed"]
          /\ InNo(bag, t) /\ \A b \in ListedIn(offer) \ {a} : offer[b].item # t
      BY <1>3, <1>5, BagFacts DEF FreedGoods, FreeBreaks, InNo
    <2>2. \A u \in Things \ {t} : thing'[u] = thing[u]
      BY <1>2, <2>1
    <2>3. Lively(bag, thing, Sane) /\ Apart(bag, Sane) /\ Kept(offer, thing, bag, Sane)
      BY DEF Goods, Fine
    <2>4. Lively(bag, thing', Sane)
      BY <2>1, <2>2, <2>3, SaneThings DEF Lively
    <2>5. ASSUME NEW b \in Auctions, offer'[b].stage = "listed", offer'[b].item \in Sane
          PROVE  b # a /\ offer'[b] = offer[b] /\ offer[b].item \in Things \ {t}
      <3>1. b # a /\ offer'[b] = offer[b]
        BY <1>1, <2>5
      <3> QED BY <2>1, <2>5, <3>1, SaneThings DEF ListedIn
    <2>6. Kept(offer', thing', bag, Sane)
      BY <1>1, <2>2, <2>3, <2>5 DEF Kept
    <2> QED BY <2>3, <2>4, <2>6 DEF Goods, Fine, Sane
  <1> QED BY <1>4, <1>5

LEMMA HeldCollect ==
  ASSUME Typed, Goods, NEW p \in Players, NEW a \in Auctions, Collect(p, a) PROVE Goods'
  <1>1. offer[a].stage = "listed" /\ thing' = thing /\ astray' = astray
    BY DEF Collect, Meant, ListedIn
  <1>2. PICK g \in Offer :
           /\ g = Gathered(p, offer[a])
           /\ Delivers(p, offer[a]) => offer[a].item \in Things /\ g.item = None
           /\ ~ Delivers(p, offer[a]) => g.item = offer[a].item
    BY <1>1, GatheredIs
  <1>3. PICK m \in Offer : m = (IF Settled(g) THEN Freed ELSE g)
    BY <1>2, BlankSound
  <1>4. /\ offer' = [offer EXCEPT ![a] = m] /\ offer'[a] = m
        /\ \A b \in Auctions : b # a => offer'[b] = offer[b]
    BY <1>2, <1>3 DEF Collect, Typed, TypeOK
  <1>5. m.stage = "listed" => m.item = g.item
    BY <1>3, BlankSound
  <1>6. CASE ~ Delivers(p, offer[a])
    <2>1. bag' = bag
      BY <1>6 DEF Collect
    <2> QED BY <1>1, <1>2, <1>4, <1>5, <1>6, <2>1, HeldWritten
  <1>7. CASE Delivers(p, offer[a])
    <2>1. PICK t \in Things : t = offer[a].item
      BY <1>2, <1>7
    <2>2. bag' = [bag EXCEPT ![p] = Append(bag[p], t)] /\ bag \in [Players -> Seq(Things)]
      BY <1>7, <2>1 DEF Collect, Typed, TypeOK
    <2>3. Lively(bag, thing, Sane) /\ Apart(bag, Sane) /\ Kept(offer, thing, bag, Sane)
      BY DEF Goods, Fine
    <2>4. t \in Sane => /\ thing[t].stage = "live" /\ InNo(bag, t)
                        /\ \A b \in Auctions : b # a /\ offer[b].stage = "listed" => offer[b].item # t
      BY <1>1, <2>1, <2>3 DEF Kept
    <2>5. Apart(bag', Sane) /\ \A u : u # t /\ InNo(bag, u) => InNo(bag', u)
      <3>1. bag \in Bags /\ bag' = Puts(bag, p, t) /\ (t \in Sane => InNo(bag, t))
        BY <2>2, <2>4 DEF Bags, Puts
      <3> QED BY <2>3, <3>1, Gains
    <2>6. Lively(bag', thing, Sane)
      BY <2>3, <2>4, <2>5 DEF Lively
    <2>7. ASSUME NEW b \in Auctions, offer'[b].stage = "listed", offer'[b].item \in Sane
          PROVE  b # a /\ offer'[b] = offer[b] /\ offer[b].item # t
      <3>1. b # a /\ offer'[b] = offer[b]
        BY <1>2, <1>4, <1>5, <1>7, <2>7, SaneThings
      <3> QED BY <2>4, <2>7, <3>1
    <2>8. Kept(offer', thing, bag', Sane)
      <3>1. ASSUME NEW b \in Auctions, offer'[b].stage = "listed", offer'[b].item \in Sane
            PROVE  /\ thing[offer'[b].item].stage = "live" /\ InNo(bag', offer'[b].item)
                   /\ \A c \in Auctions : c # b /\ offer'[c].stage = "listed"
                                             => offer'[c].item # offer'[b].item
        <4>1. b # a /\ offer'[b] = offer[b] /\ offer[b].item # t
          BY <2>7, <3>1
        <4>2. thing[offer[b].item].stage = "live" /\ InNo(bag', offer[b].item)
          BY <2>3, <2>5, <3>1, <4>1 DEF Kept
        <4>3. ASSUME NEW c \in Auctions, c # b, offer'[c].stage = "listed"
              PROVE  offer'[c].item # offer[b].item
          <5>1. CASE c = a
            BY <1>2, <1>4, <1>5, <1>7, <3>1, <4>1, <4>3, <5>1, SaneThings
          <5>2. CASE c # a
            BY <1>4, <2>3, <3>1, <4>1, <4>3, <5>2 DEF Kept
          <5> QED BY <5>1, <5>2
        <4> QED BY <4>1, <4>2, <4>3
      <3> QED BY <3>1 DEF Kept
    <2> QED BY <1>1, <2>5, <2>6, <2>8 DEF Goods, Fine, Sane
  <1> QED BY <1>6, <1>7

\* What is in a bag is in no published auction.
LEMMA Unlisted ==
  ASSUME Goods, NEW p \in Players, NEW i \in DOMAIN bag[p]
  PROVE  /\ bag[p][i] \in Sane => thing[bag[p][i]].stage = "live"
         /\ \A b \in Auctions : offer[b].stage = "listed" /\ offer[b].item \in Sane
                                   => offer[b].item # bag[p][i]
  BY DEF Goods, Fine, Lively, Kept, InNo

\* Goods go from one to another, and no auction is written.
LEMMA HeldMoved ==
  ASSUME Goods, UNCHANGED <<offer, astray>>, NEW t, Apart(bag', Sane),
         \A u \in Sane \ {t} : thing'[u] = thing[u],
         \A u : u # t /\ InNo(bag, u) => InNo(bag', u),
         t \in Sane => thing'[t].stage = "live" \/ InNo(bag', t),
         \A b \in Auctions : offer[b].stage = "listed" /\ offer[b].item \in Sane
                                => offer[b].item # t
  PROVE  Goods'
  <1>1. Lively(bag, thing, Sane) /\ Apart(bag, Sane) /\ Kept(offer, thing, bag, Sane)
    BY DEF Goods, Fine
  <1>2. Lively(bag', thing', Sane)
    BY <1>1 DEF Lively
  <1>3. Kept(offer, thing', bag', Sane)
    BY <1>1 DEF Kept
  <1> QED BY <1>2, <1>3 DEF Goods, Fine, Sane

LEMMA HeldFind ==
  ASSUME Typed, Goods, NEW p \in Players, NEW n \in Names, NEW k \in Stack, Find(p, n, k)
  PROVE  Goods'
  <1>1. /\ Fresh # {} /\ UNCHANGED <<offer, astray>>
        /\ thing' = [thing EXCEPT ![NewThing] = [name |-> n, count |-> k, stage |-> "live"]]
        /\ bag' = [bag EXCEPT ![p] = Append(bag[p], NewThing)]
        /\ bag \in [Players -> Seq(Things)] /\ thing \in [Things -> Good]
    BY DEF Find, Typed, TypeOK
  <1>2. PICK t \in Things : t = NewThing /\ thing[t].stage = "unmade"
    BY <1>1, FreshIs
  <1>3. thing'[t].stage = "live" /\ \A u \in Things \ {t} : thing'[u] = thing[u]
    BY <1>1, <1>2
  <1>4. InNo(bag, t)
    BY <1>2 DEF InNo, Typed, BagsMade
  <1>5. Apart(bag, Sane)
    BY DEF Goods, Fine
  <1>6. Apart(bag', Sane) /\ \A u : u # t /\ InNo(bag, u) => InNo(bag', u)
    <2>1. bag \in Bags /\ bag' = Puts(bag, p, t)
      BY <1>1, <1>2 DEF Bags, Puts
    <2> QED BY <1>4, <1>5, <2>1, Gains
  <1>7. \A b \in Auctions : offer[b].stage = "listed" /\ offer[b].item \in Sane => offer[b].item # t
    BY <1>2 DEF Goods, Fine, Kept
  <1> QED BY <1>1, <1>3, <1>6, <1>7, SaneThings, HeldMoved

LEMMA HeldLose ==
  ASSUME Typed, Goods, NEW p \in Players, NEW t \in Things, Lose(p, t) PROVE Goods'
  <1>1. /\ t \in Carried(p) /\ UNCHANGED <<offer, astray>>
        /\ bag' = [bag EXCEPT ![p] = Without(bag[p], t)]
        /\ thing' = [thing EXCEPT ![t].stage = "freed"]
        /\ bag \in [Players -> Seq(Things)] /\ thing \in [Things -> Good]
    BY DEF Lose, Typed, TypeOK
  <1>2. PICK i \in DOMAIN bag[p] : bag[p][i] = t
    BY <1>1 DEF Carried
  <1>3. \A u \in Things \ {t} : thing'[u] = thing[u]
    BY <1>1
  <1>4. Apart(bag, Sane)
    BY DEF Goods, Fine
  <1>5. /\ Apart(bag', Sane) /\ (t \in Sane => InNo(bag', t))
        /\ \A u : InNo(bag, u) => InNo(bag', u)
    <2>1. bag \in Bags /\ bag' = Drops(bag, p, t)
      BY <1>1 DEF Bags, Drops
    <2> QED BY <1>2, <1>4, <2>1, Loses
  <1>6. \A b \in Auctions : offer[b].stage = "listed" /\ offer[b].item \in Sane => offer[b].item # t
    BY <1>2, Unlisted
  <1> QED BY <1>1, <1>3, <1>5, <1>6, SaneThings, HeldMoved

LEMMA HeldGive ==
  ASSUME Typed, Goods, NEW p \in Players, NEW q \in Players, NEW t \in Things, Give(p, q, t)
  PROVE  Goods'
  <1>1. /\ t \in Carried(p) /\ p # q /\ UNCHANGED <<thing, offer, astray>>
        /\ bag' = [bag EXCEPT ![p] = Without(bag[p], t), ![q] = Append(@, t)]
        /\ bag \in [Players -> Seq(Things)]
    BY DEF Give, Typed, TypeOK
  <1>2. PICK i \in DOMAIN bag[p] : bag[p][i] = t
    BY <1>1 DEF Carried
  <1>3. bag \in Bags
    BY <1>1 DEF Bags
  <1>4. Apart(bag, Sane)
    BY DEF Goods, Fine
  <1> DEFINE b == Drops(bag, p, t)
  <1>5. /\ b \in Bags /\ Apart(b, Sane) /\ (t \in Sane => InNo(b, t))
        /\ \A u : InNo(bag, u) => InNo(b, u)
    BY <1>2, <1>3, <1>4, Loses
  <1>6. bag' = Puts(b, q, t) /\ t \in Things
    BY <1>1 DEF Drops, Puts
  <1> HIDE DEF b
  <1>7. Apart(bag', Sane) /\ \A u : u # t /\ InNo(b, u) => InNo(bag', u)
    BY <1>5, <1>6, Gains
  <1>8. /\ t \in Sane => thing[t].stage = "live"
        /\ \A a \in Auctions : offer[a].stage = "listed" /\ offer[a].item \in Sane => offer[a].item # t
    BY <1>2, Unlisted
  <1> QED BY <1>1, <1>5, <1>7, <1>8, HeldMoved

\* Either "send" takes what was looked at, one piece of it, or what it sells is
\* astray from now on.
LEMMA HeldSend ==
  ASSUME IInv, Typed, Goods, NEW p \in Players, Send(p) PROVE Goods'
  <1>1. Edits(p)
    BY DEF Send
  <1>2. PICK m \in Offer : /\ m = Edited(p) /\ Sound(m, thing) /\ m.stage = "new"
                           /\ editing[p] \in Auctions /\ m = offer[editing[p]]
    BY <1>1, EditedSound
  <1>3. PICK t : t = Latest(p, m.name)
    OBVIOUS
  <1>4. PICK r : r = Take(bag, thing, p, m.name, m.lot, t)
    OBVIOUS
  <1>5. /\ Has(p, m.name) /\ m.lot <= thing[t].count /\ m.lot \in Nat /\ m.lot # 0
        /\ (m.lot < thing[t].count => Fresh # {})
        /\ bag' = r.bags /\ thing' = r.goods
        /\ Edit(p, [m EXCEPT !.stage = "listed"])
        /\ astray' = IF t = m.item /\ m.lot = 1 THEN astray ELSE astray \cup {m.item}
    BY <1>2, <1>3, <1>4, OfferFields DEF Send, Sound
  <1>6. t \in Things /\ thing[t].count \in Nat /\ bag \in [Players -> Seq(Things)]
    BY <1>3, <1>5, LatestIs DEF Typed, TypeOK, Good
  <1>7. PICK i \in DOMAIN bag[p] : bag[p][i] = t
    BY <1>3, <1>5, LatestIs
  <1>8. Sane' \subseteq Sane /\ \A u \in Sane' : u = m.item => t = m.item /\ m.lot = 1
    BY <1>5 DEF Sane
  <1>9. Lively(bag, thing, Sane) /\ Apart(bag, Sane) /\ Kept(offer, thing, bag, Sane)
    BY DEF Goods, Fine
  <1>10. Taken(p, m.name, m.lot, t) /\ SpentIs(t, m.lot)
    BY <1>3, <1>5, TakenIs
  <1>11. PICK b : b = [bag EXCEPT ![p] = Without(bag[p], t)]
    OBVIOUS
  <1>12. /\ b \in Bags /\ Apart(b, Sane) /\ (t \in Sane => InNo(b, t))
         /\ \A u : InNo(bag, u) => InNo(b, u)
    <2>1. bag \in Bags /\ b = Drops(bag, p, t)
      BY <1>6, <1>11 DEF Bags, Drops
    <2> QED BY <1>7, <1>9, <2>1, Loses
  <1> DEFINE f == NewThing
             k == thing[t].count - m.lot
  <1>13. k # 0 => /\ f \in Things /\ thing[f].stage = "unmade" /\ InNo(bag, f) /\ f # t
    <2>1. k # 0 => Fresh # {}
      BY <1>5, <1>6
    <2>2. k # 0 => f \in Things /\ thing[f].stage = "unmade"
      BY <2>1, FreshIs
    <2>3. k # 0 => InNo(bag, f)
      BY <2>2 DEF InNo, Typed, BagsMade
    <2> QED BY <1>7, <2>2, <2>3 DEF InNo
  <1>14. k # 0 => bag' = [b EXCEPT ![p] = Append(b[p], f)]
    BY <1>4, <1>5, <1>6, <1>10, <1>11 DEF Taken
  <1>15. k = 0 => bag' = b
    BY <1>4, <1>5, <1>10, <1>11 DEF Taken
  <1>16. /\ Apart(bag', Sane)
         /\ \A u : (k # 0 => u # f) /\ InNo(b, u) => InNo(bag', u)
    <2>1. CASE k = 0
      BY <1>12, <1>15, <2>1
    <2>2. CASE k # 0
      <3>1. f \in Things /\ InNo(b, f)
        BY <1>12, <1>13, <2>2
      <3>2. bag' = Puts(b, p, f)
        BY <1>14, <2>2 DEF Puts
      <3>3. PICK x \in Things : x = f
        BY <3>1
      <3>4. \A u : u # x /\ InNo(b, u) => InNo(Puts(b, p, x), u)
        BY <1>12, <3>1, <3>3, Gains
      <3>5. Apart(Puts(b, p, x), Sane)
        BY <1>12, <3>1, <3>3, Gains
      <3> QED BY <2>2, <3>2, <3>3, <3>4, <3>5
    <2> QED BY <2>1, <2>2
  <1>17. /\ \A u \in Things \ {t} : (k # 0 => u # f) => thing'[u] = thing[u]
         /\ m.lot = 1 => thing'[t].stage = "live"
         /\ k # 0 => thing'[f].stage = "live"
    <2>1. /\ Spent(t, m.lot) \in [Things -> Good]
          /\ \A u \in Things \ {t} : Spent(t, m.lot)[u] = thing[u]
          /\ Spent(t, m.lot)[t].stage = IF m.lot > 1 THEN "freed" ELSE "live"
      BY <1>10 DEF SpentIs
    <2>2. PICK g : g = Spent(t, m.lot)
      OBVIOUS
    <2>3. CASE k = 0
      <3>1. thing' = g
        BY <1>4, <1>5, <1>10, <2>2, <2>3 DEF Taken
      <3> QED BY <2>1, <2>2, <2>3, <3>1
    <2>4. CASE k # 0
      <3>1. PICK x : x = [name |-> m.name, count |-> k, stage |-> "live"]
        OBVIOUS
      <3>2. thing' = [g EXCEPT ![f] = x] /\ x.stage = "live"
        BY <1>4, <1>5, <1>10, <2>2, <2>4, <3>1 DEF Taken
      <3> QED BY <1>6, <1>13, <2>1, <2>2, <2>4, <3>2
    <2> QED BY <2>3, <2>4
  <1> HIDE DEF f, k
  <1>18. t \in Sane => InNo(bag', t)
    BY <1>12, <1>13, <1>16
  <1>19. Lively(bag', thing', Sane')
    <2>1. ASSUME NEW u \in Sane' PROVE thing'[u].stage = "live" \/ InNo(bag', u)
      <3>1. u \in Sane /\ u \in Things
        BY <1>8, SaneThings
      <3>2. CASE u = t
        BY <1>18, <3>1, <3>2
      <3>3. CASE k # 0 /\ u = f
        BY <1>17, <3>3
      <3>4. CASE u # t /\ (k # 0 => u # f)
        BY <1>9, <1>12, <1>16, <1>17, <3>1, <3>4 DEF Lively
      <3> QED BY <3>2, <3>3, <3>4
    <2> QED BY <2>1 DEF Lively
  <1>20. Apart(bag', Sane')
    BY <1>8, <1>16 DEF Apart
  <1>21. PICK e : /\ e.stage = "listed" /\ e.item = m.item
                  /\ offer'[editing[p]] = e
                  /\ \A a \in Auctions : a # editing[p] => offer'[a] = offer[a]
    <2>1. PICK e : e = [m EXCEPT !.stage = "listed"]
      OBVIOUS
    <2>2. e.stage = "listed" /\ e.item = m.item
      BY <2>1 DEF Offer
    <2> QED BY <1>2, <1>5, <2>1, <2>2 DEF Edit, Typed, TypeOK
  <1>22. \A a \in Auctions : offer[a].stage = "listed" /\ offer[a].item \in Sane => offer[a].item # t
    BY <1>7, Unlisted
  <1>23. ASSUME NEW a \in Auctions, offer'[a].stage = "listed", offer'[a].item \in Sane',
                NEW u, u = offer'[a].item
         PROVE  /\ thing'[u].stage = "live" /\ InNo(bag', u)
                /\ \A c \in Auctions : c # a /\ offer'[c].stage = "listed" => offer'[c].item # u
    <2>1. u \in Sane /\ u \in Things
      BY <1>8, <1>23, SaneThings
    <2>2. CASE a = editing[p]
      <3>1. u = t /\ m.lot = 1
        BY <1>8, <1>21, <1>23, <2>2
      <3> QED BY <1>17, <1>18, <1>21, <1>22, <2>1, <2>2, <3>1
    <2>3. CASE a # editing[p]
      <3>1. offer[a].stage = "listed" /\ offer[a].item = u /\ u # t
        BY <1>21, <1>22, <1>23, <2>1, <2>3
      <3>2. /\ thing[u].stage = "live" /\ InNo(bag, u)
            /\ \A c \in Auctions : c # a /\ offer[c].stage = "listed" => offer[c].item # u
        BY <1>9, <2>1, <3>1 DEF Kept
      <3>3. k # 0 => u # f
        BY <1>13, <3>2
      <3>4. thing'[u].stage = "live" /\ InNo(bag', u)
        BY <1>12, <1>16, <1>17, <2>1, <3>1, <3>2, <3>3
      <3>5. u # m.item
        BY <1>8, <1>23, <3>1
      <3> QED BY <1>21, <3>2, <3>4, <3>5
    <2> QED BY <2>2, <2>3
  <1>24. Kept(offer', thing', bag', Sane')
    BY <1>23 DEF Kept
  <1> QED BY <1>19, <1>20, <1>24 DEF Goods, Fine

LEMMA HeldStep == IInv /\ Typed /\ Held /\ [Next]_vars => Held'
  <1> SUFFICES ASSUME IInv, Typed, Held, [Next]_vars, ~ wild' PROVE Goods'
    BY DEF Held
  <1>1. CASE UNCHANGED vars
    BY <1>1, HeldSame DEF vars, Held
  <1>2. CASE Next
    <2>1. ~ wild /\ Goods
      BY <1>2 DEF Next, Held
    <2>2. ASSUME NEW p \in Players, Command(p) PROVE Goods'
      <3>1. CASE Enter(p) \/ Done(p) \/ Browse(p) \/ BackFromNew(p) \/ BackFromList(p)
                   \/ BackFromDetails(p) \/ ReadFreed(p) \/ \E a \in Auctions : Open(p, a)
        BY <2>1, <3>1, HeldSame
           DEF Enter, Done, Browse, BackFromNew, BackFromList, BackFromDetails, ReadFreed, Open
      <3>2. CASE Erase(p)
        BY <2>1, <3>2, EditedSound, HeldFreed DEF Erase, Edit
      <3>3. ASSUME NEW a \in Auctions, Delete(p, a) PROVE Goods'
        BY <2>1, <3>3, HeldFreed DEF Delete
      <3> QED BY <2>1, <2>2, <3>1, <3>2, <3>3, HeldFills, HeldPrepare, HeldSend, HeldDeals, HeldCollect
              DEF Command
    <2>3. ASSUME NEW p \in Players, Elsewhere(p) PROVE Goods'
      BY <2>1, <2>3, HeldFind, HeldLose, HeldGive DEF Elsewhere
    <2> QED BY <1>2, <2>1, <2>2, <2>3, HeldDeals DEF Next
  <1> QED BY <1>1, <1>2

\* The item of an auction is in the auction and nowhere else until it is
\* collected, whatever players prepare, sell, give away, lose, withdraw and
\* collect, with stacks of any size and any number of things of one name, unless
\* "send" itself sold another thing than it took.
THEOREM TerminalHeldItem == Spec => []HeldItem
  <1>1. Init => Typed /\ Held
    <2> SUFFICES ASSUME Init PROVE Held
      BY InitTyped
    <2>1. \A p \in Players : bag[p] = <<>> /\ DOMAIN bag[p] = {}
      BY EmptySeq DEF Init
    <2>2. \A a \in Auctions : offer[a].stage = "unborn"
      BY DEF Init, Blank
    <2> QED BY <2>1, <2>2 DEF Held, Goods, Fine, Lively, Apart, Kept, InNo
  <1> QED BY <1>1, InitInv, InvStep, TypedStep, HeldStep, GoodsHeld, PTL DEF Spec
=============================================================================
