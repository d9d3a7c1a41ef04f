------------------------ MODULE AuctionHouse_proofs ------------------------
(***************************************************************************)
(* Proofs about AuctionHouse, for any players, auctions, amounts and any   *)
(* sort that only reorders what it returns from.                           *)
(***************************************************************************)
EXTENDS AuctionHouse, TLAPS, FiniteSetTheorems, SequenceTheorems

LEMMA HouseFacts ==
  /\ IsFiniteSet(Players)
  /\ Immortals \subseteq Players
  /\ NoOne \notin Players
  /\ Amounts \subseteq Nat \ {0}
  /\ Buyouts \subseteq Amounts \cup {0}
  /\ Lots \subseteq Nat \ {0}
  /\ Purse \in Nat
  BY HouseAssumption DEF HouseAssumption

USE HouseFacts

---------------------------------------------------------------------------
(* Lists of bets.                                                          *)

\* A name of a list has one place in it, and its deposit is that bet's limit.
LEMMA DepositOfBettor ==
  ASSUME NEW bets, BetList(bets), NEW i \in DOMAIN bets
  PROVE  /\ Member(bets, bets[i].name)
         /\ Position(bets, bets[i].name) = i
         /\ Deposit(bets, bets[i].name) = bets[i].max
  BY DEF BetList, DistinctNames, Member, Position, Deposit

LEMMA DepositOfOther ==
  ASSUME NEW bets, NEW p, ~Member(bets, p)
  PROVE  Deposit(bets, p) = 0
  BY DEF Deposit

LEMMA MemberPosition ==
  ASSUME NEW bets, NEW p, Member(bets, p)
  PROVE  /\ Position(bets, p) \in DOMAIN bets
         /\ bets[Position(bets, p)].name = p
  BY DEF Member, Position

\* A deposit is an amount, of a member only.
LEMMA DepositType ==
  ASSUME NEW bets, BetList(bets), NEW p
  PROVE  /\ Deposit(bets, p) \in Nat
         /\ Member(bets, p) => Deposit(bets, p) \in Amounts /\ Deposit(bets, p) > 0
<1>1. CASE Member(bets, p)
  <2>1. bets[Position(bets, p)] \in Bet
    BY <1>1, MemberPosition, LenProperties, ElementOfSeq DEF BetList
  <2>2. Deposit(bets, p) \in Amounts
    BY <1>1, <2>1 DEF Deposit, Bet
  <2>3. \A x \in Amounts : x \in Nat /\ x > 0
    BY HouseFacts
  <2>4. QED
    BY <2>2, <2>3
<1>2. CASE ~Member(bets, p)
  BY <1>2 DEF Deposit
<1>3. QED
  BY <1>1, <1>2

\* What PutBet does to a list: p's deposit is the new limit, the others keep
\* theirs, and no bet is new but p's.
LEMMA PutBetProperties ==
  ASSUME NEW bets, BetList(bets), NEW p \in Players, NEW limit \in Amounts
  PROVE  LET put == PutBet(bets, p, limit) IN
         /\ BetList(put)
         /\ put # <<>>
         /\ \A i \in DOMAIN put : put[i] = [name |-> p, max |-> limit] \/ put[i] \in Elements(bets)
         /\ \A q : Member(put, q) <=> q = p \/ Member(bets, q)
         /\ \A q : Deposit(put, q) = IF q = p THEN limit ELSE Deposit(bets, q)
<1> DEFINE put == PutBet(bets, p, limit)
           new == [name |-> p, max |-> limit]
<1>0. /\ bets \in Seq(Bet) /\ Len(bets) \in Nat /\ DOMAIN bets = 1..Len(bets)
      /\ \A i \in 1..Len(bets) : bets[i] \in Bet
      /\ new \in Bet
  BY LenProperties, ElementOfSeq DEF BetList, Bet
<1>1. CASE Member(bets, p)
  <2> DEFINE k == Position(bets, p)
  <2>1. k \in 1..Len(bets) /\ bets[k].name = p
    BY <1>0, <1>1, MemberPosition
  <2>2. [bets[k] EXCEPT !.max = limit] = new
    BY <1>0, <2>1 DEF Bet
  <2>3. put = [bets EXCEPT ![k] = new]
    BY <1>1, <2>2 DEF PutBet
  <2>4. /\ put \in Seq(Bet) /\ Len(put) = Len(bets)
        /\ \A j \in 1..Len(bets) : put[j] = IF j = k THEN new ELSE bets[j]
    BY <1>0, <2>1, <2>3, ExceptSeq
  <2>5. DOMAIN put = 1..Len(bets)
    BY <2>4, LenProperties
  <2>6. \A j \in 1..Len(bets) : put[j].name = bets[j].name
    BY <2>1, <2>4
  <2>7. BetList(put)
    BY <1>0, <2>4, <2>5, <2>6 DEF BetList, DistinctNames
  <2>8. \A q : Member(put, q) <=> Member(bets, q)
    BY <1>0, <2>5, <2>6 DEF Member
  <2>9. ASSUME NEW q
        PROVE  Deposit(put, q) = IF q = p THEN limit ELSE Deposit(bets, q)
    <3>1. CASE Member(bets, q)
      <4>1. PICK i \in 1..Len(bets) : bets[i].name = q
        BY <1>0, <3>1 DEF Member
      <4>2. Deposit(bets, q) = bets[i].max
        BY <1>0, <4>1, DepositOfBettor
      <4>3. Deposit(put, q) = put[i].max
        BY <2>5, <2>6, <2>7, <4>1, DepositOfBettor
      <4>4. i = k <=> q = p
        BY <1>0, <2>1, <4>1 DEF BetList, DistinctNames
      <4>5. QED
        BY <2>4, <4>2, <4>3, <4>4
    <3>2. CASE ~Member(bets, q)
      BY <3>2, <1>1, <2>8, DepositOfOther
    <3>3. QED
      BY <3>1, <3>2
  <2>10. put # <<>>
    BY <2>1, <2>4, EmptySeq
  <2>11. \A i \in DOMAIN put : put[i] = new \/ put[i] \in Elements(bets)
    BY <1>0, <2>4, <2>5 DEF Elements
  <2>12. QED
    BY <1>1, <2>7, <2>8, <2>9, <2>10, <2>11
<1>2. CASE ~Member(bets, p)
  <2> DEFINE n == Len(bets)
  <2>1. put = Append(bets, new)
    BY <1>2 DEF PutBet
  <2>2. /\ put \in Seq(Bet) /\ Len(put) = n + 1
        /\ \A i \in 1..n : put[i] = bets[i]
        /\ put[n + 1] = new
    BY <1>0, <2>1, AppendProperties
  <2>3. DOMAIN put = 1..(n + 1)
    BY <2>2, LenProperties
  <2>4. \A i \in 1..n : bets[i].name # p
    BY <1>0, <1>2 DEF Member
  <2>5. BetList(put)
    <3> SUFFICES ASSUME NEW i \in 1..(n + 1), NEW j \in 1..(n + 1), put[i].name = put[j].name
                 PROVE  i = j
      BY <2>2, <2>3 DEF BetList, DistinctNames
    <3>1. CASE i \in 1..n /\ j \in 1..n
      BY <1>0, <2>2, <3>1 DEF BetList, DistinctNames
    <3>2. CASE i = n + 1 \/ j = n + 1
      BY <1>0, <2>2, <2>4, <3>2
    <3>3. QED
      BY <1>0, <3>1, <3>2
  <2>6. ASSUME NEW q
        PROVE  Member(put, q) <=> q = p \/ Member(bets, q)
    BY <1>0, <2>2, <2>3 DEF Member
  <2>7. ASSUME NEW q
        PROVE  Deposit(put, q) = IF q = p THEN limit ELSE Deposit(bets, q)
    <3>1. CASE q = p
      BY <1>0, <2>2, <2>3, <2>5, <3>1, DepositOfBettor
    <3>2. CASE q # p /\ Member(bets, q)
      <4>1. PICK i \in 1..n : bets[i].name = q
        BY <1>0, <3>2 DEF Member
      <4>2. i \in DOMAIN put /\ put[i] = bets[i]
        BY <1>0, <2>2, <2>3
      <4>3. QED
        BY <1>0, <2>5, <3>2, <4>1, <4>2, DepositOfBettor
    <3>3. CASE q # p /\ ~Member(bets, q)
      BY <2>6, <3>3, DepositOfOther
    <3>4. QED
      BY <3>1, <3>2, <3>3
  <2>8. put # <<>>
    BY <1>0, <2>2, EmptySeq
  <2>9. \A i \in DOMAIN put : put[i] = new \/ put[i] \in Elements(bets)
    BY <1>0, <2>2, <2>3 DEF Elements
  <2>10. QED
    BY <2>5, <2>6, <2>7, <2>8, <2>9
<1>3. QED
  BY <1>1, <1>2

\* What Unlink does to a list: the bet at i and its deposit are gone, the
\* others keep their deposits and, behind another bet, the first its place.
LEMMA UnlinkProperties ==
  ASSUME NEW bets, BetList(bets), NEW i \in DOMAIN bets
  PROVE  LET rest == Unlink(bets, i) IN
         /\ BetList(rest)
         /\ Elements(rest) \subseteq Elements(bets)
         /\ \A q : Member(rest, q) <=> Member(bets, q) /\ q # bets[i].name
         /\ \A q : Deposit(rest, q) = IF q = bets[i].name THEN 0 ELSE Deposit(bets, q)
         /\ i # 1 => rest # <<>> /\ rest[1] = bets[1]
<1> DEFINE n == Len(bets)
           Old(j) == IF j < i THEN j ELSE j + 1
           rest == Unlink(bets, i)
<1>0. /\ bets \in Seq(Bet) /\ n \in Nat /\ DOMAIN bets = 1..n /\ i \in 1..n
      /\ \A j \in 1..n : bets[j] \in Bet
  BY LenProperties, ElementOfSeq DEF BetList
<1>1. \A j \in 1..(n - 1) : Old(j) \in 1..n /\ Old(j) # i
  BY <1>0
<1>2. rest \in [1..(n - 1) -> Bet]
  BY <1>0, <1>1 DEF Unlink
<1>3. rest \in Seq(Bet) /\ Len(rest) = n - 1 /\ DOMAIN rest = 1..(n - 1)
  <2>1. n - 1 \in Nat
    BY <1>0
  <2>2. rest \in Seq(Bet)
    BY <1>2, <2>1, SeqDef
  <2>3. DOMAIN rest = 1..(n - 1) /\ DOMAIN rest = 1..Len(rest) /\ Len(rest) \in Nat
    BY <1>2, <2>2, LenProperties
  <2>4. QED
    BY <2>1, <2>2, <2>3
<1>4. \A j \in 1..(n - 1) : rest[j] = bets[Old(j)]
  BY DEF Unlink
<1>5. \A k \in 1..n : k # i => \E j \in 1..(n - 1) : Old(j) = k
  <2> SUFFICES ASSUME NEW k \in 1..n, k # i
               PROVE  \E j \in 1..(n - 1) : Old(j) = k
    OBVIOUS
  <2>1. CASE k < i
    <3>1. k \in 1..(n - 1) /\ Old(k) = k
      BY <1>0, <2>1
    <3>2. QED
      BY <3>1
  <2>2. CASE k > i
    <3>1. k - 1 \in 1..(n - 1) /\ Old(k - 1) = k
      BY <1>0, <2>2
    <3>2. QED
      BY <3>1
  <2>3. QED
    BY <1>0, <2>1, <2>2
<1>6. BetList(rest)
  <2> SUFFICES ASSUME NEW j \in 1..(n - 1), NEW k \in 1..(n - 1), rest[j].name = rest[k].name
               PROVE  j = k
    BY <1>3 DEF BetList, DistinctNames
  <2>1. Old(j) = Old(k)
    BY <1>0, <1>1, <1>4 DEF BetList, DistinctNames
  <2>2. QED
    BY <1>0, <2>1
<1>7. Elements(rest) \subseteq Elements(bets)
  BY <1>0, <1>1, <1>3, <1>4 DEF Elements
<1>8. ASSUME NEW q
      PROVE  Member(rest, q) <=> Member(bets, q) /\ q # bets[i].name
  <2>1. ASSUME Member(rest, q) PROVE Member(bets, q) /\ q # bets[i].name
    <3>1. PICK j \in 1..(n - 1) : rest[j].name = q
      BY <1>3, <2>1 DEF Member
    <3>2. Old(j) \in DOMAIN bets /\ bets[Old(j)].name = q /\ Old(j) # i
      BY <1>0, <1>1, <1>4, <3>1
    <3>3. QED
      BY <1>0, <3>2 DEF Member, BetList, DistinctNames
  <2>2. ASSUME Member(bets, q), q # bets[i].name PROVE Member(rest, q)
    <3>1. PICK k \in 1..n : bets[k].name = q
      BY <1>0, <2>2 DEF Member
    <3>2. PICK j \in 1..(n - 1) : Old(j) = k
      BY <1>5, <2>2, <3>1
    <3>3. rest[j].name = q
      BY <1>4, <3>1, <3>2
    <3>4. QED
      BY <1>3, <3>3 DEF Member
  <2>3. QED
    BY <2>1, <2>2
<1>9. ASSUME NEW q
      PROVE  Deposit(rest, q) = IF q = bets[i].name THEN 0 ELSE Deposit(bets, q)
  <2>1. CASE Member(rest, q)
    <3>1. PICK j \in 1..(n - 1) : rest[j].name = q
      BY <1>3, <2>1 DEF Member
    <3>2. Old(j) \in DOMAIN bets /\ bets[Old(j)].name = q /\ rest[j] = bets[Old(j)]
      BY <1>0, <1>1, <1>4, <3>1
    <3>3. Deposit(bets, q) = rest[j].max
      BY <3>2, DepositOfBettor
    <3>4. Deposit(rest, q) = rest[j].max
      BY <1>3, <1>6, <3>1, DepositOfBettor
    <3>5. QED
      BY <1>8, <2>1, <3>3, <3>4
  <2>2. CASE ~Member(rest, q)
    BY <1>8, <2>2, DepositOfOther
  <2>3. QED
    BY <2>1, <2>2
<1>10. i # 1 => rest # <<>> /\ rest[1] = bets[1]
  <2> SUFFICES ASSUME i # 1
               PROVE  rest # <<>> /\ rest[1] = bets[1]
    OBVIOUS
  <2>1. 1 \in 1..(n - 1) /\ Old(1) = 1
    BY <1>0
  <2>2. rest # <<>>
    BY <1>3, <2>1, EmptySeq
  <2>3. rest[1] = bets[Old(1)]
    BY <1>4, <2>1
  <2>4. QED
    BY <2>1, <2>2, <2>3
<1>11. QED
  BY <1>6, <1>7, <1>8, <1>9, <1>10

\* Two orders of the same bets are the same deposits.
LEMMA ReorderingProperties ==
  ASSUME NEW s, BetList(s), NEW t, IsReordering(t, s)
  PROVE  /\ BetList(t)
         /\ t = <<>> <=> s = <<>>
         /\ \A q : Member(t, q) <=> Member(s, q)
         /\ \A q : Deposit(t, q) = Deposit(s, q)
<1>1. BetList(t) /\ Len(t) = Len(s) /\ Elements(t) = Elements(s)
  BY DEF IsReordering
<1>2. t = <<>> <=> s = <<>>
  BY <1>1, EmptySeq DEF BetList
<1>3. ASSUME NEW u, NEW v, Elements(u) = Elements(v), NEW q, Member(u, q)
      PROVE  Member(v, q)
  BY <1>3 DEF Elements, Member
<1>4. ASSUME NEW q
      PROVE  Member(t, q) <=> Member(s, q)
  BY <1>1, <1>3
<1>5. ASSUME NEW q
      PROVE  Deposit(t, q) = Deposit(s, q)
  <2>1. CASE Member(s, q)
    <3>1. PICK i \in DOMAIN s : s[i].name = q
      BY <2>1 DEF Member
    <3>2. PICK j \in DOMAIN t : t[j] = s[i]
      BY <1>1, <3>1 DEF Elements
    <3>3. Deposit(t, q) = t[j].max
      BY <1>1, <3>1, <3>2, DepositOfBettor
    <3>4. Deposit(s, q) = s[i].max
      BY <3>1, DepositOfBettor
    <3>5. QED
      BY <3>2, <3>3, <3>4
  <2>2. CASE ~Member(s, q)
    BY <1>4, <2>2, DepositOfOther
  <2>3. QED
    BY <2>1, <2>2
<1>6. QED
  BY <1>1, <1>2, <1>4, <1>5

LEMMA ReorderingReflexive ==
  ASSUME NEW s, BetList(s)
  PROVE  IsReordering(s, s)
  BY DEF IsReordering

\* No more bets than players besides the seller.
LEMMA BetsBounded ==
  ASSUME NEW bets, BetList(bets), NEW seller \in Players, ~Member(bets, seller)
  PROVE  Len(bets) \in 0..(Cardinality(Players) - 1)
<1> DEFINE n == Len(bets)
           Others == Players \ {seller}
           f == [i \in 1..n |-> bets[i].name]
<1>1. /\ bets \in Seq(Bet) /\ n \in Nat /\ DOMAIN bets = 1..n
      /\ \A i \in 1..n : bets[i] \in Bet
  BY LenProperties, ElementOfSeq DEF BetList
<1>2. IsFiniteSet(Others) /\ Cardinality(Others) = Cardinality(Players) - 1
  BY FS_RemoveElement
<1>3. Cardinality(Players) \in Nat
  BY FS_CardinalityType
<1>4. IsFiniteSet(1..n) /\ Cardinality(1..n) = n
  BY <1>1, FS_Interval
<1>5. f \in [1..n -> Others]
  BY <1>1 DEF Member, Bet
<1>6. ~ \E i, j \in 1..n : i # j /\ f[i] = f[j]
  BY <1>1 DEF BetList, DistinctNames
<1>7. ~(Cardinality(Others) < Cardinality(1..n))
  <2> HIDE DEF f, Others
  <2> QED
    BY <1>2, <1>4, <1>5, <1>6, FS_PigeonHole
<1>8. QED
  BY <1>1, <1>2, <1>3, <1>4, <1>7

\* What the assumption on the sort says of the bets of an auction.
LEMMA SortReorders ==
  ASSUME NEW bets, BetList(bets), NEW seller \in Players, ~Member(bets, seller)
  PROVE  /\ SortLoops(bets) \in BOOLEAN
         /\ ~SortLoops(bets) => IsReordering(SortBets(bets), bets)
<1>1. bets \in [1..Len(bets) -> Bet] /\ DistinctNames(bets)
  BY LenProperties DEF BetList
<1>2. Len(bets) \in 0..(Cardinality(Players) - 1)
  BY BetsBounded
<1>3. QED
  BY <1>1, <1>2, SortAssumption DEF SortAssumption

---------------------------------------------------------------------------
(* Prices.                                                                 *)

\* The commission never exceeds the price.
LEMMA TaxBounded ==
  ASSUME NEW bet \in Nat
  PROVE  Tax(bet) \in Nat /\ Tax(bet) <= bet
<1>1. ASSUME NEW percent \in 0..100
      PROVE  (bet * percent) \div 100 \in Nat /\ (bet * percent) \div 100 <= bet
  <2>1. bet * percent \in Nat /\ bet * percent <= bet * 100
    OBVIOUS
  <2>2. QED
    BY <2>1
<1>2. TaxPercent(bet) \in 0..100
  BY DEF TaxPercent
<1>3. QED
  BY <1>1, <1>2 DEF Tax

\* The current price of a list of limits not below the starting price is not
\* below it either.
LEMMA PriceReserved ==
  ASSUME NEW bets, BetList(bets), NEW start \in Nat, \A i \in DOMAIN bets : bets[i].max >= start
  PROVE  CurrentBet(bets, start) \in Nat /\ CurrentBet(bets, start) >= start
<1>1. /\ Len(bets) \in Nat /\ DOMAIN bets = 1..Len(bets)
      /\ \A i \in 1..Len(bets) : bets[i] \in Bet
  BY LenProperties, ElementOfSeq DEF BetList
<1>2. CASE Len(bets) \in {0, 1}
  BY <1>2 DEF CurrentBet
<1>3. CASE Len(bets) > 1
  <2>1. 2 \in 1..Len(bets)
    BY <1>1, <1>3
  <2>2. bets[2] \in Bet /\ bets[2].max >= start
    BY <1>1, <2>1
  <2>3. bets[2].max \in Nat
    BY <2>2 DEF Bet
  <2>4. QED
    BY <1>1, <1>3, <2>2, <2>3 DEF CurrentBet
<1>4. QED
  BY <1>1, <1>2, <1>3

---------------------------------------------------------------------------
(* The inductive invariant.                                                *)

\* What is true of every auction, in memory and in the file: beyond the
\* properties themselves, no limit is below the starting price, and an
\* auction that was not published is blank.
Sound(m) ==
  /\ m \in Entry
  /\ DistinctNames(m.bets) /\ ~Member(m.bets, m.seller)
  /\ m.stage = "unborn" => m = Unborn
  /\ m.stage = "listed" =>
       /\ m.seller \in Players
       /\ \A i \in DOMAIN m.bets : m.bets[i].max >= m.start
       /\ m.bet >= m.start
       /\ ~m.paid \/ m.bets # <<>>
       /\ m.paid \/ m.collected => m.ended

\* What StockFileCurrent says of one auction.
Current(m, f) ==
  /\ f = [m EXCEPT !.ended = f.ended, !.bet = f.bet, !.bets = f.bets]
  /\ IsReordering(m.bets, f.bets)
  /\ f.ended => m.ended

IInv ==
  /\ TypeOK
  /\ \A a \in Auctions : Sound(market[a]) /\ Sound(stockFile[a])
  /\ ~hung => \A a \in Auctions : Current(market[a], stockFile[a])

LEMMA SoundBets ==
  ASSUME NEW m, Sound(m)
  PROVE  BetList(m.bets)
  BY DEF Sound, Entry, BetList

\* An auction that is written as it is in memory is current.
LEMMA CurrentReflexive ==
  ASSUME NEW m, Sound(m)
  PROVE  Current(m, m)
<1>1. IsReordering(m.bets, m.bets)
  BY SoundBets, ReorderingReflexive
<1>2. m = [m EXCEPT !.ended = m.ended, !.bet = m.bet, !.bets = m.bets]
  BY DEF Sound, Entry
<1>3. QED
  BY <1>1, <1>2 DEF Current

LEMMA SoundBlank ==
  ASSUME NEW m \in {Unborn, Removed}
  PROVE  Sound(m)
<1>1. <<>> \in Seq(Bet) /\ DOMAIN <<>> = {}
  BY EmptySeq, LenProperties
<1> DEFINE Blank(x) == /\ x \in Entry /\ x.bets = <<>>
                       /\ x.stage = "unborn" => x = Unborn
                       /\ x.stage # "listed"
<1>a. Blank(Unborn)
  BY <1>1 DEF Unborn, Entry
<1>b. Removed \in Entry /\ Removed.bets = <<>> /\ Removed.stage = "removed"
  BY <1>1 DEF Unborn, Removed, Entry
<1>2. Blank(m)
  BY <1>a, <1>b
<1>3. DistinctNames(m.bets) /\ ~Member(m.bets, m.seller)
  BY <1>1, <1>2 DEF DistinctNames, Member
<1>4. QED
  BY <1>2, <1>3 DEF Sound

\* Sorting keeps an auction sound, and current with what was sorted.
LEMMA SortedSound ==
  ASSUME NEW m, Sound(m), m.stage = "listed", ~SortLoops(m.bets)
  PROVE  Sound(Sorted(m)) /\ Current(Sorted(m), m)
<1> DEFINE t == SortBets(m.bets)
<1>1. BetList(m.bets) /\ m \in Entry /\ m.start \in Nat /\ m.seller \in Players
  BY SoundBets DEF Sound, Entry
<1>2. IsReordering(t, m.bets)
  BY <1>1, SortReorders DEF Sound
<1>3. BetList(t) /\ ~Member(t, m.seller) /\ (t = <<>> <=> m.bets = <<>>)
  BY <1>1, <1>2, ReorderingProperties DEF Sound
<1>4. \A i \in DOMAIN t : t[i].max >= m.start
  <2> SUFFICES ASSUME NEW i \in DOMAIN t
               PROVE  t[i].max >= m.start
    OBVIOUS
  <2>1. t[i] \in Elements(m.bets)
    BY <1>2 DEF IsReordering, Elements
  <2>2. QED
    BY <2>1 DEF Elements, Sound
<1>5. CurrentBet(t, m.start) \in Nat /\ CurrentBet(t, m.start) >= m.start
  BY <1>1, <1>3, <1>4, PriceReserved
<1>6. Sorted(m) = [m EXCEPT !.bets = t, !.bet = CurrentBet(t, m.start)]
  BY DEF Sorted
<1> DEFINE u == [m EXCEPT !.bets = t, !.bet = CurrentBet(t, m.start)]
<1>7. /\ u \in Entry /\ u.bets = t /\ u.bet = CurrentBet(t, m.start) /\ u.stage = "listed"
      /\ u.seller = m.seller /\ u.start = m.start /\ u.paid = m.paid
      /\ u.collected = m.collected /\ u.ended = m.ended
  BY <1>1, <1>3, <1>5 DEF Entry, BetList
<1>8. Sound(u)
  <2>1. DistinctNames(u.bets) /\ ~Member(u.bets, u.seller)
    BY <1>3, <1>7 DEF BetList
  <2>2. ~u.paid \/ u.bets # <<>>
    BY <1>3, <1>7 DEF Sound
  <2>3. u.paid \/ u.collected => u.ended
    BY <1>7 DEF Sound
  <2>4. QED
    BY <1>1, <1>4, <1>5, <1>7, <2>1, <2>2, <2>3 DEF Sound
<1>9. m = [u EXCEPT !.ended = m.ended, !.bet = m.bet, !.bets = m.bets]
  BY <1>1, <1>7 DEF Entry
<1>10. QED
  BY <1>2, <1>6, <1>7, <1>8, <1>9 DEF Current

\* A step that makes one auction into a sound one and saves the exchange.
LEMMA SavedIInv ==
  ASSUME IInv, NEW a \in Auctions, NEW m, Sound(m),
         gold' \in [Players -> Nat], hung' = hung,
         market' = [market EXCEPT ![a] = m], stockFile' = market'
  PROVE  IInv'
<1>1. m \in Entry
  BY DEF Sound
<1>2. market' \in [Auctions -> Entry] /\ \A b \in Auctions : Sound(market'[b])
  BY <1>1 DEF IInv, TypeOK
<1>3. \A b \in Auctions : Current(market'[b], market'[b])
  BY <1>2, CurrentReflexive
<1>4. TypeOK'
  BY <1>2 DEF IInv, TypeOK
<1>5. QED
  BY <1>2, <1>3, <1>4 DEF IInv

\* The end of the three commands that sort the bets of an auction.
LEMMA SortAndSaveIInv ==
  ASSUME IInv, ~hung, NEW a \in Auctions, NEW m, Sound(m), m.stage = "listed",
         gold' \in [Players -> Nat], SortAndSave(a, m)
  PROVE  IInv'
<1>1. CASE SortLoops(m.bets)
  <2>1. market' = [market EXCEPT ![a] = m] /\ hung' = TRUE /\ stockFile' = stockFile
    BY <1>1 DEF SortAndSave
  <2>2. m \in Entry
    BY DEF Sound
  <2>3. TypeOK' /\ \A b \in Auctions : Sound(market'[b]) /\ Sound(stockFile'[b])
    BY <2>1, <2>2 DEF IInv, TypeOK
  <2>4. QED
    BY <2>1, <2>3 DEF IInv
<1>2. CASE ~SortLoops(m.bets)
  <2>1. market' = [market EXCEPT ![a] = Sorted(m)] /\ stockFile' = market' /\ hung' = hung
    BY <1>2 DEF SortAndSave
  <2>2. QED
    BY <1>2, <2>1, SortedSound, SavedIInv
<1>3. QED
  BY <1>1, <1>2

---------------------------------------------------------------------------
(* Every step keeps the invariant.                                         *)

LEMMA InitIInv == Init => IInv
<1> SUFFICES ASSUME Init
             PROVE  IInv
  OBVIOUS
<1>1. Sound(Unborn) /\ Current(Unborn, Unborn)
  BY SoundBlank, CurrentReflexive
<1>2. Unborn \in Entry
  BY <1>1 DEF Sound
<1>3. QED
  BY <1>1, <1>2 DEF Init, IInv, TypeOK

LEMMA PublishIInv ==
  ASSUME IInv, NEW p \in Players, NEW a \in Auctions,
         NEW start \in Amounts, NEW buyout \in Buyouts, NEW lot \in Lots,
         Publish(p, a, start, buyout, lot)
  PROVE  IInv'
<1> DEFINE m == [Unborn EXCEPT !.stage = "listed", !.seller = p, !.start = start,
                   !.buyout = buyout, !.lot = lot, !.bet = start]
<1>1. Sound(Unborn) /\ start \in Nat /\ lot \in Nat
  BY SoundBlank
<1>2. /\ m \in Entry /\ m.bets = <<>> /\ m.stage = "listed" /\ m.seller = p
      /\ m.bet = start /\ m.start = start /\ m.paid = FALSE /\ m.collected = FALSE
  BY <1>1 DEF Unborn, Entry, Sound
<1>3. DOMAIN <<>> = {}
  BY EmptySeq, LenProperties
<1>4. Sound(m)
  BY <1>1, <1>2, <1>3 DEF Sound, DistinctNames, Member
<1>5. QED
  BY <1>4, SavedIInv DEF Publish, IInv, TypeOK

\* A bet put into an open auction, whether it ends it or not.
LEMMA PutBetSound ==
  ASSUME NEW m, Sound(m), m.stage = "listed", ~m.ended, NEW p \in Players, p # m.seller,
         NEW limit \in Amounts, limit >= m.start, NEW ended \in BOOLEAN
  PROVE  Sound([m EXCEPT !.bets = PutBet(m.bets, p, limit), !.ended = ended])
<1> DEFINE put == PutBet(m.bets, p, limit)
           u == [m EXCEPT !.bets = put, !.ended = ended]
<1>1. BetList(m.bets) /\ m \in Entry
  BY SoundBets DEF Sound
<1>2. /\ BetList(put) /\ put # <<>> /\ ~Member(put, m.seller)
      /\ \A i \in DOMAIN put : put[i] = [name |-> p, max |-> limit] \/ put[i] \in Elements(m.bets)
  BY <1>1, PutBetProperties DEF Sound
<1>3. \A i \in DOMAIN put : put[i].max >= m.start
  BY <1>2 DEF Sound, Elements
<1>4. /\ u \in Entry /\ u.bets = put /\ u.ended = ended /\ u.stage = m.stage
      /\ u.seller = m.seller /\ u.start = m.start /\ u.bet = m.bet
      /\ u.paid = m.paid /\ u.collected = m.collected
  BY <1>1, <1>2 DEF Entry, BetList
<1>5. u.paid = FALSE /\ u.collected = FALSE
  BY <1>1, <1>4 DEF Sound, Entry
<1>6. QED
  BY <1>2, <1>3, <1>4, <1>5 DEF Sound, BetList

\* Who has the whole limit on hand can be charged the rest of it.
LEMMA ChargeType ==
  ASSUME IInv, NEW p \in Players, NEW a \in Auctions, NEW limit \in Amounts,
         Affords(p, a, limit), Charge(p, a, limit)
  PROVE  gold' \in [Players -> Nat]
<1>1. Deposit(market[a].bets, p) \in Nat
  BY SoundBets, DepositType DEF IInv
<1>2. gold \in [Players -> Nat] /\ gold[p] \in Nat /\ limit \in Nat /\ gold[p] >= limit
  BY DEF IInv, TypeOK, Affords
<1>3. gold[p] - (limit - Deposit(market[a].bets, p)) \in Nat
  BY <1>1, <1>2
<1>4. QED
  BY <1>2, <1>3 DEF Charge

\* The limits of a bet are not below the starting price.
LEMMA PlaceBetReserved ==
  ASSUME IInv, NEW p \in Players, NEW a \in Auctions, NEW limit \in Amounts,
         PlaceBet(p, a, limit)
  PROVE  limit >= market[a].start
<1> DEFINE m == market[a]
<1>1. Sound(m) /\ m.stage = "listed" /\ m.start \in Nat /\ limit \in Nat
  BY DEF IInv, Sound, Entry, PlaceBet, BiddingOpen, Listed
<1>2. CASE m.bets = <<>>
  BY <1>2 DEF PlaceBet, HighEnough
<1>3. CASE m.bets # <<>>
  <2>1. 1 \in DOMAIN m.bets /\ m.bets[1] \in Bet
    BY <1>1, <1>3, SoundBets, EmptySeq, LenProperties, ElementOfSeq DEF BetList
  <2>2. m.bets[1].max \in Nat /\ m.bets[1].max >= m.start
    BY <1>1, <2>1 DEF Sound, Bet
  <2>3. limit >= m.bets[1].max + 5
    BY <1>3 DEF PlaceBet, HighEnough
  <2>4. QED
    BY <1>1, <2>2, <2>3
<1>4. QED
  BY <1>2, <1>3

LEMMA PlaceBetIInv ==
  ASSUME IInv, ~hung, NEW p \in Players, NEW a \in Auctions, NEW limit \in Amounts,
         PlaceBet(p, a, limit)
  PROVE  IInv'
<1> DEFINE m == market[a]
           u == [m EXCEPT !.bets = PutBet(m.bets, p, limit)]
           v == [m EXCEPT !.bets = PutBet(m.bets, p, limit), !.ended = m.ended]
<1>1. Sound(m) /\ m.stage = "listed" /\ ~m.ended /\ p # m.seller /\ m \in Entry
  BY DEF IInv, Sound, PlaceBet, BiddingOpen, Listed
<1>2. limit >= m.start
  BY PlaceBetReserved
<1>3. Sound(v)
  BY <1>1, <1>2, PutBetSound DEF Entry
<1>4. u = v /\ u.stage = "listed"
  BY <1>1 DEF Entry
<1>5. gold' \in [Players -> Nat]
  BY ChargeType DEF PlaceBet, HighEnough
<1>6. SortAndSave(a, u)
  BY DEF PlaceBet, HighEnough
<1>7. QED
  BY <1>3, <1>4, <1>5, <1>6, SortAndSaveIInv

LEMMA BuyOutIInv ==
  ASSUME IInv, ~hung, NEW p \in Players, NEW a \in Auctions, BuyOut(p, a)
  PROVE  IInv'
<1> DEFINE m == market[a]
           u == [m EXCEPT !.bets = PutBet(m.bets, p, m.buyout), !.ended = TRUE]
<1>1. /\ Sound(m) /\ m.stage = "listed" /\ ~m.ended /\ p # m.seller /\ m \in Entry
      /\ m.bet <= m.buyout
  BY DEF IInv, Sound, BuyOut, BiddingOpen, Listed, BuyoutStands
<1>2. m.buyout \in Amounts
  BY <1>1 DEF BuyOut, Entry
<1>3. m.buyout >= m.start
  <2>1. m.buyout \in Nat /\ m.bet \in Nat /\ m.start \in Nat /\ m.bet >= m.start
    BY <1>1, <1>2 DEF Sound, Entry
  <2>2. QED
    BY <1>1, <2>1
<1>4. Sound(u)
  BY <1>1, <1>2, <1>3, PutBetSound
<1>5. u.stage = "listed"
  BY <1>1 DEF Entry
<1>6. gold' \in [Players -> Nat]
  BY <1>2, ChargeType DEF BuyOut
<1>7. SortAndSave(a, u)
  BY DEF BuyOut
<1>8. QED
  BY <1>4, <1>5, <1>6, <1>7, SortAndSaveIInv

LEMMA DeclareQuantityIInv ==
  ASSUME IInv, ~hung, NEW p \in Players, NEW a \in Auctions, DeclareQuantity(p, a)
  PROVE  IInv'
  BY SortAndSaveIInv DEF DeclareQuantity, IInv, TypeOK, Listed

\* An auction that ends early is still sound.
LEMMA EndedSound ==
  ASSUME NEW m, Sound(m), m.stage = "listed"
  PROVE  Sound([m EXCEPT !.ended = TRUE])
<1> DEFINE u == [m EXCEPT !.ended = TRUE]
<1>1. /\ u \in Entry /\ u.ended = TRUE /\ u.bets = m.bets /\ u.stage = m.stage
      /\ u.seller = m.seller /\ u.start = m.start /\ u.bet = m.bet
      /\ u.paid = m.paid /\ u.collected = m.collected
  BY DEF Sound, Entry
<1>2. QED
  BY <1>1 DEF Sound

LEMMA FinishIInv ==
  ASSUME IInv, ~hung, NEW p \in Players, NEW a \in Auctions, Finish(p, a)
  PROVE  IInv'
<1> DEFINE m == market[a]
           u == [m EXCEPT !.ended = TRUE]
<1>1. Sound(m) /\ m.stage = "listed" /\ market' = [market EXCEPT ![a] = u]
  BY DEF IInv, Finish, Listed
<1>2. Sound(u)
  BY <1>1, EndedSound
<1>3. /\ gold' = gold /\ stockFile' = stockFile /\ hung' = hung
      /\ \A b \in Auctions : market'[b] = IF b = a THEN u ELSE market[b]
  BY <1>1 DEF Finish, IInv, TypeOK
<1>4. TypeOK'
  BY <1>1, <1>2, <1>3 DEF IInv, TypeOK, Sound
<1>5. Current(u, stockFile[a])
  <2>1. Current(m, stockFile[a]) /\ m \in Entry
    BY <1>1 DEF IInv, Sound
  <2>2. /\ u.bets = m.bets /\ u.ended = TRUE
        /\ \A f : [m EXCEPT !.ended = f.ended, !.bet = f.bet, !.bets = f.bets]
                = [u EXCEPT !.ended = f.ended, !.bet = f.bet, !.bets = f.bets]
    BY <2>1 DEF Entry
  <2>3. QED
    BY <2>1, <2>2 DEF Current
<1>6. QED
  BY <1>2, <1>3, <1>4, <1>5 DEF IInv

LEMMA DeleteIInv ==
  ASSUME IInv, NEW p \in Players, NEW a \in Auctions, Delete(p, a)
  PROVE  IInv'
  BY SoundBlank, SavedIInv DEF Delete, IInv, TypeOK

\* What is left of an ended auction after a collection is sound, or it is
\* settled and removed.
LEMMA GatheredSound ==
  ASSUME NEW m, Sound(m), m.stage = "listed", m.ended, NEW p \in Players,
         (p = m.seller /\ ~m.paid) \/ (p # m.seller /\ Member(m.bets, p))
  PROVE  Sound(IF Settled(Gathered(p, m)) THEN Removed ELSE Gathered(p, m))
<1> DEFINE left == Gathered(p, m)
           i == Position(m.bets, p)
<1>0. BetList(m.bets) /\ m \in Entry /\ ~Member(m.bets, m.seller)
  BY SoundBets DEF Sound
<1> SUFFICES ASSUME ~Settled(left)
             PROVE  Sound(left)
  BY SoundBlank
<1>1. CASE p = m.seller
  <2>1. CASE m.collected \/ m.bets # <<>>
    <3>1. left = [m EXCEPT !.paid = TRUE]
      BY <1>1, <2>1 DEF Gathered
    <3>2. /\ left \in Entry /\ left.paid = TRUE /\ left.bets = m.bets /\ left.stage = "listed"
          /\ left.seller = m.seller /\ left.start = m.start /\ left.bet = m.bet
          /\ left.ended = m.ended /\ left.collected = m.collected
      BY <1>0, <3>1 DEF Entry
    <3>3. left.bets # <<>>
      BY <2>1, <3>2 DEF Settled
    <3>4. QED
      BY <3>2, <3>3 DEF Sound
  <2>2. CASE ~(m.collected \/ m.bets # <<>>)
    <3>1. left = [m EXCEPT !.paid = TRUE, !.collected = TRUE]
      BY <1>1, <2>2 DEF Gathered
    <3>2. left.paid /\ left.collected /\ left.bets = <<>>
      BY <1>0, <2>2, <3>1 DEF Entry
    <3>3. QED
      BY <3>2 DEF Settled
  <2>3. QED
    BY <2>1, <2>2
<1>2. CASE p # m.seller
  <2>1. i \in DOMAIN m.bets /\ m.bets[i].name = p
    BY <1>2, MemberPosition
  <2>2. m.bets[1].name = p => i = 1
    <3>1. 1 \in DOMAIN m.bets
      BY <1>0, <2>1, LenProperties DEF BetList
    <3>2. QED
      BY <1>0, <2>1, <3>1 DEF BetList, DistinctNames
  <2> DEFINE rest == Unlink(m.bets, i)
  <2>3. /\ BetList(rest) /\ ~Member(rest, m.seller) /\ Elements(rest) \subseteq Elements(m.bets)
        /\ i # 1 => rest # <<>>
    BY <1>0, <2>1, UnlinkProperties
  <2>4. \A j \in DOMAIN rest : rest[j].max >= m.start
    BY <2>3 DEF Elements, Sound
  <2>5. ASSUME NEW collected \in BOOLEAN, left = [m EXCEPT !.collected = collected, !.bets = rest],
               collected \/ i # 1
        PROVE  Sound(left)
    <3>1. /\ left \in Entry /\ left.bets = rest /\ left.stage = "listed" /\ left.collected = collected
          /\ left.seller = m.seller /\ left.start = m.start /\ left.bet = m.bet
          /\ left.ended = m.ended /\ left.paid = m.paid
      BY <1>0, <2>3, <2>5 DEF Entry, BetList
    <3>2. ~left.paid \/ left.bets # <<>>
      BY <2>3, <2>5, <3>1 DEF Settled
    <3>3. QED
      BY <2>3, <2>4, <3>1, <3>2 DEF Sound, BetList
  <2>6. CASE m.bets[1].name = p /\ ~m.collected
    <3>1. left = [m EXCEPT !.collected = TRUE, !.bets = rest]
      BY <1>2, <2>2, <2>6 DEF Gathered
    <3>2. QED
      BY <2>5, <3>1
  <2>7. CASE ~(m.bets[1].name = p /\ ~m.collected)
    <3>1. left = [m EXCEPT !.bets = rest]
      BY <1>2, <2>7 DEF Gathered
    <3>2. left = [m EXCEPT !.collected = m.collected, !.bets = rest] /\ m.collected \in BOOLEAN
      BY <1>0, <3>1 DEF Entry
    <3>3. m.collected \/ i # 1
      BY <2>1, <2>7
    <3>4. QED
      BY <2>5, <3>2, <3>3
  <2>8. QED
    BY <2>6, <2>7
<1>3. QED
  BY <1>1, <1>2

\* Nobody has to pay for collecting.
LEMMA ProceedsType ==
  ASSUME NEW m, Sound(m), NEW p
  PROVE  Proceeds(p, m) \in Nat
<1>1. m.bet \in Nat
  BY DEF Sound, Entry
<1>2. m.bet - Tax(m.bet) \in Nat
  BY <1>1, TaxBounded
<1>3. Deposit(m.bets, p) \in Nat
  BY SoundBets, DepositType
<1>4. QED
  BY <1>2, <1>3 DEF Proceeds

LEMMA CollectIInv ==
  ASSUME IInv, NEW p \in Players, NEW a \in Auctions, Collect(p, a)
  PROVE  IInv'
<1> DEFINE m == market[a]
           left == Gathered(p, m)
<1>1. Sound(m) /\ m.stage = "listed" /\ m.ended
  BY DEF IInv, Collect, Listed
<1>2. Sound(IF Settled(left) THEN Removed ELSE left)
  BY <1>1, GatheredSound DEF Collect
<1>3. gold' \in [Players -> Nat]
  <2>1. Proceeds(p, m) \in Nat /\ gold[p] \in Nat
    BY <1>1, ProceedsType DEF IInv, TypeOK
  <2>2. gold[p] + Proceeds(p, m) \in Nat
    BY <2>1
  <2>3. QED
    BY <2>2 DEF Collect, IInv, TypeOK
<1>4. QED
  BY <1>2, <1>3, SavedIInv DEF Collect

LEMMA ExpireIInv ==
  ASSUME IInv, ~hung, NEW a \in Auctions, Expire(a)
  PROVE  IInv'
<1> DEFINE m == market[a]
           f == stockFile[a]
           u == [m EXCEPT !.ended = TRUE]
           g == [f EXCEPT !.ended = TRUE]
<1>1. /\ Sound(m) /\ Sound(f) /\ Current(m, f) /\ f.stage = "listed"
      /\ market' = [market EXCEPT ![a] = u] /\ stockFile' = [stockFile EXCEPT ![a] = g]
  BY DEF IInv, Expire
<1>2. m \in Entry /\ f \in Entry /\ m.stage = "listed"
  BY <1>1 DEF Sound, Current, Entry
<1>3. Sound(u) /\ Sound(g)
  BY <1>1, <1>2, EndedSound
<1>4. Current(u, g)
  <2>1. g = [u EXCEPT !.ended = g.ended, !.bet = g.bet, !.bets = g.bets]
    BY <1>1, <1>2 DEF Current, Entry
  <2>2. u.bets = m.bets /\ g.bets = f.bets /\ u.ended = TRUE
    BY <1>2 DEF Entry
  <2>3. QED
    BY <1>1, <2>1, <2>2 DEF Current
<1>5. gold' = gold /\ hung' = hung
  BY DEF Expire
<1>6. u \in Entry /\ g \in Entry
  BY <1>3 DEF Sound
<1>7. market \in [Auctions -> Entry] /\ stockFile \in [Auctions -> Entry]
  BY DEF IInv, TypeOK
<1>8. \A b \in Auctions : market'[b] = IF b = a THEN u ELSE market[b]
  BY <1>1, <1>7
<1>9. \A b \in Auctions : stockFile'[b] = IF b = a THEN g ELSE stockFile[b]
  BY <1>1, <1>7
<1>10. market' \in [Auctions -> Entry] /\ stockFile' \in [Auctions -> Entry]
  BY <1>1, <1>6, <1>7
<1> HIDE DEF u, g
<1>11. \A b \in Auctions : Sound(market'[b]) /\ Sound(stockFile'[b]) /\ Current(market'[b], stockFile'[b])
  BY <1>3, <1>4, <1>8, <1>9 DEF IInv
<1>12. QED
  BY <1>5, <1>10, <1>11 DEF IInv, TypeOK

LEMMA RebootIInv ==
  ASSUME IInv, Reboot
  PROVE  IInv'
<1> DEFINE loops == \E a \in Auctions : SortLoops(stockFile[a].bets)
<1>1. gold' = gold /\ stockFile' = stockFile
  BY DEF Reboot
<1>2. CASE loops
  BY <1>1, <1>2 DEF Reboot, IInv, TypeOK
<1>3. CASE ~loops
  <2>1. market' = [a \in Auctions |-> Reloaded(stockFile[a])] /\ hung' = FALSE
    BY <1>3 DEF Reboot
  <2>2. ASSUME NEW a \in Auctions
        PROVE  Sound(Reloaded(stockFile[a])) /\ Current(Reloaded(stockFile[a]), stockFile[a])
    <3>1. Sound(stockFile[a]) /\ ~SortLoops(stockFile[a].bets)
      BY <1>3 DEF IInv
    <3>2. QED
      BY <3>1, SortedSound, CurrentReflexive DEF Reloaded
  <2>3. TypeOK'
    BY <1>1, <2>1, <2>2 DEF IInv, TypeOK, Sound
  <2>4. QED
    BY <1>1, <2>1, <2>2, <2>3 DEF IInv
<1>4. QED
  BY <1>2, <1>3

LEMMA NextIInv == IInv /\ [Next]_vars => IInv'
<1> SUFFICES ASSUME IInv, [Next]_vars
             PROVE  IInv'
  OBVIOUS
<1>1. CASE UNCHANGED vars
  BY <1>1 DEF vars, IInv, TypeOK
<1>2. CASE Next
  <2>1. ASSUME NEW p \in Players, NEW a \in Auctions, PlayerStep(p, a)
        PROVE  IInv'
    BY <1>2, <2>1, PublishIInv, PlaceBetIInv, BuyOutIInv, DeclareQuantityIInv, FinishIInv,
       DeleteIInv, CollectIInv DEF PlayerStep, Next
  <2>2. ASSUME NEW a \in Auctions, Expire(a)
        PROVE  IInv'
    BY <1>2, <2>2, ExpireIInv DEF Next
  <2>3. CASE Reboot
    BY <2>3, RebootIInv
  <2>4. QED
    BY <1>2, <2>1, <2>2, <2>3 DEF Next
<1>3. QED
  BY <1>1, <1>2

LEMMA IInvHolds == Spec => []IInv
  BY InitIInv, NextIInv, PTL DEF Spec

---------------------------------------------------------------------------
(* The properties.                                                         *)

\* Nobody's gold ever gets below zero, whatever the order of the bets, and
\* lists, prices and files keep their types.
THEOREM HouseTypeCorrect == Spec => []TypeOK
<1>1. IInv => TypeOK
  BY DEF IInv
<1>2. QED
  BY <1>1, IInvHolds, PTL

\* What a crash would reload is what the players were told (save_stock_market
\* is called by every command that takes or gives gold or the item).
THEOREM HouseFileCurrent == Spec => []StockFileCurrent
<1>1. IInv => StockFileCurrent
  BY DEF IInv, Current, StockFileCurrent
<1>2. QED
  BY <1>1, IInvHolds, PTL

\* Whatever order winner, losers and seller collect in, an auction that is still
\* listed is one somebody can collect from (auction_collect).
THEOREM HouseSettleable == Spec => []Settleable
<1>1. IInv => Settleable
  BY DEF IInv, Sound, Settleable, Listed
<1>2. QED
  BY <1>1, IInvHolds, PTL

\* A player has one bet in an auction and the seller none, through any order of
\* bids, buyouts, collections and reloads, and nobody wins below the reserve, for
\* every sort that permutes the list (get_auction_member, do_bet,
\* sort_auction_members, set_auction_price).
THEOREM HouseFairBets == Spec => []FairBets
<1>1. IInv => BettorsDistinct
  BY DEF IInv, Sound, BettorsDistinct
<1>2. IInv => ReserveMet
  BY DEF IInv, Sound, ReserveMet, Listed
<1>3. IInv => FairBets
  BY <1>1, <1>2 DEF FairBets
<1>4. QED
  BY <1>3, IInvHolds, PTL

\* What WinnerStands says of a step.
WinnerKept ==
  \A a \in Auctions :
    LET m == market[a] IN
    Listed(a) /\ m.ended /\ ~m.collected /\ m.bets # <<>> =>
      \/ Reboot
      \/ market'[a].stage = "removed"
      \/ market'[a].collected
      \/ market'[a].bets # <<>> /\ market'[a].bets[1] = m.bets[1]

\* A step that leaves the bets of every ended auction alone keeps its winner.
LEMMA UntouchedWinner ==
  ASSUME \A a \in Auctions : Listed(a) /\ market[a].ended => market'[a].bets = market[a].bets
  PROVE  WinnerKept
  BY DEF WinnerKept

\* Nobody but the winner himself takes the first bet from an ended auction
\* whose item is still there.
LEMMA CollectKeepsWinner ==
  ASSUME IInv, NEW p \in Players, NEW a \in Auctions, Collect(p, a)
  PROVE  WinnerKept
<1> DEFINE m == market[a]
           left == Gathered(p, m)
<1>1. /\ Sound(m) /\ m \in Entry /\ BetList(m.bets) /\ market \in [Auctions -> Entry]
      /\ market' = [market EXCEPT ![a] = IF Settled(left) THEN Removed ELSE left]
  BY SoundBets DEF IInv, TypeOK, Sound, Collect
<1>2. \A b \in Auctions : b # a => market'[b] = market[b]
  BY <1>1
<1>3. CASE Settled(left)
  <2>1. market'[a].stage = "removed"
    BY <1>1, <1>3 DEF Removed, Unborn
  <2>2. QED
    BY <1>2, <2>1 DEF WinnerKept
<1>4. CASE ~Settled(left) /\ ~m.collected /\ m.bets # <<>>
  <2>0. market'[a] = left
    BY <1>1, <1>4
  <2>1. CASE p = m.seller
    <3>1. left.bets = m.bets
      BY <1>1, <2>1 DEF Gathered, Entry
    <3>2. QED
      BY <1>2, <1>4, <2>0, <3>1 DEF WinnerKept
  <2>2. CASE p # m.seller /\ m.bets[1].name = p
    <3>1. left.collected = TRUE
      BY <1>1, <1>4, <2>2 DEF Gathered, Entry
    <3>2. QED
      BY <1>2, <2>0, <3>1 DEF WinnerKept
  <2>3. CASE p # m.seller /\ m.bets[1].name # p
    <3> DEFINE i == Position(m.bets, p)
    <3>1. i \in DOMAIN m.bets /\ m.bets[i].name = p
      BY <2>3, MemberPosition DEF Collect
    <3>2. left.bets = Unlink(m.bets, i)
      BY <1>1, <2>3 DEF Gathered, Entry
    <3>3. left.bets # <<>> /\ left.bets[1] = m.bets[1]
      BY <1>1, <2>3, <3>1, <3>2, UnlinkProperties
    <3>4. QED
      BY <1>2, <2>0, <3>3 DEF WinnerKept
  <2>4. QED
    BY <2>1, <2>2, <2>3
<1>5. CASE m.collected \/ m.bets = <<>>
  BY <1>2, <1>5 DEF WinnerKept
<1>6. QED
  BY <1>3, <1>4, <1>5

\* Once an auction has ended, its winner stands until he has the item.
THEOREM HouseKeepsWinner == Spec => WinnerStands
<1>1. IInv /\ [Next]_vars => [WinnerKept]_vars
  <2> SUFFICES ASSUME IInv, Next
               PROVE  WinnerKept
    OBVIOUS
  <2>0. market \in [Auctions -> Entry]
    BY DEF IInv, TypeOK
  <2>1. ASSUME NEW p \in Players, NEW a \in Auctions, PlayerStep(p, a)
        PROVE  WinnerKept
    <3>1. CASE \E start \in Amounts, buyout \in Buyouts, lot \in Lots : Publish(p, a, start, buyout, lot)
      <4>1. ~Listed(a) /\ \A b \in Auctions : b # a => market'[b] = market[b]
        BY <2>0, <3>1 DEF Publish, Listed
      <4>2. QED
        BY <4>1, UntouchedWinner
    <3>2. CASE (\E limit \in Amounts : PlaceBet(p, a, limit)) \/ BuyOut(p, a) \/ DeclareQuantity(p, a)
      <4>1. ~market[a].ended /\ \A b \in Auctions : b # a => market'[b] = market[b]
        BY <2>0, <3>2 DEF PlaceBet, BuyOut, DeclareQuantity, BiddingOpen, SortAndSave
      <4>2. QED
        BY <4>1, UntouchedWinner
    <3>3. CASE Finish(p, a)
      <4>1. \A b \in Auctions : market'[b].bets = market[b].bets
        BY <2>0, <3>3 DEF Finish, Entry
      <4>2. QED
        BY <4>1, UntouchedWinner
    <3>4. CASE Delete(p, a)
      <4>1. market'[a].stage = "removed" /\ \A b \in Auctions : b # a => market'[b] = market[b]
        BY <2>0, <3>4 DEF Delete, Removed, Unborn
      <4>2. QED
        BY <4>1 DEF WinnerKept
    <3>5. CASE Collect(p, a)
      BY <3>5, CollectKeepsWinner
    <3>6. QED
      BY <2>1, <3>1, <3>2, <3>3, <3>4, <3>5 DEF PlayerStep
  <2>2. ASSUME NEW a \in Auctions, Expire(a)
        PROVE  WinnerKept
    <3>1. \A b \in Auctions : market'[b].bets = market[b].bets
      BY <2>0, <2>2 DEF Expire, Entry
    <3>2. QED
      BY <3>1, UntouchedWinner
  <2>3. CASE Reboot
    BY <2>3 DEF WinnerKept
  <2>4. QED
    BY <2>1, <2>2, <2>3 DEF Next
<1>2. QED
  BY <1>1, IInvHolds, PTL DEF Spec, WinnerStands, WinnerKept

---------------------------------------------------------------------------
(* The exchange implements Escrow.                                         *)


\* The deals the auctions are, as the substitution in Ledger has them.
Deals == [a \in Auctions |-> DealOf(market[a])]

\* The deposits of a list of bets.
Held(bets) == [p \in Players |-> Deposit(bets, p)]

---------------------------------------------------------------------------
(* The mapping on one auction.                                             *)

LEMMA DealOfListed ==
  ASSUME NEW m, m.stage = "listed"
  PROVE  DealOf(m) = [stage |-> IF m.ended THEN "closed" ELSE "open",
                      held |-> Held(m.bets), sold |-> m.collected, paid |-> m.paid]
  BY DEF DealOf, Held

LEMMA HeldNothing == Held(<<>>) = Ledger!Nothing
<1>1. DOMAIN <<>> = {}
  BY EmptySeq, LenProperties
<1>2. \A p \in Players : Deposit(<<>>, p) = 0
  BY <1>1 DEF Deposit, Member
<1>3. QED
  BY <1>2 DEF Held, Ledger!Nothing

LEMMA DealOfUnborn == DealOf(Unborn) = Ledger!Unmade
<1>1. /\ Unborn.stage = "unborn" /\ Unborn.bets = <<>>
      /\ Unborn.collected = FALSE /\ Unborn.paid = FALSE
  BY DEF Unborn
<1>2. DealOf(Unborn) = [stage |-> "unmade", held |-> Held(<<>>), sold |-> FALSE, paid |-> FALSE]
  BY <1>1 DEF DealOf, Held
<1>3. QED
  BY <1>2, HeldNothing DEF Ledger!Unmade, Ledger!Deal

LEMMA DealOfRemoved == DealOf(Removed) = Ledger!Gone
<1>1. /\ Removed.stage = "removed" /\ Removed.bets = <<>>
      /\ Removed.collected = FALSE /\ Removed.paid = FALSE
  BY DEF Unborn, Removed
<1>2. DealOf(Removed) = [stage |-> "gone", held |-> Held(<<>>), sold |-> FALSE, paid |-> FALSE]
  BY <1>1 DEF DealOf, Held
<1>3. QED
  BY <1>2, HeldNothing DEF Ledger!Gone, Ledger!Deal

\* A step that changes one auction changes one deal.
LEMMA OneDeal ==
  ASSUME IInv, NEW a \in Auctions, NEW m, market' = [market EXCEPT ![a] = m]
  PROVE  Deals' = [Deals EXCEPT ![a] = DealOf(m)]
  BY DEF Deals, IInv, TypeOK

\* Sorting an auction does not change the deal it is.
LEMMA DealOfSorted ==
  ASSUME NEW m, Sound(m), m.stage = "listed", ~SortLoops(m.bets)
  PROVE  DealOf(Sorted(m)) = DealOf(m)
<1> DEFINE t == SortBets(m.bets)
           u == Sorted(m)
<1>1. BetList(m.bets) /\ m \in Entry /\ IsReordering(t, m.bets)
  BY SoundBets, SortReorders DEF Sound
<1>2. /\ u.stage = m.stage /\ u.ended = m.ended /\ u.collected = m.collected
      /\ u.paid = m.paid /\ u.bets = t
  BY <1>1 DEF Sorted, Entry
<1>3. Held(t) = Held(m.bets)
  BY <1>1, ReorderingProperties DEF Held
<1>4. QED
  BY <1>2, <1>3, DealOfListed

\* So the three commands that sort change the deal to that of the bets they
\* were about to sort.
LEMMA SortAndSaveDeal ==
  ASSUME IInv, NEW a \in Auctions, NEW m, Sound(m), m.stage = "listed", SortAndSave(a, m)
  PROVE  Deals' = [Deals EXCEPT ![a] = DealOf(m)]
<1>1. CASE SortLoops(m.bets)
  BY <1>1, OneDeal DEF SortAndSave
<1>2. CASE ~SortLoops(m.bets)
  BY <1>2, OneDeal, DealOfSorted DEF SortAndSave
<1>3. QED
  BY <1>1, <1>2

---------------------------------------------------------------------------
(* Every step is a step of the escrow or none.                             *)

LEMMA InitEscrow == Init => Ledger!Init
<1> SUFFICES ASSUME Init
             PROVE  Ledger!Init
  OBVIOUS
<1>1. Deals = [a \in Auctions |-> Ledger!Unmade]
  BY DealOfUnborn DEF Init, Deals
<1>2. gold \in [Players -> Nat]
  BY HouseFacts DEF Init
<1>3. QED
  BY <1>1, <1>2 DEF Ledger!Init, Deals

LEMMA PublishEscrow ==
  ASSUME IInv, NEW p \in Players, NEW a \in Auctions,
         NEW start \in Amounts, NEW buyout \in Buyouts, NEW lot \in Lots,
         Publish(p, a, start, buyout, lot)
  PROVE  Ledger!Make(a)
<1> DEFINE m == [Unborn EXCEPT !.stage = "listed", !.seller = p, !.start = start,
                   !.buyout = buyout, !.lot = lot, !.bet = start]
<1>1. m.stage = "listed" /\ m.bets = <<>> /\ ~m.ended /\ m.ended = FALSE /\ m.collected = FALSE /\ m.paid = FALSE
  BY DEF Unborn
<1>2. DealOf(m) = Ledger!Deal("open", Ledger!Nothing, FALSE, FALSE)
  BY <1>1, DealOfListed, HeldNothing DEF Ledger!Deal
<1>3. Deals' = [Deals EXCEPT ![a] = DealOf(m)]
  BY OneDeal DEF Publish
<1>4. Deals[a] = Ledger!Unmade
  BY DealOfUnborn DEF Deals, Publish, IInv, Sound
<1>5. gold' = gold
  BY DEF Publish
<1>6. QED
  BY <1>2, <1>3, <1>4, <1>5 DEF Ledger!Make, Deals

\* What the charge and the new bet are to the escrow.
LEMMA BetEscrow ==
  ASSUME IInv, NEW p \in Players, NEW a \in Auctions, NEW limit \in Amounts, NEW ended \in BOOLEAN,
         BiddingOpen(p, a), Affords(p, a, limit), Charge(p, a, limit), limit >= market[a].start,
         SortAndSave(a, [market[a] EXCEPT !.bets = PutBet(market[a].bets, p, limit), !.ended = ended])
  PROVE  Ledger!Stake(p, a, limit, IF ended THEN "closed" ELSE "open")
<1> DEFINE m == market[a]
           u == [m EXCEPT !.bets = PutBet(m.bets, p, limit), !.ended = ended]
           stage == IF ended THEN "closed" ELSE "open"
<1>1. Sound(m) /\ m \in Entry /\ BetList(m.bets) /\ m.stage = "listed" /\ ~m.ended /\ p # m.seller
  BY SoundBets DEF IInv, Sound, BiddingOpen, Listed
<1>2. Sound(u)
  BY <1>1, PutBetSound
<1>3. /\ u.stage = "listed" /\ u.bets = PutBet(m.bets, p, limit) /\ u.ended = ended
      /\ u.collected = m.collected /\ u.paid = m.paid
  BY <1>1 DEF Entry
<1>4. Held(u.bets) = [Held(m.bets) EXCEPT ![p] = limit]
  <2>1. \A q : Deposit(PutBet(m.bets, p, limit), q) = IF q = p THEN limit ELSE Deposit(m.bets, q)
    BY <1>1, PutBetProperties
  <2>2. QED
    BY <1>3, <2>1 DEF Held
<1>5. /\ DealOf(m) = [stage |-> "open", held |-> Held(m.bets), sold |-> m.collected, paid |-> m.paid]
      /\ DealOf(u) = [stage |-> stage, held |-> Held(u.bets), sold |-> m.collected, paid |-> m.paid]
  BY <1>1, <1>3, DealOfListed
<1>6. Deals' = [Deals EXCEPT ![a] = DealOf(u)] /\ Deals[a] = DealOf(m)
  BY <1>2, <1>3, SortAndSaveDeal DEF Deals
<1>7. Deals' = [Deals EXCEPT ![a] = Ledger!Deal(stage, [Deals[a].held EXCEPT ![p] = limit],
                                               Deals[a].sold, Deals[a].paid)]
  <2>1. /\ Deals[a].held = Held(m.bets)
        /\ Deals[a].sold = m.collected /\ Deals[a].paid = m.paid
    BY <1>5, <1>6
  <2>2. DealOf(u) = Ledger!Deal(stage, Held(u.bets), m.collected, m.paid)
    BY <1>5 DEF Ledger!Deal
  <2>3. QED
    BY <1>4, <1>6, <2>1, <2>2
<1>8. Deals[a].held[p] = Deposit(m.bets, p) /\ Deals[a].stage = "open"
  BY <1>5, <1>6 DEF Held
<1>9. Deposit(m.bets, p) \in Nat /\ gold[p] \in Nat /\ gold[p] >= limit /\ limit \in Nat
  <2>1. Deposit(m.bets, p) \in Nat
    BY <1>1, DepositType
  <2>2. gold[p] \in Nat /\ gold[p] >= limit
    BY DEF IInv, TypeOK, Affords
  <2>3. limit \in Nat
    BY HouseFacts
  <2>4. QED
    BY <2>1, <2>2, <2>3
<1>10. gold' = [gold EXCEPT ![p] = gold[p] + Deals[a].held[p] - limit]
  <2>1. gold[p] - (limit - Deposit(m.bets, p)) = gold[p] + Deposit(m.bets, p) - limit
    BY <1>9
  <2>2. QED
    BY <1>8, <2>1 DEF Charge
<1>11. gold[p] + Deals[a].held[p] >= limit
  BY <1>8, <1>9
<1>12. QED
  BY <1>7, <1>8, <1>10, <1>11 DEF Ledger!Stake, Deals

\* What a command of a player is to the escrow.
EscrowStep == Ledger!Next \/ UNCHANGED <<gold, Deals>>

LEMMA PlaceBetEscrow ==
  ASSUME IInv, NEW p \in Players, NEW a \in Auctions, NEW limit \in Amounts, PlaceBet(p, a, limit)
  PROVE  EscrowStep
<1> DEFINE m == market[a]
<1>1. m \in Entry /\ ~m.ended /\ BiddingOpen(p, a) /\ limit >= m.start
  BY PlaceBetReserved DEF IInv, TypeOK, PlaceBet, BiddingOpen
<1>2. [m EXCEPT !.bets = PutBet(m.bets, p, limit)]
      = [m EXCEPT !.bets = PutBet(m.bets, p, limit), !.ended = FALSE]
  BY <1>1 DEF Entry
<1>3. Ledger!Stake(p, a, limit, "open")
  BY <1>1, <1>2, BetEscrow DEF PlaceBet
<1>4. QED
  BY <1>3 DEF EscrowStep, Ledger!Next

LEMMA BuyOutEscrow ==
  ASSUME IInv, NEW p \in Players, NEW a \in Auctions, BuyOut(p, a)
  PROVE  EscrowStep
<1> DEFINE m == market[a]
<1>1. /\ BiddingOpen(p, a) /\ m.bet <= m.buyout
      /\ m.bet \in Nat /\ m.start \in Nat /\ m.bet >= m.start
      /\ m.buyout \in Amounts
  <2>1. Sound(m) /\ BiddingOpen(p, a) /\ m.stage = "listed" /\ m.buyout # 0 /\ m.bet <= m.buyout
    BY DEF IInv, BuyOut, BiddingOpen, BuyoutStands, Listed
  <2>2. m \in Entry /\ m.bet >= m.start
    BY <2>1 DEF Sound
  <2>3. m.bet \in Nat /\ m.start \in Nat /\ m.buyout \in Buyouts \cup {0}
    BY <2>2 DEF Entry
  <2>4. m.buyout \in Amounts
    BY <2>1, <2>3, HouseFacts
  <2>5. QED
    BY <2>1, <2>2, <2>3, <2>4
<1>2. m.buyout >= m.start
  <2>1. m.buyout \in Nat
    BY <1>1, HouseFacts
  <2>2. QED
    BY <1>1, <2>1
<1>3. Ledger!Stake(p, a, m.buyout, "closed")
  BY <1>1, <1>2, BetEscrow DEF BuyOut
<1>4. QED
  BY <1>1, <1>3 DEF EscrowStep, Ledger!Next

\* A step that gives one auction another deal, which is the same one.
LEMMA SameDeal ==
  ASSUME NEW a \in Auctions, NEW d, d = Deals[a], Deals' = [Deals EXCEPT ![a] = d], gold' = gold
  PROVE  EscrowStep
  BY DEF EscrowStep, Deals

LEMMA DeclareQuantityEscrow ==
  ASSUME IInv, NEW p \in Players, NEW a \in Auctions, DeclareQuantity(p, a)
  PROVE  EscrowStep
<1>1. Deals' = [Deals EXCEPT ![a] = DealOf(market[a])]
  BY SortAndSaveDeal DEF IInv, DeclareQuantity, Listed
<1>2. QED
  BY <1>1, SameDeal DEF DeclareQuantity, Deals

\* Ending an auction closes its deal, unless it was closed.
LEMMA EndEscrow ==
  ASSUME IInv, NEW a \in Auctions, Listed(a), gold' = gold,
         market' = [market EXCEPT ![a].ended = TRUE]
  PROVE  EscrowStep
<1> DEFINE m == market[a]
           u == [m EXCEPT !.ended = TRUE]
<1>1. m \in Entry /\ m.stage = "listed" /\ market' = [market EXCEPT ![a] = u]
  BY DEF IInv, TypeOK, Listed
<1>2. /\ u.stage = "listed" /\ u.ended = TRUE /\ u.bets = m.bets
      /\ u.collected = m.collected /\ u.paid = m.paid
  BY <1>1 DEF Entry
<1>3. /\ Deals[a] = [stage |-> IF m.ended THEN "closed" ELSE "open", held |-> Held(m.bets),
                    sold |-> m.collected, paid |-> m.paid]
      /\ DealOf(u) = [stage |-> "closed", held |-> Held(m.bets), sold |-> m.collected, paid |-> m.paid]
  BY <1>1, <1>2, DealOfListed DEF Deals
<1>4. Deals' = [Deals EXCEPT ![a] = DealOf(u)]
  BY <1>1, OneDeal
<1>5. CASE m.ended
  BY <1>3, <1>4, <1>5, SameDeal
<1>6. CASE ~m.ended
  <2>1. DealOf(u) = [Deals[a] EXCEPT !.stage = "closed"] /\ Deals[a].stage = "open"
    BY <1>3, <1>6
  <2>2. Deals' = [Deals EXCEPT ![a].stage = "closed"]
    BY <1>4, <2>1
  <2>3. Ledger!Close(a)
    BY <2>1, <2>2 DEF Ledger!Close, Deals
  <2>4. QED
    BY <2>3 DEF EscrowStep, Ledger!Next
<1>7. QED
  BY <1>5, <1>6

LEMMA DeleteEscrow ==
  ASSUME IInv, NEW p \in Players, NEW a \in Auctions, Delete(p, a)
  PROVE  EscrowStep
<1>1. Deals[a].stage \in {"open", "closed"}
  BY DealOfListed DEF Delete, Listed, Deals
<1>2. Deals' = [Deals EXCEPT ![a] = Ledger!Gone]
  BY OneDeal, DealOfRemoved DEF Delete
<1>3. Ledger!Cancel(a)
  BY <1>1, <1>2 DEF Delete, Ledger!Cancel, Deals
<1>4. QED
  BY <1>3 DEF EscrowStep, Ledger!Next

LEMMA CollectEscrow ==
  ASSUME IInv, NEW p \in Players, NEW a \in Auctions, Collect(p, a)
  PROVE  EscrowStep
<1> DEFINE m == market[a]
           left == Gathered(p, m)
           i == Position(m.bets, p)
           deal == [stage |-> "closed", held |-> Held(m.bets), sold |-> m.collected, paid |-> m.paid]
<1>1. Sound(m) /\ m \in Entry /\ m.stage = "listed" /\ m.ended /\ BetList(m.bets)
  BY SoundBets DEF IInv, Sound, Collect, Listed
<1>2. Deals[a] = deal
  BY <1>1, DealOfListed DEF Deals
<1>3. Deals' = [Deals EXCEPT ![a] = IF Settled(left) THEN Ledger!Gone ELSE DealOf(left)]
  BY OneDeal, DealOfRemoved DEF Collect
<1>4. gold' = [gold EXCEPT ![p] = gold[p] + Proceeds(p, m)] /\ gold \in [Players -> Nat]
  BY DEF Collect, IInv, TypeOK
<1>5. Settled(left) => Held(left.bets) = Ledger!Nothing
  BY HeldNothing DEF Settled
<1>6. ASSUME NEW d, left.stage = "listed", left.ended, DealOf(left) = d, d.held = Held(left.bets)
      PROVE  Ledger!Leave(a, d)
  BY <1>3, <1>5, <1>6 DEF Ledger!Leave, Deals
<1>7. CASE p = m.seller /\ (m.collected \/ m.bets # <<>>)
  <2>1. left = [m EXCEPT !.paid = TRUE]
    BY <1>7 DEF Gathered
  <2>2. /\ left.stage = "listed" /\ left.ended /\ left.bets = m.bets
        /\ left.collected = m.collected /\ left.paid = TRUE
    BY <1>1, <2>1 DEF Entry
  <2>3. DealOf(left) = Ledger!Deal("closed", Deals[a].held, Deals[a].sold, TRUE)
        /\ DealOf(left).held = Held(left.bets)
    <3>1. DealOf(left) = [stage |-> "closed", held |-> Held(m.bets), sold |-> m.collected, paid |-> TRUE]
      BY <2>2, DealOfListed
    <3>2. Deals[a].held = Held(m.bets) /\ Deals[a].sold = m.collected
      BY <1>2
    <3>3. QED
      BY <2>2, <3>1, <3>2 DEF Ledger!Deal
  <2>4. Ledger!Leave(a, Ledger!Deal("closed", Deals[a].held, Deals[a].sold, TRUE))
    BY <1>6, <2>2, <2>3
  <2>5. gold'[p] = gold[p] + Proceeds(p, m) /\ Proceeds(p, m) \in Nat /\ gold[p] \in Nat
    BY <1>1, <1>4, ProceedsType
  <2>6. gold'[p] >= gold[p] /\ gold' = [gold EXCEPT ![p] = gold'[p]]
    BY <1>4, <2>5
  <2>7. Deals[a].stage = "closed" /\ ~Deals[a].paid
    BY <1>2, <1>7 DEF Collect
  <2>8. Ledger!Pay(p, a)
    BY <2>4, <2>6, <2>7 DEF Ledger!Pay, Deals
  <2>9. QED
    BY <2>8 DEF EscrowStep, Ledger!Next
<1>8. CASE p = m.seller /\ ~(m.collected \/ m.bets # <<>>)
  <2>1. Settled(left)
    BY <1>1, <1>8 DEF Gathered, Settled, Entry
  <2>2. Deals' = [Deals EXCEPT ![a] = Ledger!Gone]
    BY <1>3, <2>1
  <2>3. gold' = gold
    BY <1>4, <1>8 DEF Proceeds
  <2>4. Deals[a].stage = "closed" /\ ~Deals[a].sold /\ ~Deals[a].paid /\ Deals[a].held = Ledger!Nothing
    BY <1>2, <1>8, HeldNothing DEF Collect
  <2>5. Ledger!Withdraw(a)
    BY <2>2, <2>3, <2>4 DEF Ledger!Withdraw, Deals
  <2>6. QED
    BY <2>5 DEF EscrowStep, Ledger!Next
<1>9. CASE p # m.seller
  <2>1. Member(m.bets, p) /\ i \in DOMAIN m.bets /\ m.bets[i].name = p
    BY <1>9, MemberPosition DEF Collect
  <2>2. m.bets[1].name = p => i = 1
    <3>1. 1 \in DOMAIN m.bets
      BY <1>1, <2>1, LenProperties DEF BetList
    <3>2. QED
      BY <1>1, <2>1, <3>1 DEF BetList, DistinctNames
  <2> DEFINE rest == Unlink(m.bets, i)
  <2>3. Held(rest) = [Held(m.bets) EXCEPT ![p] = 0]
    <3>1. \A q : Deposit(rest, q) = IF q = p THEN 0 ELSE Deposit(m.bets, q)
      BY <1>1, <2>1, UnlinkProperties
    <3>2. QED
      BY <3>1 DEF Held
  <2>4. Deals[a].stage = "closed" /\ Deals[a].held[p] = Deposit(m.bets, p) /\ Deposit(m.bets, p) > 0
    BY <1>1, <1>2, <2>1, DepositType DEF Held
  <2>5. CASE m.bets[1].name = p /\ ~m.collected
    <3>1. left = [m EXCEPT !.collected = TRUE, !.bets = rest]
      BY <1>9, <2>2, <2>5 DEF Gathered
    <3>2. /\ left.stage = "listed" /\ left.ended /\ left.bets = rest
          /\ left.collected = TRUE /\ left.paid = m.paid
      BY <1>1, <3>1 DEF Entry
    <3>3. DealOf(left) = [stage |-> "closed", held |-> Held(rest), sold |-> TRUE, paid |-> m.paid]
      BY <3>2, DealOfListed
    <3>4. DealOf(left) = Ledger!Deal("closed", [Deals[a].held EXCEPT ![p] = 0], TRUE, Deals[a].paid)
          /\ DealOf(left).held = Held(left.bets)
      <4>1. Deals[a].held = Held(m.bets) /\ Deals[a].paid = m.paid
        BY <1>2
      <4>2. DealOf(left) = Ledger!Deal("closed", Held(rest), TRUE, m.paid)
        BY <3>3 DEF Ledger!Deal
      <4>3. DealOf(left).held = Held(left.bets)
        BY <3>2, <3>3
      <4>4. [Deals[a].held EXCEPT ![p] = 0] = Held(rest)
        BY <2>3, <4>1
      <4>5. QED
        BY <4>1, <4>2, <4>3, <4>4, Zenon
    <3>5. Ledger!Leave(a, Ledger!Deal("closed", [Deals[a].held EXCEPT ![p] = 0], TRUE, Deals[a].paid))
      BY <1>6, <3>2, <3>4
    <3>6. gold' = gold
      BY <1>4, <1>9, <2>5 DEF Proceeds
    <3>7. Ledger!HandOver(p, a)
      <4>1. ~Deals[a].sold
        BY <1>2, <2>5
      <4>2. Deals[a].stage = "closed" /\ Deals[a].held[p] > 0
        BY <2>4
      <4>3. QED
        BY <3>5, <3>6, <4>1, <4>2, Zenon DEF Ledger!HandOver, Deals
    <3>8. QED
      BY <3>7 DEF EscrowStep, Ledger!Next
  <2>6. CASE ~(m.bets[1].name = p /\ ~m.collected)
    <3>1. left = [m EXCEPT !.bets = rest]
      BY <1>9, <2>6 DEF Gathered
    <3>2. /\ left.stage = "listed" /\ left.ended /\ left.bets = rest
          /\ left.collected = m.collected /\ left.paid = m.paid
      BY <1>1, <3>1 DEF Entry
    <3>3. DealOf(left) = [stage |-> "closed", held |-> Held(rest), sold |-> m.collected, paid |-> m.paid]
      BY <3>2, DealOfListed
    <3>4. DealOf(left) = [Deals[a] EXCEPT !.held[p] = 0] /\ DealOf(left).held = Held(left.bets)
      BY <1>2, <2>3, <3>2, <3>3
    <3>5. Ledger!Leave(a, [Deals[a] EXCEPT !.held[p] = 0])
      BY <1>6, <3>2, <3>4
    <3>6. gold' = [gold EXCEPT ![p] = gold[p] + Deals[a].held[p]]
      BY <1>4, <1>9, <2>4, <2>6 DEF Proceeds
    <3>7. Ledger!Refund(p, a)
      BY <2>4, <3>5, <3>6 DEF Ledger!Refund, Deals
    <3>8. QED
      BY <3>7 DEF EscrowStep, Ledger!Next
  <2>7. QED
    BY <2>5, <2>6
<1>10. QED
  BY <1>7, <1>8, <1>9

\* A reboot reopens the auctions whose early end was not saved.
LEMMA RebootEscrow ==
  ASSUME IInv, ~hung, Reboot
  PROVE  EscrowStep
<1> DEFINE loops == \E a \in Auctions : SortLoops(stockFile[a].bets)
           reopened == {a \in Auctions : Listed(a) /\ market[a].ended /\ ~stockFile[a].ended}
<1>1. CASE loops
  BY <1>1 DEF Reboot, EscrowStep, Deals
<1>2. CASE ~loops
  <2>1. market' = [a \in Auctions |-> Reloaded(stockFile[a])] /\ gold' = gold
    BY <1>2 DEF Reboot
  <2>2. ASSUME NEW a \in Auctions
        PROVE  DealOf(Reloaded(stockFile[a]))
               = IF a \in reopened THEN [Deals[a] EXCEPT !.stage = "open"] ELSE Deals[a]
    <3> DEFINE m == market[a]
               f == stockFile[a]
    <3>1. Sound(m) /\ Sound(f) /\ Current(m, f) /\ m \in Entry /\ f \in Entry /\ ~SortLoops(f.bets)
      BY <1>2 DEF IInv, Sound
    <3>2. f.stage = m.stage /\ f.collected = m.collected /\ f.paid = m.paid /\ (f.ended => m.ended)
      BY <3>1 DEF Current, Entry
    <3>3. Held(m.bets) = Held(f.bets)
      BY <3>1, SoundBets, ReorderingProperties DEF Current, Held
    <3>4. DealOf(Reloaded(f)) = DealOf(f)
      BY <3>1, DealOfSorted DEF Reloaded
    <3>5. CASE m.stage = "listed"
      <4>1. /\ DealOf(f) = [stage |-> IF f.ended THEN "closed" ELSE "open", held |-> Held(f.bets),
                            sold |-> f.collected, paid |-> f.paid]
            /\ DealOf(m) = [stage |-> IF m.ended THEN "closed" ELSE "open", held |-> Held(m.bets),
                            sold |-> m.collected, paid |-> m.paid]
        BY <3>2, <3>5, DealOfListed
      <4>2. DealOf(f) = IF a \in reopened THEN [DealOf(m) EXCEPT !.stage = "open"] ELSE DealOf(m)
        BY <3>2, <3>3, <3>5, <4>1 DEF Listed
      <4>3. QED
        BY <3>4, <4>2 DEF Deals
    <3>6. CASE m.stage # "listed"
      <4>1. DealOf(f) = DealOf(m)
        BY <3>1, <3>2, <3>3, <3>6 DEF DealOf, Held, Entry
      <4>2. QED
        BY <3>4, <3>6, <4>1 DEF Deals, Listed
    <3>7. QED
      BY <3>5, <3>6
  <2>3. Deals' = [a \in Auctions |-> IF a \in reopened THEN [Deals[a] EXCEPT !.stage = "open"] ELSE Deals[a]]
    BY <2>1, <2>2 DEF Deals
  <2>4. \A a \in reopened : Deals[a].stage = "closed"
    BY DealOfListed DEF Deals, Listed
  <2>5. Ledger!Reopen(reopened)
    BY <2>1, <2>3, <2>4 DEF Ledger!Reopen, Deals
  <2>6. QED
    BY <2>5 DEF EscrowStep, Ledger!Next
<1>3. QED
  BY <1>1, <1>2

LEMMA NextEscrow == IInv /\ [Next]_vars => [Ledger!Next]_(Ledger!vars)
<1> SUFFICES ASSUME IInv, [Next]_vars
             PROVE  EscrowStep
  BY DEF EscrowStep, Ledger!vars, Deals
<1>1. CASE UNCHANGED vars
  BY <1>1 DEF vars, EscrowStep, Deals
<1>2. CASE Next
  <2>1. ASSUME NEW p \in Players, NEW a \in Auctions, PlayerStep(p, a)
        PROVE  EscrowStep
    <3>1. CASE \E start \in Amounts, buyout \in Buyouts, lot \in Lots : Publish(p, a, start, buyout, lot)
      BY <3>1, PublishEscrow DEF EscrowStep, Ledger!Next
    <3>2. CASE Finish(p, a)
      BY <3>2, EndEscrow DEF Finish
    <3>3. QED
      BY <2>1, <3>1, <3>2, PlaceBetEscrow, BuyOutEscrow, DeclareQuantityEscrow, DeleteEscrow,
         CollectEscrow DEF PlayerStep
  <2>2. ASSUME NEW a \in Auctions, Expire(a)
        PROVE  EscrowStep
    <3>1. Listed(a)
      <4>1. Current(market[a], stockFile[a]) /\ market[a] \in Entry /\ stockFile[a].stage = "listed"
        BY <1>2, <2>2 DEF Next, Expire, IInv, TypeOK
      <4>2. QED
        BY <4>1 DEF Current, Entry, Listed
    <3>2. QED
      BY <2>2, <3>1, EndEscrow DEF Expire
  <2>3. CASE Reboot
    BY <1>2, <2>3, RebootEscrow DEF Next
  <2>4. QED
    BY <1>2, <2>1, <2>2, <2>3 DEF Next
<1>3. QED
  BY <1>1, <1>2

\* Every behaviour of the exchange, seen as deals, is one of the escrow.
THEOREM ExchangeKeepsDeposits == Spec => DepositsKept
  BY InitEscrow, NextEscrow, IInvHolds, PTL DEF Spec, DepositsKept, Ledger!Spec
=============================================================================
