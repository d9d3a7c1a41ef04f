------------------------------- MODULE Pazaak -------------------------------
(***************************************************************************)
(* The stakes and the cards of Pazaak (pazaak.cpp, SWPazaak.cpp, "get" and  *)
(* "put" on a side deck in act_obj.cpp, the triggers of mud.sql).           *)
(*                                                                         *)
(* The game itself is played on another server.  What the mud keeps is in   *)
(* four places that fail apart: purses and cards in hand in memory, their   *)
(* copies in the player files, challenges in memory only, and the accounts, *)
(* games and decks in the database.  A command is one action, unless the    *)
(* process dies between its database statement and the end of it.           *)
(*                                                                         *)
(* A statement the database refuses changes nothing, and the command is no  *)
(* step, but where the code goes on as if it had been done: commitTrans-    *)
(* action reports nothing, and addCard and removeCard are not asked.        *)
(*                                                                         *)
(* Left out: passwords, the kinds of cards, weights, traps, the room one    *)
(* has to be in, gold from and for anything else, and reads that fail.      *)
(***************************************************************************)
EXTENDS Integers, FiniteSets, Sequences, Functions

CONSTANTS
    Players,
    Members,     \* those of them with a Pazaak account from the start
    None,
    Gold,        \* what each has in his purse
    Cards,       \* and each in his hand
    Stakes,      \* the rewards they type
    MinCards,    \* MIN_CARDS_IN_SIDEDECK
    SavedAfter,  \* "put", "get": sysdata.save_flags, and a deck nobody carries
    MaxFaults    \* bound: crashes and lost commits in a run

ASSUME PazaakAssumption ==
    /\ IsFiniteSet(Players) /\ None \notin Players /\ Members \subseteq Players
    /\ Gold \in Nat /\ Cards \in [Players -> Nat] /\ MinCards \in Nat /\ MaxFaults \in Nat
    /\ Stakes \subseteq Nat \ {0} /\ SavedAfter \subseteq {"put", "get"}

Pairs == Players \X Players      \* who challenges, and whom

VARIABLES
    own,        \* purse, cards in hand, cards shut in a deck as in a box
    file,       \* the player files: own, as saved last
    account,    \* pazaak_player: credits, -1 without an account
    deck,       \* pazaak_card: the number of rows
    challenge,  \* SWPazaak::challenges: the stake, 0 where there is none
    game,       \* pazaak_game, unique for a pair: the stake and the winner
    listed,     \* SWPazaak::games
    told,       \* the games the other server has loaded
    voided,     \* history: the stakes of challenges that went with a process
    faults      \* history: the faults met

memory == <<own, challenge, listed>>
disk == <<file, account, deck, game>>
vars == <<memory, disk, told, voided, faults>>

Own == [gold : Nat, hand : Nat, inside : Nat]
NoGame == [stake |-> 0, winner |-> None]

TypeOK ==
    /\ own \in [Players -> Own] /\ file \in [Players -> Own]
    /\ account \in [Players -> Nat \cup {-1}]
    /\ deck \in [Players -> Nat]
    /\ challenge \in [Pairs -> Stakes \cup {0}]
    /\ game \in [Pairs -> [stake : Stakes \cup {0}, winner : Players \cup {None}]]
    /\ \A c \in Pairs : game[c].winner \in {c[1], c[2], None}
    /\ listed \subseteq Pairs /\ told \subseteq Pairs
    /\ voided \in [Pairs -> Nat]
    /\ faults \in Seq({"crash", "inside", "commit"}) /\ Len(faults) <= MaxFaults

Init ==
    /\ own = [p \in Players |-> [gold |-> Gold, hand |-> Cards[p], inside |-> 0]]
    /\ file = own
    /\ account = [p \in Players |-> IF p \in Members THEN 0 ELSE -1]
    /\ deck = [p \in Players |-> 0]
    /\ challenge = [c \in Pairs |-> 0]
    /\ game = [c \in Pairs |-> NoGame]
    /\ listed = {} /\ told = {}
    /\ voided = [c \in Pairs |-> 0]
    /\ faults = <<>>

-----------------------------------------------------------------------------
(* Helpers. *)

Met(kind) == \E i \in DOMAIN faults : faults[i] = kind
Fault(kind) == Len(faults) < MaxFaults /\ faults' = Append(faults, kind)

Registered(p) == account[p] >= 0                             \* getPlayerId
Ready(c) == \A i \in 1 .. 2 : Registered(c[i]) /\ deck[c[i]] >= MinCards

Open(g) == {c \in Pairs : g[c].stake # 0 /\ g[c].winner = None}

LoadedBefore(g) == Open(game)     \* mutant: loaded before the row is there

\* loadGames; without a single row it leaves the list as it is.
Loaded(g) == IF Open(g) = {} THEN listed ELSE Open(g)

AffordsAny(p, r) == TRUE          \* mutant: nobody looks into the purse
Affords(p, r) == own[p].gold >= r

\* Mutant: the purse is not saved.
PaidUnsaved(p, r) ==
    /\ own' = [own EXCEPT ![p].gold = @ - r]
    /\ UNCHANGED file

\* gold -= r (or += -r) and save_char_obj
Paid(p, r) ==
    /\ own' = [own EXCEPT ![p].gold = @ - r]
    /\ file' = [file EXCEPT ![p] = own'[p]]

\* A new process: files and database are loaded.
Restarted ==
    /\ own' = file
    /\ challenge' = [c \in Pairs |-> 0]
    /\ listed' = Open(game')
    /\ voided' = [c \in Pairs |-> voided[c] + challenge[c]]

-----------------------------------------------------------------------------
(* pazaak setpassword, challenge, accept, withdraw. *)

SetPassword(p) ==
    /\ ~ Registered(p)
    /\ account' = [account EXCEPT ![p] = 0]
    /\ UNCHANGED <<memory, file, deck, game, told, voided, faults>>

Challenge(c, r) ==
    /\ challenge[c] = 0
    /\ Ready(c)
    /\ Affords(c[1], r)
    /\ challenge' = [challenge EXCEPT ![c] = r]
    /\ Paid(c[1], r)
    /\ UNCHANGED <<account, deck, game, listed, told, voided, faults>>

\* The row of the pair, unless the pair has one, be it of a game long over.
Accepts(c) ==
    /\ challenge[c] # 0
    /\ Ready(c)
    /\ Affords(c[2], challenge[c])
    /\ game[c] = NoGame
Row(c) == [game EXCEPT ![c].stake = challenge[c]]

\* The other server is told by a SWTcpSender, or is not.
Accept(c) ==
    /\ Accepts(c)
    /\ game' = Row(c)
    /\ challenge' = [challenge EXCEPT ![c] = 0]
    /\ Paid(c[2], challenge[c])
    /\ listed' = Loaded(game')
    /\ told' \in {told, Open(game')}
    /\ UNCHANGED <<account, deck, voided, faults>>

\* The commit fails and singleQuery says it was done.
AcceptUncommitted(c) ==
    /\ Accepts(c) /\ Fault("commit")
    /\ challenge' = [challenge EXCEPT ![c] = 0]
    /\ Paid(c[2], challenge[c])
    /\ listed' \in {listed, Loaded(game)}
    /\ told' \in {told, Open(game)}
    /\ UNCHANGED <<account, deck, game, voided>>

AcceptCrash(c) ==
    /\ Accepts(c) /\ Fault("inside")
    /\ game' = Row(c)
    /\ Restarted
    /\ UNCHANGED <<file, account, deck, told>>

Withdraw(p) ==
    /\ account[p] > 0
    /\ account' = [account EXCEPT ![p] = 0]
    /\ Paid(p, - account[p])
    /\ UNCHANGED <<deck, challenge, game, listed, told, voided, faults>>

WithdrawUncommitted(p) ==
    /\ account[p] > 0 /\ Fault("commit")
    /\ Paid(p, - account[p])
    /\ UNCHANGED <<account, deck, challenge, game, listed, told, voided>>

WithdrawCrash(p) ==
    /\ account[p] > 0 /\ Fault("inside")
    /\ account' = [account EXCEPT ![p] = 0]
    /\ UNCHANGED <<file, deck, game, told>>
    /\ Restarted

-----------------------------------------------------------------------------
(* Cards: "put" into a side deck and "get" out of it. *)

\* Cards more, or fewer, in hand and inside the deck
Moved(p, hand, inside) ==
    own' = [own EXCEPT ![p] = [gold |-> @.gold, hand |-> @.hand + hand, inside |-> @.inside + inside]]

Saved(p, command) ==
    file' = IF command \in SavedAfter THEN [file EXCEPT ![p] = own'[p]] ELSE file

\* addCard, for a card alone; without an account there is no row of it.
PutCard(p) ==
    /\ own[p].hand > 0
    /\ Moved(p, -1, 0)
    /\ deck' = [deck EXCEPT ![p] = @ + IF Registered(p) THEN 1 ELSE 0]
    /\ Saved(p, "put")
    /\ UNCHANGED <<account, challenge, game, listed, told, voided, faults>>

\* Mutant: a stack gives one row.
PutStackRow(p) ==
    /\ own[p].hand > 1
    /\ \E n \in 2 .. own[p].hand : Moved(p, - n, 0)
    /\ deck' = [deck EXCEPT ![p] = @ + 1]
    /\ Saved(p, "put")
    /\ UNCHANGED <<account, challenge, game, listed, told, voided, faults>>

\* "put all": a stack of equal cards goes in as into any container.
PutStack(p) ==
    /\ own[p].hand > 1
    /\ \E n \in 2 .. own[p].hand : Moved(p, - n, n)
    /\ Saved(p, "put")
    /\ UNCHANGED <<account, deck, challenge, game, listed, told, voided, faults>>

\* removeCard and pazaak_create_card_obj
GetCard(p) ==
    /\ Registered(p) /\ deck[p] > 0
    /\ deck' = [deck EXCEPT ![p] = @ - 1]
    /\ Moved(p, 1, 0)
    /\ Saved(p, "get")
    /\ UNCHANGED <<account, challenge, game, listed, told, voided, faults>>

\* The row is not written, or not deleted, and nobody asks.
CardUncommitted(p) ==
    /\ Fault("commit")
    /\ Registered(p)
    /\ \/ own[p].hand > 0 /\ Moved(p, -1, 0) /\ Saved(p, "put")
       \/ deck[p] > 0 /\ Moved(p, 1, 0) /\ Saved(p, "get")
    /\ UNCHANGED <<account, deck, challenge, game, listed, told, voided>>

-----------------------------------------------------------------------------
(* The other server, and the process. *)

\* The game is decided: pazaak_finalize_game pays the stake of one player.
Decide(c) ==
    /\ c \in told \cap Open(game)
    /\ \E w \in {c[1], c[2]} :
          /\ game' = [game EXCEPT ![c].winner = w]
          /\ account' = [account EXCEPT ![w] = @ + game[c].stake]
    /\ UNCHANGED <<memory, file, deck, told, voided, faults>>

\* It is started again.
ServerLoads ==
    /\ told' = Open(game)
    /\ UNCHANGED <<memory, disk, voided, faults>>

\* The clock, or quit
Save(p) ==
    /\ file' = [file EXCEPT ![p] = own[p]]
    /\ UNCHANGED <<memory, account, deck, game, told, voided, faults>>

\* Between two commands
Crash ==
    /\ Fault("crash")
    /\ UNCHANGED <<disk, told>>
    /\ Restarted

Next ==
    \/ \E c \in Pairs :
        \/ \E r \in Stakes : Challenge(c, r)
        \/ Accept(c) \/ AcceptUncommitted(c) \/ AcceptCrash(c) \/ Decide(c)
    \/ \E p \in Players :
        \/ SetPassword(p) \/ Withdraw(p) \/ WithdrawUncommitted(p) \/ WithdrawCrash(p)
        \/ PutCard(p) \/ PutStack(p) \/ GetCard(p) \/ CardUncommitted(p) \/ Save(p)
    \/ ServerLoads \/ Crash

Spec == Init /\ [][Next]_vars

-----------------------------------------------------------------------------
(* Properties. *)

Credits(p) == IF Registered(p) THEN account[p] ELSE 0
Worth(p) == own[p].gold + Credits(p)

\* What p has put in on account of q, and what he has won by a game
StakedOn(p, q) ==
    challenge[<<p, q>>] + voided[<<p, q>>] + game[<<p, q>>].stake + game[<<q, p>>].stake
WonIn(p, c) == IF game[c].winner = p THEN game[c].stake ELSE 0
Prize(c) == IF c \in Open(game) THEN game[c].stake ELSE 0

Staked(p) == SumFunction([q \in Players |-> StakedOn(p, q)])
Won(p) == SumFunction([c \in Pairs |-> WonIn(p, c)])

\* Each has paid for every challenge and game of his once and has got each
\* prize once.
BooksBalance == \A p \in Players : Worth(p) + Staked(p) = Gold + Won(p)

\* The prizes still to be paid are covered by what was taken.
NoMoneyMade ==
    SumFunction([p \in Players |-> Worth(p)]) + SumFunction([c \in Pairs |-> Prize(c)])
      <= Gold * Cardinality(Players)

\* Safety: memory, files and database agree about the gold through crashes
\* between commands, and a crash within one never makes any.  (A commit that
\* fails unnoticed does: withdraw pays and the account stays.)
MoneyKept ==
    /\ ~ Met("inside") /\ ~ Met("commit") => BooksBalance
    /\ ~ Met("commit") => NoMoneyMade

\* Safety: without faults cards only move between hand and deck, and only one
\* who had no account may lose some, though stacks and single cards take
\* different ways.
CardsKept ==
    faults = <<>> => \A p \in Players :
        LET all == own[p].hand + own[p].inside + deck[p] IN
        all <= Cards[p] /\ (p \in Members => all = Cards[p])

\* Safety: the list of games never lacks one that is played, though only the
\* mud reloads it and a list without rows is not cleared.
GamesListed == Open(game) \subseteq listed
=============================================================================
