# A verification of the SWMud server

SWMud is a multi-user game server in C++ (`src/src/*.cpp`, about 150 000 lines, of
which the game loop of `comm.cpp` runs nearly everything in one thread). This
directory holds TLA+ modules that model parts of it, the TLC configurations that
check them on small instances, and proofs that TLAPS checks for every value of
the constants.

    tlc -config X.cfg M      model-checks module M
    tlapm M_proofs.tla       checks the proofs about module M (those about ThreadPool and Objects are in Pazaak_proofs, those about GameLoop in Fights_proofs)

The repository has an empty README; what the program is meant to do is taken from
its comments, messages, assertions and `TODO`. The sources are in ISO-8859-2.

## 1. Inventory

How the program runs: `game_loop` (comm.cpp) accepts connections, walks over the
descriptors and hands each input line to `nanny` (a connection that logs in),
`interpret` (a player's command) or to the interpreter of the mode the connection
is in (an editor, the terminal of the exchange), then calls `update_handler` for
what the clock does, flushes the outputs and sweeps the pool of background
senders. A handler runs to its end before the next one starts, so a handler is
one atomic action of a model. The hard behaviours are therefore not data races
but sequences: state one handler leaves for another's, pointers kept from one
pulse to the next, handlers that close connections or free characters under
another's feet, and restarts that keep only what was saved. Where a handler walks
over a list while what it calls changes that list (the walks of the game loop,
the pulse of the ships, the round of violence), the walk is modelled visit by
visit; where it writes two files or a file and the database, so is the crash
between them. Threads exist in one place, the background senders, and there every
store is an action.

| part | state | operations | what makes it hard | what makes it correct | status |
|---|---|---|---|---|---|
| Background senders (`SWThread`, `SWTcpSender`) | `threadPool`, `running`, `finished` per object, a pthread each | `addToPool`, `start`, `run`, `finish`, `updatePool` | the only threads; no lock | nothing is deleted under its thread, nobody is forgotten, everybody reaped | modelled, proved |
| Stock exchange (`stock_market.cpp`, `auction.cpp`) | auctions, bets, gold, the stock file; the screens of the terminal, what a connection edits | send, licytuj, buyout, ilosc, zakoncz, usun, odbierz, all screens, the clock, load and save | several players over days, reboots, four copies of one deposit, pointers kept by screens | no credit lost or invented; the file says what memory says; a screen shows what exists | partly: two exchanges, the trade in ships and houses are left out |
| Connections and bodies (`comm.cpp`, `conn.cpp`, ends of others) | descriptors with `character` and `original`, bodies with `desc` and `switched`, the list of bodies, player files | login, takeover, reconnection, switch, quit, link loss, idle, death, copyover, crash | any order of several players' handlers over shared pointers | one body per player, pointers that agree, links lost without harm | partly: without loadup, renaming, polymorphing; proved |
| Game loop, sockets and buffers (`comm.cpp`) | `first_descriptor`, `d_next`, buffers, `snoop_by` | select, accept, input, output, snoop, close, alarm | closing a connection from inside the walk, output that overflows and closes | everybody has his turn, closing ends, no socket lost | partly: pager, colours, shutdown are left out |
| Ident authentication (`id.cpp`) | `auth_fd`, `auth_state`, attempts | start, write, read, failure | an answer after the connection closed; numbers of sockets used again | a socket belongs to one connection and is closed once | modelled (in `GameLoop`) |
| Player files (`save.cpp`, `player.cpp`) | a file per name, a clone, a backup | save, load, destroy, clone | a crash between two writes | a file is whole or absent | partly: presence in Sessions, gold and cards in Pazaak, merits in Quests |
| Objects and extraction (`handler.cpp`, `act_obj.cpp`) | nested lists of stacks, the queue of the extracted, weights, counts, light | get, put, give, drop, wear, sacrifice, empty, decay, corpses | sums kept by hand beside lists | sums equal the lists; nothing lost or out of reach | partly: without money, traps, doors, programs; nothing lost is proved |
| Fighting (`fight.cpp`) | `fighting`, `num_fighting`, positions | kill, flee, rescue, stun, the round of violence, death | a round in which those walked over flee, fall, die and are extracted | the dead are out, the fallen left alone, nobody fights at a distance | partly: without the harm, hunting, charms, duels |
| Ships (`space*.cpp`, parts of `swskills.cpp`) | `shipstate`, room and system, moorings, hangars, courses, timers | launch, land, dock, undock, jump, hijack, repair, hit, destroy, reset, the pulse | the pulse finishes what commands started, while ships move, burn and are freed | moorings mutual, a ship in one place, what burns explodes, what jumps arrives | partly: without positions, missiles, trade, lines |
| Pazaak (`pazaak.cpp`, `classes/SWPazaak*`) | challenges in memory, accounts, games and decks in the database, gold and cards in player files | challenge, accept, decide, withdraw, cards in and out, the other server | four stores that fail apart | stakes and cards neither lost nor made | modelled, proved |
| Quests (`quest.cpp`) | the quest of a player, its chapters, mobs, file and merits | ask, do, kill, walk, give up, stop, save, leave, login, clock | a trigger that frees the quest it walks over; two files and a crash between | pointers agree, paid once, never stuck | partly: things, programs and RUNCHPT are left out; proved |
| The Force (`force.cpp`) | affects with durations, possession | spells, expiry | expiry in another's body | what is applied is undone once | partly: possession, in Sessions |
| Planets and the clock | hours, owners, population | update_time, taxes | ends of auctions, idle bodies | | partly: where it ends auctions and extracts bodies |
| On-line editors (`olc_*.cpp`, `build.cpp`) | what a connection edits | assign fields | the thing may go while it is edited | a mode has its thing | partly: as the mode of a connection |
| Rooms (`handler.cpp`, `act_move.cpp`) | people of a room, `area->nplayer`, doors | char_to_room, char_from_room, moves | counters kept beside lists | counters equal the lists | not modelled |
| Scripts (`mud_prog.cpp`, ends of `handler.cpp`) | scripts with pointers to owner and victim, counts, the one supermob, calls of `mprog_driver` | triggers, runscript, the walk of `scripts_update`, extraction, the end of the pulse | programs run inside one another; who a sleeping script means is extracted | no script outlives owner or victim, counts true, the supermob put away | partly: without the language, the queues of acts, dialogs; proved |
| Hashed strings (`hashstr.cpp`) | a table of texts with counts | STRDUP, STRFREE | counts in a short integer | count = holders | not modelled |
| Bounties, crimes, suspects; shops, banks, trade; clans; boards | records | one command each | little is shared between two steps | sums and lists | not modelled |
| Area resets, tables, information, database mapping, XML, value classes | areas, constants | read or assign | none between steps | none across steps | not modelled |

`PROJECT.json` lists the same parts with their sources, and under `hazards` what
in this code is hard to test, each at its line, with the properties that guard it.

## 2. Modules

| module | models | lines of code it stands for |
|---|---|---|
| `ThreadPool` | the pool of senders, its threads and the sweep | classes/SWThread.cpp, SWTcpSender.cpp |
| `AuctionHouse` | auctions from publication to settlement, the gold, the stock file, the clock, reboots | stock_market.cpp, auction.cpp |
| `AuctionSort` | `sort_auction_bets` as the function of a list that the code computes | auction.cpp:734-764 |
| `Escrow` | what players are promised about gold in a third hand (abstract) | |
| `ExchangeTerminal` | the screens of the exchange and the custody of the goods | stock_market.cpp |
| `Sessions` | connections, bodies, the login and all that ends or exchanges either | comm.cpp, conn.cpp, act_wiz.cpp, ... |
| `GameLoop` | the walks of the game loop, buffers, snoopers, ident sockets | comm.cpp, id.cpp |
| `Ships` | ships, moorings, hangars, jumps, destruction, the pulse | space.cpp, space2.cpp, swskills.cpp, mem.cpp |
| `Objects` | things, stacks, containers and the sums kept beside them | handler.cpp, act_obj.cpp, misc.cpp, makeobjs.cpp, update.cpp |
| `Fights` | who fights whom, and the round of violence | fight.cpp, handler.cpp, swskills.cpp |
| `Pazaak` | stakes and cards over memory, files and database | pazaak.cpp, classes/SWPazaak.cpp, SWDataBase.cpp, act_obj.cpp, mud.sql |
| `Quests` | quests, their chapters, mobs, files and merits | quest.cpp, handler.cpp, save.cpp, comm.cpp |
| `Scripts` | scripts that sleep, programs within programs, the supermob | mud_prog.cpp, handler.cpp |
| `*_proofs` | the theorems about the module named; `Pazaak_proofs` also has those about `ThreadPool`, whose threads a challenge starts, and about `Objects`, which need the same sums, `Fights_proofs` those about `GameLoop`, which calls the round of violence | |
| `MC*` | the instances for TLC: orders, functions of constants, symmetry | |
| `AuctionPromises`, `SessionPromises`, `ShipPromises`, `ObjectPromises`, `QuestPromises` | what messages, comments and assertions promise and the code breaks | |

Every mapped definition is listed in `PROJECT.json` with its lines. A few
definitions marked "Mutant" (or "A changed ...") are not in any next-state
relation: each is the form a plausible bug would give the definition after it,
and shows that the property named for it in `PROJECT.json` would notice.

In `Ships`, `Objects`, `Fights`, `Quests`, `Scripts` and `GameLoop` operators named after a
function of the code map the state before it (a record, `World` for the
variables) to the state after it, and a command is a composition of them in the
order of the calls. Where the code reads memory it has freed, the model sets
`wild` (or stops), because nothing is promised from there on; such states are
reachable only where the text below says so.

### ThreadPool

The game loop makes a sender (`NewSender`, from SWPazaak::acceptChallenge), pools
it (`AddToPool`), marks it running (`Start`) and makes its pthread (`Create`, which
the system may refuse: the code ignores the result). The thread opens, connects,
writes, closes, then `finish` stores `running = false` (`ClearRunning`) and
`finished = true` (`SetFinished`): two unsynchronised stores, two actions, in
program order. `updatePool` is `BeginSweep`, one `SweepVisit` per member and
`EndSweep`, interleaved with the threads. An address is used once, so that a late
access can be told from an access to a newer object. Stores are taken to reach
the loop in program order, which is what the build's platform (x86) gives; the
flags are plain booleans, and the model does not judge the language's opinion of
that.

### AuctionHouse, AuctionSort, Escrow

One exchange. An auction is a record: who sells, the starting and the buyout
price, the quantity on offer, the list of bets in the order of the linked list,
the current price, and whether it has ended, has been paid and collected.
`market` is memory, `stockFile` what `save_stock_market` wrote last, `gold` what
each player has on hand. Each command of the terminal is an action with every
check, the change of the list, of the purse, the sort, the new price and the save
together (`SortAndSave`), because the handler runs them without interruption, and
`Finish` has no save because the code has none. `Collect` is
`auction_item_gather` with the three ways it can go (seller, winner, loser) and
the removal of the settled auction. `Expire` is the clock reaching `end_time`
(`auction_finished` is a comparison); it ends the auction in memory and in the
file, where the same time is written. `Reboot` loads the file and sorts every
list again, as `load_stock_markets` does, after all characters were saved.

`sort_auction_bets` is a constant operator of `AuctionHouse`: what is proved
needs only `SortAssumption`, that it permutes the list unless it hangs. TLC gives
it the real thing, `AuctionSort`: one walk over the linked list that moves a bet
down behind the first lower one. Where that place is not the end of the list the
macro `INSERT` evaluates its argument `pIterBets->next` again after having
changed it, which links the bet to itself and makes the walk endless; `hung` is
that state, in which nothing more happens. TLC evaluates `SortAssumption` for the
code's sort on all lists of the instance.

`Escrow` knows purses and deals and says what a player may rely on: gold enters a
deal from the hand of the one whose deposit grows, leaves it in full, except for
the one deposit kept for the thing sold; the seller is paid at most once; a deal
disappears only when it is empty or an arbiter cancels it. `DealOf` maps an
auction to a deal (stage, deposits, sold, paid), the gold on hand is the purse,
and `DepositsKept` says that the exchange does nothing else. An immortal's `usun`
is the arbiter.

Abstracted: the declared quantity, which nothing reads back; the `buy_out` flag of
a bet, which no live code sets; the price stored in each bet, of which only the
first one's is used; weight; the widths of integers (see section 5). The
screens, the offers in preparation and the objects are `ExchangeTerminal`'s.

### Sessions

`conn[d]` is a DESCRIPTOR_DATA: its `connected` state, `character`, `original`
and whether something it edits hangs on it. `body[b]` is a CHAR_DATA: its owner,
`desc` and `switched`. A player's body is named after the connection it was
loaded on. `descs` and `chars` are the two global lists in order, for the code
takes the first that fits; what a walk over one picks is `Only(s, S)`, the entries
of the list that belong to a set, in their order. `file` is a function from the names that have a
player file to "whole" or "half" (written from a character only preloaded for
the password check).

The login is `Connect`, `EnterName` (which asks `check_playing` and preloads the
character), then `KickOff`, `Reconnect` or `Reload` according to what
`check_playing` and `check_reconnect` find when the password is right, and
`EnterGame`, which is `add_char`. Creation is `AskForNew`, `EnterName`,
`ConfirmName`, `Create`, where the questions between the name and the second
password are one step. In the game there are saving, the modes (editors, the
exchange, renaming), the change of a password, `Switch` (and possession) and
`Return`, `Quit`, the idle clock, deaths. Link loss (`Drop`), copyover with its
failure, and the end of the process, orderly or not, with the rescue of
`deal_with_crash`, end the list. Helpers on a record of the pointers (`DoReturn`,
`CloseSocket`, `Extract`, `Adopt`) are composed as the functions call each other.

Four sets of names say who does what the code does not cope with:

- `Greater`: immortals of LEVEL_GREATER, who may switch into players;
- `Wanderers`: play another body until their own one's idle time is up, or it dies;
- `Mistypers`: mistype the repetition of a changed password;
- `Suicides`: may die for good, their file with them.

In the run the first three are empty: with any of them the code breaks some of the
properties, as `SessionPromises` says one by one. When a pointer leads to a freed
body (`Broken`) what the program
does is undefined and the model stops.


### ExchangeTerminal

A player at the terminal types into the same function
(`stock_market_interpreter`), which looks at `pcdata->line_nr`, the screen, and at
`desc->olc_editing`, the auction he is at: `screen` and `editing`. One action per
key of each screen: preparing an offer, `towar`, `ilosc`, `czas`, `send`, the list,
the details, `usun`, `zakoncz`, `odbierz`. The things offered stay in the inventory
of the seller until `send`, so what happens to inventories in the rest of the game
is here too (`Find`, `Give`, `Lose`), and a stack is split as
`separate_obj` does. Prices are AuctionHouse's business: an auction here has at
most one bettor, who wins. `wild` is set where the code reads an auction or a thing
that was freed: the details screen of an auction another player has removed or
collected, and `send` of a thing that is no more. In the run each name means one
thing (`Namesakes = FALSE`): with two of a name `send` publishes another thing than
the one `towar` showed.

### GameLoop

The two walks of `game_loop` go through the global `d_next`, one visit an action;
accepting is another step, as is the end of the updates. `WriteTo` counts output in
blocks and closes whoever overflows, as `write_to_buffer` does, which may close the
one it is called for, the one the walk goes to next, and, through the copies a
snooper gets, a chain of others: the code calls itself along the snoopers, the model
closes at once whoever is `Along` that chain and ran over, which leaves the same list, the
same `d_next` and the same buffers. A
command may write to anybody, close anybody, begin or end snooping. Each
connection has an ident socket with its attempts; `polled` is the set of numbers
the last `select` was asked about, and numbers are given out again, the smallest
first. The alarm in a slow host lookup, which runs the game loop from the signal
handler and forgets the connection being accepted, is `Alarm`. `lost` keeps
sockets nobody will close.

### Ships

Pointers (`room`, `sys`, `at`, ...) and lists (`parked`, `flying`) are kept
apart, for `LINK` and `UNLINK` do not compare them. Commands of pilots
(launch, land, dock, undock, calculate, jump, hijack, repair), hits, and the
commands of administrators are actions; `update_space` is `StartPulse` and the
`Pulse...` actions, which go through the ships twice, one ship an action, with `turn` its place: no command
comes in between, but an explosion frees ships and stops the first loop early.
An explosion takes with it all that is in the hangars of the ship, and in theirs:
the least set closed under that. A skill or a distance that refuses a command
makes it no step. `strayed` are ships an administrator's `resetship` or the
autopilot put into a system while they stood on the ground or were in hyperspace:
of those nothing is said about rooms. `up` becomes false at a null pointer.

### Objects

One address, one stack. Where a thing is (`at`) is a function, not a pair of lists:
that lists are well linked is not the question; the question is the four sums
beside them: weight and number carried, the light of rooms, the count of an index.
Operators are named after the functions (`ObjToChar`, `Separate`, `UnequipChar`, ...)
and composed as the commands call them. A thing with all that is in it is `Whole`, the
least set closed under "is in", its weight the sum over that set (`get_obj_weight` calls itself
for each content, which is the same), and where it hangs in the end is `RootOf`. Loops over
a list (`do_fill`, `empty_obj`, `make_corpse`, the contents `extract_obj` rescues) are folds
over the set of its members. The queue of the extracted is emptied at
the end of each update (`CleanQueue`).

### Fights

`char` holds for each character the stage (in the game, extracted and waiting to be
freed, gone), the room, whom he fights, `num_fighting`, a band of points, and his
position. Commands (kill, flee, walk, rescue, sleep, quit, being taken away) are
actions; the round of `violence_update` is a sequence of visits (`round`) in which a
hit may fell, kill, stun or make somebody flee, and helpers of either side join
in. The damage is whichever band it leads to. Where a character's opponent is no
more in the game the model makes no further use of the pair (`FoughtAreThere` is
one of the promises of section 5).

### Pazaak

Purses and cards in memory (`own`), their copies in player files (`file`),
challenges in memory, accounts, decks and games in the database, whose triggers are
those of `mud.sql`. A command is one action; where it saves and commits in some
order, `AcceptCrash` and `WithdrawCrash` end the process in between. A commit that fails without
a word (`commitTransaction`) is a fault too; `MaxFaults` bounds both. The other
server is `ServerLoads` and `Decide`: it loads the list it is told of and ends games.
Three further things the code does, which are in the model and contradict nothing
written: the winner gets one of the two stakes; `UNIQUE(aggressor, defender)` refuses a second
game of a pair, whose challenge can never be accepted again with the stake
taken; and cards put into a deck while one has no account lie in it as in a box.

### Quests

A quest's chapters with their events, kinds and what they do when completed;
the mobs loaded for it with pointers both ways; the player's file and the
quest's file, written one after the other, with a crash possible between them
(`PayCrash`, `SaveCrash`). `quest_trigger` may end and free the quest it is walking over:
reads of it that find it unchanged go on, others set `wild`. A link lost between
the password and the game frees the player and not his quest: `lost`. Quests of
different players share nothing, so one player is enough.

### Scripts

A script runs one line a pulse, and a line is whatever somebody does: it may set off
programs of others, extract anybody, and put things away. `stack` are the calls of
`mprog_driver` with whose program or line each is; what happens during a command or
an update without programs has an empty stack. `RunScript` is `mprunscript` in a program, and runs
the first line at once; `UpdateScript` is a line as far as its command, `EndLine`
what `mprog_driver` and `update_script` do after it, with the position kept
unless the line stopped its own script (`curr`). `scripts_update` is a walk (`BeginWalk`,
`Visit`, `EndWalk`) whose saved next may be stopped by the line: it becomes `Freed`,
and `ReadFreed` sets `wild`. The supermob is `super`: room, whom it stands for and
the count it carries, which `Released` writes back; `listed` are the rooms in whose
list it is linked. With two rooms in that list, with the count of another
one written back, or with a thing in a box nobody carries (for which no supermob can be
set), nothing is promised any more (`wild`). `ghost` remembers that runscript was called for one already
extracted, which it does not ask. Who is charmed, ifs, variables, the object of a script, and the
queues of acts (`mpact`) are left out.

### What the promises say

`AuctionPromises`, `SessionPromises`, `ShipPromises`, `ObjectPromises`,
`QuestPromises` and a few definitions at the ends of modules state what comments and
messages promise and the code does not keep. One of them has a run; the others are
listed in section 5 with the place where they break.

## 3. Runs

| run | instance | question | outcome |
|---|---|---|---|
| `thread_pool` | 3 senders | is the unsynchronised life of a sender safe, and does it end? | holds |
| `auction_house` | an immortal, 4 mortals, 1 auction, limits 5..25, purses of 20, buyout 20 or none | does an auction keep its books through every order of commands and reboots? | holds |
| `sessions` | 3 connections, 2 names, 2 mobs | one body per player, agreeing pointers, no exchanged identity | holds |
| `ships` | a cruiser with hangar and dock, a fighter with a dock, one system, one pad | pointers and lists agree; what burns explodes, what jumps arrives | holds |
| `objects` | 3 stacks of 5 kinds, 4 pieces, 2 characters, 2 rooms | sums equal lists; nothing out of reach | holds |
| `terminal` | a seller and an immortal bettor, 2 auctions, 2 things | does the screen fit, and is the thing sold the thing shown? | holds |
| `pazaak` | 2 players, one fault | stakes, cards and the list of games over four stores | holds |
| `fights` | 2 players, a mob, 2 rooms | the dead out, the fallen left alone, nobody fighting at a distance after a round | holds |
| `game_loop` | 3 connections, 4 sockets, buffers of 2 blocks, 2 ident attempts | one turn each, snooping in no circle, each socket one owner | holds |
| `quests` | 1 player, 4 chapters, one of each kind, 2 addresses | pointers agree, paid once, something left to do | holds |
| `scripts` | 2 mobs, a thing, a room, 2 scripts of up to 2 lines, 2 nested calls | does a script end with its owner and victim, are the counts true, is the supermob put away? | holds |
| `winner_pays_bet` | 3 players | "ile tak naprawdę będą musieli zapłacić": does the winner get his change? | refuted |

Properties of the passing runs, beyond the type invariants (those of ThreadPool,
Pazaak, Ships and Scripts are in no run, and proved):

- *ThreadPool.* `NoUseAfterDelete`: the sweep deletes only what no thread touches
  any more, and keeps no pointer to a deleted object. `NoSenderForgotten`: whoever
  was let go of was deleted. `EveryThreadReaped` (liveness): each created thread's
  object is deleted.
- *AuctionHouse.* `FairBets`: searches by name mean one bet and one role, and no
  price is below the start. `StockFileCurrent`: between commands the file says what
  memory says (but an early end, the order and the price). `Settleable`: somebody is
  always entitled to the next step of the settlement. `WinnerStands`: no command
  takes the first place from the winner of an ended auction. `DepositsKept`: the
  refinement of `Escrow`.
- *Sessions.* `OneOfEach`: a player has one body in the game and a name one
  newcomer, and those in the game are past the login. `LinksMutual`: `character`,
  `original`, `desc` and `switched` agree. `SamePlayer` (action property): nobody's
  connection turns into another player's.
- *Ships.* `DocksMutual`, `FoundWhereItIs`, `UnderWayToSomewhere`: moorings have two
  ends; pointer and lists name one place, which exists; a manoeuvre begun can be
  finished. `FireAndJumpEnd` (liveness).
- *Objects.* `SumsTrue` (of containers too small to stand three deep, see section 5),
  `NothingLost` (what exists can be reached from a room or a
  character and sits in no circle, and the counts of the kinds are right).
- *ExchangeTerminal.* `ScreenFits`: each screen has the auction and the object it
  shows. `HeldItem`: a published auction holds a thing that exists, is in no inventory and in no
  other auction, until it is collected.
- *Pazaak.* `MoneyKept`: purses, stakes and accounts, in memory and on disk, add up
  to what there was but for what each fault may take. `CardsKept`. `GamesListed`: the list
  never lacks a game that is played.
- *Fights.* `FallenAreOut`; `RoundParts` (action property): when a round is over, whoever fights and
  is not stunned has his opponent in his room.
- *GameLoop.* `OneTurnEach`: a walk visits everybody who is left once, whoever is
  closed. `SnoopersAhead`: snooping makes no circle, so closing ends. `SocketsOwned`:
  a socket that is open belongs to one connection, once.
- *Quests.* `QuestsHeld`, `OverWhenPaid`, `SomethingToDo`.
- *Scripts.* `ScriptsLive`: whoever was there when a script was started is there while
  it is to run. `CountsTrue`: the counter by which extract_obj decides whether there is
  anything to stop, and update_script whether to run, is that of the scripts.
  `SupermobAway`: between two programs the supermob is nobody and nowhere.

### Bounds, and why they are enough

- Three senders are more than the two any pair property relates; the sweep meets
  each of them at every stage.
- A sort needs three bets to move one into the middle. With five players there is
  a seller and up to four bettors, so a list of each shape with a lower bet in
  front occurs, including the one that loops, after which that behaviour ends.
  Limits are multiples of 5 because the code compares with "+ 5"; the highest is
  above the purse, so only who has earned or won something back could afford it.
  Auctions share purses and a file; the proofs cover any number of them.
- Three connections are the two rivals for one name and one that plays the body of
  either. Two mobs: one switched into, one free. Connections are made again
  once no body carries their name, so their number is not bounded; the proofs cover any
  number of connections, names and mobs at once.
- Two ships of the two classes meet each other in every role (bearer and parked, two
  ends of a mooring, one freed before the other in the pulse). `MaxIon`, `MaxTimer`
  and `MaxLegs` are the shortest waits in which something can come in between;
  `MaxOdd` allows one mishap or administrator's command. Safety is proved for any of
  them, and any number of ships, hangars within hangars and systems.
- Three stacks are a container, what it holds and a newcomer; lamps stack, one
  covering hides. The second room has no floor, so things fall. Containers of size 3 cannot stand
  three deep, however many there are, which `SumsTrue` needs and `NothingLost`, proved for any
  sizes, does not.
- Two auctions and things let a seller prepare one while another is sold or removed;
  the stacks of the run have one piece, of which one or two are asked for. The proofs
  cover any number of players, auctions and things.
- One fault is enough to part two stores; the proofs cover any number of faults and players.
- Two players and a mob are attacker, attacked and helper or rescuer. The rounds are
  unbounded. A crowd in one fight is covered by the proofs.
- Three connections with two free numbers beyond a socket each make a number
  given out again to another connection, and a chain of two snoopers.
- Four chapters have the four kinds and the four things a completed chapter may do; two
  addresses show a quest that comes after a freed one. The proofs cover any chapters, and
  any number of players and addresses.

- Two mobs, a thing and a room give programs of all three kinds, one within the other; two
  scripts are the one that runs and the one the walk goes to next, which the line may
  stop; two nested calls are a program or line and what it sets off. The victims are
  mobs too: a player differs only in owning no script. Two rooms or more
  nesting are covered by the proofs.

`SYMMETRY` is used for mortals and auctions, connections and mobs, the characters of
`objects`, things and auctions of the terminal, rooms and mobs of the fights,
descriptors, addresses of quests, scripts and mobs: nothing distinguishes them. (`World` of
Sessions fixes an order of the mobs only where all of them are fresh.) The two runs
with a liveness property use none.

`CHECK_DEADLOCK FALSE` stands in the auction runs, because a sort that hangs stops
the server and all auctions may be settled; in `ships`, because the server may stop
at a null pointer; in `objects`, `terminal`, `fights`, `game_loop`, `quests` and `scripts`, because the
process ends, memory was used after it was freed, or nothing is left to do; and
in `pazaak`, where all the gold may have been played away. Elsewhere deadlock is checked.

### Fairness

`ThreadPool`: weak fairness of the sweep and of a started `send`, which the game loop
performs in every pulse and never blocks in, and of each created thread, which
the kernel schedules and whose socket calls return (they may fail). Nothing
forces a sender to be made. `Ships`: weak fairness of the pulse, because
`update_handler` calls `update_space` every `PULSE_SPACE`; nothing is assumed of
pilots. Logins, bids, fights, games, quests and programs depend on people, so no liveness is
claimed of them.

## 4. What is proved

For every value of the constants that the modules' named assumptions allow:

| theorem | says | rests on |
|---|---|---|
| `PoolTypeCorrect`, `PoolSafe`, `PoolComplete` | `[]PoolTypeOK`, `[]NoUseAfterDelete`, `[]NoSenderForgotten` of ThreadPool | `NoSenderAssumption` |
| `HouseTypeCorrect`, `HouseFairBets`, `HouseFileCurrent`, `HouseSettleable` | `[]` of the four invariants of AuctionHouse | `HouseAssumption`, `SortAssumption` |
| `HouseKeepsWinner` | `WinnerStands` | the same |
| `ExchangeKeepsDeposits` | `DepositsKept`: AuctionHouse implements Escrow | the same |
| `ShipsTypeCorrect`, `ShipsMoored`, `ShipsFound`, `ShipsUnderWay` | `[]` of the four invariants of Ships | `ShipsAssumption` |
| `PazaakTypeCorrect`, `PazaakMoneyKept`, `PazaakCardsKept`, `PazaakGamesListed` | `[]TypeOK` (nothing overdrawn), `[]MoneyKept`, `[]CardsKept`, `[]GamesListed` | `PazaakAssumption` |
| `TerminalTypes`, `TerminalScreenFits` | `[]TypeOK`, `[]ScreenFits` of ExchangeTerminal | `TerminalAssumption` |
| `TerminalHeldItem` | `[]HeldItem` | the same, `~ Namesakes`, `Stack \subseteq {1}` |
| `SessionsTypeCorrect`, `SessionsOneOfEach`, `SessionsLinksMutual`, `SessionsNeverBroken` | `[]` of the three invariants of Sessions and `[]~Broken` | `SessionsAssumption`, `Coped` |
| `SessionsSamePlayer` | `SamePlayer` | the same |
| `FightsTypeCorrect`, `FightsFallenAreOut` | `[]TypeOK`, `[]FallenAreOut` of Fights | `FightsAssumption` |
| `FightsRoundParts` | `RoundParts` | the same |
| `ScriptsTypeCorrect`, `ScriptsAllLive`, `ScriptsCounted`, `ScriptsPutAway` | `[]` of the four invariants of Scripts | `ScriptsAssumption` |
| `LoopTypeCorrect`, `LoopOneTurnEach`, `LoopSnoopersAhead`, `LoopSocketsOwned` | `[]LoopTypeOK`, `[]OneTurnEach`, `[]SnoopersAhead`, `[]SocketsOwned` of GameLoop | `DescsAssumption`, `FdsAssumption`, `LimitAssumption` |
| `ThingsNothingLost` | `[]NothingLost` of Objects | `ObjectsAssumption` |
| `QuestsTypeCorrect`, `QuestsAllHeld`, `QuestsOverWhenPaid`, `QuestsSomethingToDo` | `[]TypeOK`, `[]QuestsHeld`, `[]OverWhenPaid`, `[]SomethingToDo` of Quests | `QuestsAssumption`, `ChaptersAssumption` |

*ThreadPool.* Safety alone is not inductive: why may a member of the pool be
deleted once `finished` is set? Because a thread's place and its object's flags
move together, an object still being sent is fresh and unfinished, what the sweep
has still to visit is in the pool, and an unborn object is known to nobody. These
are the parts of `PoolIInv`; one lemma per group of actions shows that they are
kept. They stand in `Pazaak_proofs`, since acceptChallenge is what makes senders; so that
one module can extend both, ThreadPool calls its parts `PoolInit`, `PoolNext` and `PoolSpec`.

*AuctionHouse.* `IInv` says that every auction in memory and in the file is
`Sound` (its bets are a list of distinct bettors without the seller, its price
keeps the reserve, what is paid or collected has ended) and that the file is
`Current` with respect to memory. The work is in the lemmas about lists: putting a
bet, unlinking one, and reordering keep bettors distinct and each one's deposit,
and pricing a sound list meets the reserve, for every list, without induction. The
proof for a handler is then the lemma about its list and the one about
`SortAndSave`. For the reserve a bet below the start must be impossible, which is
why `Sound` bounds the bets from below: `HighEnough` keeps low limits out, and
`BuyoutStands` a buyout price that lies below a start raised afterwards.

*Escrow.* Each action of the exchange is shown to be a step of the escrow, or none:
`PlaceBet` and `BuyOut` a stake, `Collect` a refund, a hand-over, a payment or a
withdrawal, `Delete` a cancellation, the clock and `zakoncz` a closing (or
nothing, when it was closed already), and a reboot a reopening of the auctions
whose end was not in the file.

*Ships.* `IInv` is `TypeOK`, `TwoEnds` (the moorings), and for each ship `Regular`
(unless it has strayed, pointers, lists and state agree: what stands in a place is in its list
alone, what flies in that of its system) and `Steady` (what is under way has its
course and its target). The commands change one ship or two and are split by
action; the explosion changes a set of ships (`Doomed`) of which only one thing is
needed: it is closed under "is in a hangar of", so that no ship outside it is left
in a place that goes.

*Pazaak.* Without faults the cards of a player's hand and deck are a constant, with an
account for whoever has a deck in the database (`Registered`); with the type
invariant this is inductive. The list of games is a superset of the games
because it is reloaded by the process that creates them and the other server only
ends them.

`MoneyKept` is, for each player, an equation with sums over his opponents and the games, and
for all of them together an inequality between sums over players and pairs.
Its invariant, `MoneyInv`, says of whichever faults have not yet been met what they
leave true: who plays has an account (`Entitled`, else the prize of a game would be paid
into a row that is missing), the file and the purse agree on the gold
(`GoldFiled`, so that a crash between commands makes none), the books balance but for what
a crash inside a command or a lost commit may cost (`BooksBalance`), and, whatever a crash
inside a command did, the sum of purses, prizes and challenges is no more than there
was (`Covered`). The last is needed beside the third because such a crash breaks the
equation for good and must still not make gold. A sum over a set is a fold, and what
a fold does is a fact about all finite sets. In place of induction the lemmas take a
least counterexample: the parts of a finite set are well-founded by inclusion, so if a
fact failed for some part it would fail for one of which it holds for all smaller parts
(`Minimal`), and the recursive equation of the fold contradicts that (`FoldExists`,
`SumUpdated`, `SumSmaller`, `SumEqual`). A command then changes one or two terms of
one or two sums.

*ExchangeTerminal.* Why may a screen rely on its auction? Because an unpublished one
belongs to the player at the screen (`OwnNew`) and no step of anybody else makes,
hands over or gives up such an offer (`Calm`): all steps but four are calm, and one lemma
deals with them.

`HeldItem` is an invariant of where things are: every bag holds live things, no thing
is in two bags or twice in one (`BagsApart`), and what a listed auction offers is live, in no bag and
in no other auction (`ItemsHeld`). It has two hypotheses, which are the instance of the
run. With `Namesakes` the property is false, as section 5 says: `send` looks the
thing up again by its name. And of a stack of which a part is sold the rest
is another thing of the same name, which the next `send` confuses with the first: TLC
finds that with `Stack = {2}`. What is left is that no
order of preparing, publishing, giving, losing, withdrawing and collecting by any
number of players parts an auction from its thing.

*Fights.* `FallenAreOut` alone is not inductive: who falls is taken out of his own
fight and of those of all who fight him, and between the hit and that point one
wounded character is an exception (`HaleBut`), through which every helper of a hit is
followed. `Loosened` says what `stop_fighting` leaves of the others.

`RoundParts` speaks of the end of a round; what is inductive is that those already
visited who are still in the game face their opponents (`Faces`: he is in the room, or is
being extracted in this very update, or the one who fights him is stunned). It survives the
visits of others because a hit, a flight, a fall and a helper's joining bring nobody
into the game and take nobody's opponent out of his sight without ending the fight
(`Keeps`, shown for each helper of `violence_update`).

*Sessions.* The theorems assume `Coped`: nobody plays in two bodies (`Greater`), stays away from
his body past its idle time (`Wanderers`) or mistypes a repeated password (`Mistypers`). With
any of these sets non-empty the code breaks the properties, as `SessionPromises` says; death for
good (`Suicides`) is allowed for anyone. `IInv` says that the two global lists have no entry
twice and that connections and bodies are `Linked`: each connection has the body that goes with
its state (`Session`), each body in the game the connection or none that goes with it
(`Attached`), and no two bodies have one owner (`OneEach`). A handler is a composition of
`close_socket`, `extract_char`, `switch` and `return` as functions of the pointers, each of which
keeps that relation; the body of a newcomer gets its place in the list by
what `check_playing` and `check_reconnect` did not find. That no step hands a body to another's
connection (`Follows`) is carried along through the same functions, which gives the
action property. `~Broken` is stated of its own because a model that stops at a freed
body would make the others true for nothing.

*Scripts.* None of the four is inductive. A count is true because the supermob carries at
least the number of scripts of whom it stands for (`Carried`) and is set anew after a
script was added; it is put away because while it stands for somebody one of the calls is
that one's (`Needed`), and each such call releases it; the walk goes on to
scripts of the list or to `Freed` (`Sound`); a line that runs has a script with a line left
or none (`Current`). Each function of the code is shown to keep these parts by itself, field
by field, so that the proof of an action is the composition the action is.

*Quests.* `IInv` says of each player (`PlayerFits`) that the quest he has names him, that one who
was done with it has none, that while he is there without one no file of one lies about, and that
a file which comes back can go on (`Comes`); and of each quest
(`QuestFits`) that the mobs which point at it are those it lists, that its player has it or hung
up at the login (`lost`), and that the chapters to come are untouched (`Going`). The last is what
`SomethingToDo` needs: a chapter that is entered then has its events to be done. `quest_trigger`, `quest_update` and what they call are shown to keep the rest of
the world alike (`Goes`, `Moves`, `Alike`), so that one lemma extends what is true of one
player and his quest to all of them; how the loop of a trigger goes backwards and the loop of
an update over the players needs a least counterexample, as the sums of Pazaak do. All parts are claimed while
no freed memory was read (`~wild`), as the properties are.

*GameLoop.* In `LoopIInv` the list has everybody who is there once (`Listed`), a walk has
ahead those who had no turn (`Ahead`), what is open is the sockets of the descriptors
without an overlap (`Wired`), and snooping has no circle (`Snooped`). The last is said
as `NoCircle`: no set of descriptors but the empty one is such that each of it snoops, or rather is
snooped by, another of it. A chain of overflows is the least set closed under "is told to" (`Along`),
so no lemma has to count its steps; that a new snooper makes no circle is the test of
`do_snoop`, that he is not `Along` the chain he would watch. The heart of the
proof is `Sustains(s, t, L)`: from s to t some may be gone, and of those who are left the same ones, and
no others, are ahead of `d_next`. Unlinking any set of descriptors keeps it, whether the one
`d_next` names is among them or not, and it is transitive, so every handler that writes,
flushes and closes in whatever order keeps it, and with it everybody's one turn. The
proofs stand in `Fights_proofs`, because the loop is what calls `violence_update`; so that one
module can extend both, GameLoop calls its parts `LoopInit`, `LoopNext` and `LoopSpec`.

*Objects.* `ThingsIInv` is `Orderly(World, {})`: the world is one of stacks of one piece or more and of
whole numbers (`Worlds`), what is in something is in a thing that is there, and only empty scraps hang
nowhere (`Hung`), no thing is in itself at any depth
(`Rooted`: no set of things but the empty one has each of its members in another of it), and
the index counts the pieces (`Counted`). TLC checked it on every state of the run's instance before
it was proved. The second argument of `Orderly` is the things just now in nobody's list, because a
command is a chain of functions that take a thing out of one list (`PickedUp`) and link it into another
(`PutDown`), and between the two it hangs nowhere. Each function has a lemma that says which things are
out before and after and what it leaves where it was; a thing may be laid into a container that is
not in it, which `Holds` says by a set that has the container and all it is in, and not the thing.
Loops are folds over sets whose members change
under way: `RunReaches` gives a fold as a function on the parts of its set, so that a lemma about
one step goes through the whole loop (`StepByStep`) when it says too what the step leaves for those
to come. The order in which a loop takes the members is whatever the fold chooses,
and the proof uses nothing of it. `RootOf` is a choice of a top; `Rooted` gives that there is one, by a
least counterexample among the sets of things, and that it hangs from a room or a character. Sums
change in one or two terms at a time, as those of Pazaak do, and stand on the same lemmas.

Only model-checked:

- `ThingsTypeOK` and `SumsTrue` of Objects. They are not true for all values of the constants:
  with containers large enough to stand three deep a weight carried is lost and may fall below 0, and with
  glowing things a light may (both in section 5). That under the bound on sizes of the run's instance they
  hold for any number of things is not proved; the shape of things and that the sums are whole
  numbers is part of `ThingsIInv`.
- Liveness (`EveryThreadReaped`, `FireAndJumpEnd`): it needs fairness, hence ENABLED.
- The function `AuctionSort` computes: what a recursive function yields for every list is
  an induction over data; TLC evaluates `SortAssumption` for it on every list of the instance.

## 5. Findings

Where a comment, a message or an assertion of the code says one thing and the
code does another, and a run shows it:

1. `auction.cpp:302`: with the item the winner's bet is freed, and the difference
   between his limit and the price is nobody's (`winner_pays_bet`).

Stated in the modules without a run, each broken by the code:

- `SortReturns` (auction.cpp:752): a bet put back into the middle of the list is linked to
  itself, and the server hangs in `FOREACH`.
- `FinishFinal` (stock_market.cpp:1962): an end by hand is not saved; a reboot reopens the auction.
- `NoSecondBody` (comm.cpp:1967): a link-dead body played by an immortal is not found, and
  its player gets a second one.
- `InGamePastLogin` (conn.cpp:788): a mistyped repetition of a new password moves a playing
  character back into the states of a creation.
- `BodyAwaits` (update.cpp:1703): the idle clock extracts the body of a player who is playing another one.
- `ModeHasWork` (comm.cpp:2113): a takeover copies the mode of the old link but not what the mode works on.
- `FilesStayWhole` (comm.cpp:229): the crash rescue saves a character of which only the part
  needed for the password was loaded.
- `AbortedLandingFlies` (space.cpp:9121) and `LateDockCalledOff` (space2.cpp:4278): a landing
  called off leaves the ship in the list of the place; a mooring whose partner has left reads through null.
- `GlowLights` (handler.cpp:2121): a stack of glowing things gives and takes the light of one.
- `LoadTrue` with containers that stand three deep (handler.cpp:2157): a thing of a quest in a bag in a bag
  in a bag is in a character's weight; when the innermost bag decays, `extract_obj` takes its weight off
  through `obj_from_obj`, which climbs to the outermost bag, and puts the thing into the middle one through `obj_to_obj`,
  which asks only who carries that one itself: nobody. TLC finds it with four things and bags of size 6.
- `FoughtAreThere` (handler.cpp:2424): a character that leaves the game looks for those who fight
  it only while it fights itself; if its own fight was ended by somebody else's flight,
  an attacker keeps a pointer to it, past its being freed.
- `FightersCounted` (fight.cpp:2455): `num_fighting` drifts from the number of attackers.
- `FreedUnused` (id.cpp:237): a forgotten connection's descriptor is used after it was freed.
- `FailureRemembered`, `ChaptersStayDone`, `LoginWritesNothing` (quest.cpp:1125, 2644, save.cpp:1971):
  the file of a quest forgets failure and completed chapters; a quest completed while its
  owner is being loaded writes his half-read file.
- `SupermobOnce` (handler.cpp:1656): a room that answers another one's program links the supermob
  into a second list of people. `FullMeansBusy` (mud.h:230): a room or a thing gets back the
  count from before its script ended, and is refused for good after `MAX_SCRIPTS` of them.
- `HeldItem` with `Namesakes = TRUE` (stock_market.cpp:1521): `send` publishes another thing of that name.

Hazards met while reading that no definition states: a crash between the stock file and the
player file (stock_market.cpp:2051); sums of gold in `int` (stock_market.cpp:2033); a buyout
price above the first limit plus 5 (auction.cpp:797); `accept` without free sockets
(id.cpp:76); the flush of a full buffer (comm.cpp:1646); things of EVENT_BRING_OBJ, whose walk
follows `next_content` of a thing it has moved (quest.cpp:1843); a questor's death,
which leaves the pointer ACTION_REWARD reads (quest.cpp:289); `load_quest_data`
returning without closing its file (quest.cpp:2696); a critical chapter without events, which
a reload makes unfinishable (excluded by `ChaptersAssumption`); `loadGames` whose
query fails and leaves an empty list.

## 6. Plan

In order of what several actors share:

1. The queues of acts (`mpact`) beside `Scripts`: both updates drop what is added to
   the head of a list while they run its first entry (mud_prog.cpp:4460, 4496).
2. `SumsTrue` of `Objects` for containers too small to stand three deep, by the sums over `Whole`
   and the depth of what is carried;
   `Presence`, the abstract specification of a player in the game (absent, playing,
   link-dead, one body), would be shown to be implemented by `Sessions`.
3. `Rooms`: people, counters of areas and doors through moves and logins;
   `Gear`: what affects and equipment add to a character and take away again.
4. `SharedStrings`: counts of the hashed strings in a short integer.
5. `PlayerFiles`: the order of writing in save, clone and destroy, the widths of sums.

### Not modelled

- Movement of ships, damage, skills, experience: floating point and dice; what they
  decide is a choice of the models wherever something else follows from it.
- The contents of texts, the parsing of areas, help files and XML: layout.
- Bounties, shops, clans, boards, tables, information commands: one command each
  on records nobody else keeps a pointer to; a unit test reaches them.
- Area resets: read constants and make things and mobs, whose lives the other
  modules have.
- The kernel's sockets beyond "it answers, refuses or fails".
- Editors of the building commands: assign fields; that the thing may go
  while it is edited is in ExchangeTerminal and, as a mode, in Sessions.
