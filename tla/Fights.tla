------------------------------- MODULE Fights -------------------------------
(***************************************************************************)
(* Who fights whom (fight.cpp).  A fight is a pointer, ch->fighting->who,  *)
(* kept in the attacker: nothing in the attacked leads back to him but a   *)
(* count, num_fighting.  So all that ends a fight, moves one of the two    *)
(* away, or takes him out of the game, must find the others, and the round *)
(* of violence_update does all of that while it walks over the characters. *)
(*                                                                         *)
(* A command is one action.  The round is one handler too, but is modelled *)
(* visit by visit and helper by helper: no command comes in between, for   *)
(* all of them wait until the update is over.  A round of several hits is  *)
(* one hit of the sum of their harm.  Points are bands (the positions of   *)
(* update_pos); mounts, charms, groups and the harm itself are left out:   *)
(* anyone of one's kind may help.                                          *)
(***************************************************************************)
EXTENDS Integers, FiniteSets

CONSTANTS
    Players, Mobs,
    Rooms,
    None,        \* NULL
    MaxFight,    \* max_fight
    Stunners,    \* those who can stun
    Rescuers     \* those who can rescue

ASSUME FightsAssumption ==
    /\ Players \cap Mobs = {} /\ None \notin Players \cup Mobs \cup Rooms
    /\ IsFiniteSet(Players) /\ IsFiniteSet(Mobs)
    /\ Stunners \cup Rescuers \subseteq Players \cup Mobs
    /\ MaxFight \in Nat

VARIABLES
    char,    \* the characters
    round    \* where update_handler is

vars == <<char, round>>

Chars == Players \cup Mobs

\* POS_INCAP and POS_MORTAL, in which one bleeds, are one band.
Bands == {"well", "stunned", "incap", "dead"}
Down == Bands \ {"well"}
Positions == Down \cup {"fighting", "standing"}

Char == [stage : {"in", "queued", "gone"}, room : Rooms \cup {None},
         fighting : Chars \cup {None}, num : Int,
         hit : Bands, position : Positions, still : BOOLEAN]

Fresh(r) == [stage |-> "in", room |-> r, fighting |-> None, num |-> 0,
             hit |-> "well", position |-> "standing", still |-> FALSE]
Absent == [Fresh(None) EXCEPT !.stage = "gone"]

\* Between two updates; within one, those violence_update has still to visit,
\* the one it is at, whom he fought and who may still help one of them.
Round == [on : {"no", "quiet", "violence"}, rest : SUBSET Chars, at : Chars \cup {None},
          victim : Chars \cup {None}, helpers : SUBSET Chars]
Idle == [on |-> "no", rest |-> {}, at |-> None, victim |-> None, helpers |-> {}]

TypeOK ==
    /\ char \in [Chars -> Char]
    /\ \A c \in Chars : char[c].stage = "in" <=> char[c].room # None
    /\ round \in Round

Init ==
    /\ char = [c \in Chars |-> Absent]
    /\ round = Idle

-----------------------------------------------------------------------------
(* Functions of fight.cpp, on the characters as they are. *)

In(S) == {c \in Chars : S[c].stage = "in"}
Fighting(S, c) == {f \in In(S) : S[f].fighting = c}
Awake(S, c) == S[c].position \notin Down

UpdatePos(S, c) ==
    [S EXCEPT ![c].position =
        CASE S[c].hit # "well" /\ c \in Mobs -> "dead"
          [] S[c].hit # "well" /\ c \notin Mobs -> S[c].hit
          [] S[c].hit = "well" /\ S[c].still -> "stunned"
          [] S[c].hit = "well" /\ ~ S[c].still /\ @ \in Down -> "standing"
          [] OTHER -> @]

\* set_fighting: his own count starts anew.  Who is too busy is left alone.
SetFighting(S, c, v) ==
    IF S[c].fighting # None \/ S[v].num > MaxFight THEN S
    ELSE [[S EXCEPT ![c].num = 1, ![c].fighting = v, ![c].position = "fighting"]
             EXCEPT ![v].num = @ + 1]

\* One less is counted on whom c fought, unless that one was just extracted.
FreeFight(S, c) ==
    LET Uncounted(w) ==
            IF w = None THEN S
            ELSE IF S[w].stage = "in" THEN [S EXCEPT ![w].num = @ - 1] ELSE S
    IN [Uncounted(S[c].fighting) EXCEPT ![c].fighting = None, ![c].position = "standing"]

\* stop_fighting(ch, false)
Leave(S, c) == UpdatePos(FreeFight(S, c), c)

\* The loop of stop_fighting(ch, true), over those who fight c
Abandon(S, c) ==
    LET all == Fighting(S, c)
        Alone(f) == UpdatePos([S EXCEPT ![f].fighting = None, ![f].position = "standing"], f)[f]
        Parted(f) == IF f \in all THEN Alone(f) ELSE S[f]
    IN [f \in Chars |->
          [Parted(f) EXCEPT !.num =
              IF f = c /\ S[c].stage = "in" THEN @ - Cardinality(all) ELSE @]]

\* stop_fighting(ch, true)
Stop(S, c) == Abandon(Leave(S, c), c)

\* Mutant: he is not taken out of his room.
ExtractInRoom(S, c) ==
    LET Queued(T) == [T EXCEPT ![c].stage = "queued"] IN
    IF S[c].fighting # None THEN Stop(Queued(S), c) ELSE Queued(S)

\* extract_char: queued, and freed when the update is over.  Who fights nobody
\* is taken to be fought by nobody.
Extract(S, c) ==
    LET Queued(T) == [T EXCEPT ![c].stage = "queued"]
        Out(T) == [T EXCEPT ![c].room = None]
    IN Out(IF S[c].fighting # None THEN Stop(Queued(S), c) ELSE Queued(S))

\* Mutant: a mob's death ends its fights, and it stays.
RawKillPlayers(S, c) == IF c \in Players THEN Extract(Stop(S, c), c) ELSE Stop(S, c)

\* raw_kill
RawKill(S, c) == Extract(Stop(S, c), c)

Flees(S, c) == S[c].fighting # None /\ S[c].position \notin Down

\* do_flee through an exit to r
Flee(S, c, r) ==
    IF Flees(S, c) THEN Stop([S EXCEPT ![c].room = r], c) ELSE S

\* do_quit
MayQuit(S, c) == c \in Players /\ S[c].position \in {"standing", "stunned"}
QuitIn(S, c) == IF MayQuit(S, c) THEN Extract(S, c) ELSE S

-----------------------------------------------------------------------------
(* damage. *)

\* Each takes up the fight with the other, who is free to.
Meet(S, c, v) ==
    LET Return(T) == IF T[v].fighting = None THEN T
                     ELSE [T EXCEPT ![v].position = "fighting"]
    IN IF c = v \/ S[v].position \in Down THEN S
       ELSE SetFighting(Return(SetFighting(S, v, c)), c, v)

Worse(v, h) ==
    IF v \in Mobs THEN {h, "dead"}
    ELSE CASE h = "well" -> Bands
           [] h = "stunned" -> Down
           [] OTHER -> {"incap", "dead"}

Wound(S, v, h) == UpdatePos([S EXCEPT ![v].hit = h], v)

\* Mutant: only players' fights are stopped.
FallPlayers(S, v) ==
    IF S[v].position = "dead" THEN RawKill(S, v)
    ELSE IF v \in Players /\ S[v].hit = "stunned" THEN Stop(S, v)
    ELSE S

\* Who is not awake any more, unless it is because he was stunned, and what
\* player has no points left, gives up and is given up; the dead go.
Fall(S, v) ==
    IF S[v].position = "dead" THEN RawKill(S, v)
    ELSE IF (S[v].position \in Down /\ ~ S[v].still) \/ (v \in Players /\ S[v].hit # "well")
    THEN Stop(S, v)
    ELSE S

\* Who is hurt may run, by himself or because his wits or his link leave him;
\* without a link he then quits.
Sequel(S, v, how, r) ==
    IF S[v].stage # "in" \/ how = "stay" THEN S
    ELSE IF how = "flee" THEN Flee(S, v, r)
    ELSE QuitIn(Flee(S, v, r), v)

\* one_hit finds nobody where the other is dead or elsewhere.
Misses(S, c, v) == S[v].position = "dead" \/ S[c].room # S[v].room

\* What a hit may come to
Hits(S, c, v) ==
    IF Misses(S, c, v) THEN {S}
    ELSE {Sequel(Fall(Wound(Meet(S, c, v), v, h), v), v, how, r) :
             h \in Worse(v, S[v].hit), how \in {"stay", "flee", "leave"}, r \in Rooms}

-----------------------------------------------------------------------------
(* Commands, and what else comes between two updates. *)

Between == round.on = "no"
There(c) == char[c].stage = "in"

\* A player enters the game, a mob is made.
Arrive(c, r) ==
    /\ Between /\ char[c].stage = "gone" /\ Fighting(char, c) = {}
    /\ char' = [char EXCEPT ![c] = Fresh(r)]
    /\ UNCHANGED round

\* kill, murder, and any skill, spell or grenade that harms
Strike(c, v) ==
    /\ Between /\ There(c) /\ There(v)
    /\ Awake(char, c) /\ char[c].room = char[v].room
    /\ char' \in Hits(char, c, v)
    /\ UNCHANGED round

Run(c, r) ==
    /\ Between /\ There(c) /\ Flees(char, c)
    /\ char' = Flee(char, c, r)
    /\ UNCHANGED round

\* move_char, by foot
Walk(c, r) ==
    /\ Between /\ There(c) /\ char[c].position = "standing" /\ r # char[c].room
    /\ char' = [char EXCEPT ![c].room = r]
    /\ UNCHANGED round

\* do_transfer
Transfer(c, r) ==
    /\ Between /\ There(c)
    /\ char' = [(IF char[c].fighting # None THEN Stop(char, c) ELSE char) EXCEPT ![c].room = r]
    /\ UNCHANGED round

Quit(c) ==
    /\ Between /\ There(c) /\ MayQuit(char, c)
    /\ char' = Extract(char, c)
    /\ UNCHANGED round

\* do_purge, and whatever else takes a mob away
Purge(m) ==
    /\ Between /\ There(m) /\ m \in Mobs
    /\ char' = Extract(char, m)
    /\ UNCHANGED round

\* do_stun; a blaster that stuns ends the victim's fights first.
Stun(c, first) ==
    LET v == char[c].fighting
        Stunned(S) == UpdatePos([S EXCEPT ![v].still = TRUE], v)
    IN /\ Between /\ There(c) /\ c \in Stunners /\ Awake(char, c)
       /\ v # None /\ ~ char[v].still
       /\ char' = Stunned(IF first THEN Stop(char, v) ELSE char)
       /\ UNCHANGED round

\* do_rescue.  Rescuing somebody from himself he ends up fighting himself.
Rescue(c, v) ==
    LET f == char[v].fighting
        Parted(S) == IF S[c].fighting # None THEN Leave(S, c) ELSE S
    IN /\ Between /\ There(c) /\ There(v) /\ c # v /\ c \in Rescuers
       /\ Awake(char, c) /\ char[c].room = char[v].room
       /\ v \in Mobs => c \in Mobs
       /\ f # None
       /\ char' = SetFighting(SetFighting(Parted(Leave(Leave(char, f), v)), c, f), f, c)
       /\ UNCHANGED round

\* do_circle steals up on who is busy with somebody else.
MayCircle(c, v) ==
    /\ There(c) /\ There(v) /\ c # v /\ char[c].room = char[v].room
    /\ Awake(char, c) /\ char[c].fighting # None /\ char[v].fighting # None
    /\ char[v].num >= 2
Circle(c, v) ==
    /\ Between /\ MayCircle(c, v)
    /\ char' \in Hits(char, c, v)
    /\ UNCHANGED round

\* char_update: he recovers, or bleeds.
Recover(c) ==
    /\ Between /\ There(c) /\ char[c].hit # "well"
    /\ \E h \in Bands \ Worse(c, char[c].hit) : char' = Wound(char, c, h)
    /\ UNCHANGED round
Bleed(c) ==
    /\ Between /\ There(c) /\ char[c].position = "incap"
    /\ \E h \in Worse(c, char[c].hit) : char' = Fall(Wound(char, c, h), c)
    /\ UNCHANGED round

-----------------------------------------------------------------------------
(* The update. *)

BeginUpdate(violence) ==
    /\ Between
    /\ round' = IF violence THEN [Idle EXCEPT !.on = "violence", !.rest = In(char)]
                ELSE [Idle EXCEPT !.on = "quiet"]
    /\ UNCHANGED char

\* gch_prev: who is extracted is not visited any more.
Onward(c) == round' = [Idle EXCEPT !.on = "violence", !.rest = (round.rest \ {c}) \cap In(char')]

Kin(c, h) == (c \in Players) <=> (h \in Players)

HelpersOf(c) ==
    round' = [on |-> "violence", rest |-> (round.rest \ {c}) \cap In(char'), at |-> c,
              victim |-> char'[c].fighting,
              helpers |-> {h \in In(char') \ {char'[c].fighting} :
                              char'[h].room = char'[c].room /\ Kin(c, h)}]

\* Mutant: the one who fights at a distance goes on.
RoundKeeps(S, c) ==
    LET v == S[c].fighting IN
    IF v = None \/ S[c].still THEN {S}
    ELSE IF c \in Mobs /\ v \in Players /\ S[v].hit # "well" THEN {Stop(S, c)}
    ELSE IF Awake(S, c) /\ S[c].room = S[v].room THEN Hits(S, c, v)
    ELSE {S}

RoundOf(S, c) ==
    LET v == S[c].fighting IN
    IF v = None \/ S[c].still THEN {S}
    ELSE IF c \in Mobs /\ v \in Players /\ S[v].hit # "well" THEN {Stop(S, c)}
    ELSE IF Awake(S, c) /\ S[c].room = S[v].room THEN Hits(S, c, v)
    ELSE {Leave(S, c)}

\* A stun may wear off; then the round of his own fight.
Visit(c) ==
    /\ ~ Between /\ round.at = None /\ c \in round.rest
    /\ \E S \in {char} \cup (IF char[c].still THEN {UpdatePos([char EXCEPT ![c].still = FALSE], c)}
                               ELSE {}) :
          char' \in RoundOf(S, c)
    /\ IF char'[c].stage = "in" /\ char'[c].fighting # None /\ ~ char'[c].still
       THEN HelpersOf(c) ELSE Onward(c)

\* Who is free helps his kind: players against the one their friend fought,
\* mobs against him or a friend of his.
Help(h) ==
    /\ ~ Between /\ round.at # None /\ h \in round.helpers
    /\ There(h) /\ Awake(char, h) /\ char[h].fighting = None
    /\ round.at \in Mobs => There(round.at)
    /\ \E v \in {round.victim} \cup
                {w \in Players : h \in Mobs /\ round.victim \in Players /\ There(w)
                                   /\ char[w].room = char[h].room} :
          char' \in Hits(char, h, v)
    /\ round' = [round EXCEPT !.helpers = @ \ {h}, !.rest = @ \cap In(char')]

EndVisit ==
    /\ ~ Between /\ round.at # None
    /\ UNCHANGED char
    /\ Onward(round.at)

\* clean_char_queue
EndUpdate ==
    /\ ~ Between /\ round.at = None /\ round.rest = {}
    /\ char' = [c \in Chars |-> IF char[c].stage = "queued" THEN Absent ELSE char[c]]
    /\ round' = Idle

-----------------------------------------------------------------------------
\* Safety: whoever a character of the game fights is in the game, or was
\* extracted in this very update and is not freed yet.
FoughtAreThere ==
    \A c \in In(char) :
        char[c].fighting # None => char[char[c].fighting].stage # "gone"

Command(c) ==
    \/ \E r \in Rooms : Arrive(c, r) \/ Run(c, r) \/ Walk(c, r) \/ Transfer(c, r)
    \/ \E v \in Chars : Strike(c, v) \/ Rescue(c, v) \/ Circle(c, v)
    \/ \E first \in BOOLEAN : Stun(c, first)
    \/ Quit(c) \/ Purge(c) \/ Recover(c) \/ Bleed(c)

Update ==
    \/ \E violence \in BOOLEAN : BeginUpdate(violence)
    \/ \E c \in Chars : Visit(c) \/ Help(c)
    \/ EndVisit \/ EndUpdate

\* With a pointer to a freed character anything may happen: the model stops.
Next == FoughtAreThere /\ (Update \/ \E c \in Chars : Command(c))

Spec == Init /\ [][Next]_vars

-----------------------------------------------------------------------------
(* More properties. *)

\* Safety: the dead are taken out of the game by the handler that kills them,
\* be it a command, a round or a wound that bleeds: none is left to be fought,
\* to answer or to be killed again.  Who lies on the ground, and was not just
\* stunned, fights nobody and is fought by nobody, however many fought him.
FallenAreOut ==
    \A v \in In(char) :
        /\ char[v].position # "dead"
        /\ char[v].position \in Down /\ ~ char[v].still =>
              char[v].fighting = None /\ Fighting(char, v) = {}

\* What num_fighting is read for, and is not: the number of those who fight
\* him, and one more if he has ever fought.
FightersCounted ==
    \A v \in In(char) :
        char[v].num - Cardinality(Fighting(char, v)) \in 0 .. 1

\* Action property: when a round of violence is over everyone who fights and
\* is not stunned has his opponent before him, wherever those who were met
\* earlier or later in the round have run.
RoundParts ==
    [][EndUpdate /\ round.on = "violence" =>
         \A c \in In(char) :
            LET v == char[c].fighting IN
            v # None => char[c].still \/ char[v].stage = "queued"
                          \/ char[c].room = char[v].room]_vars
=============================================================================
