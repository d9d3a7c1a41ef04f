------------------------------ MODULE Objects ------------------------------
(***************************************************************************)
(* Things: where each of them is, the stacks they form, and the sums the   *)
(* program keeps beside the lists instead of counting them again           *)
(* (handler.cpp, act_obj.cpp, makeobjs.cpp, misc.cpp, update.cpp).         *)
(*                                                                         *)
(* A thing hangs in the list of a room, of a character or of another       *)
(* thing; equal things in one list are one OBJ_DATA with a count.  Four    *)
(* numbers are kept by hand at every move: what a character carries in     *)
(* weight and in pieces, the light of a room, and how many of a kind the   *)
(* world holds.                                                            *)
(*                                                                         *)
(* Operators named after a function of the code map the state before it,   *)
(* a record like World, to the state after it; a command is a composition  *)
(* of them.  Lists are sets: which of several equal stacks a thing joins,  *)
(* and in which order a thing is emptied, no property tells apart.         *)
(*                                                                         *)
(* Left out: names and visibility (any thing of the list may be meant),    *)
(* owners of personal things, traps, object programs, money, locks, layers *)
(* of clothing, coverings under coverings.  A command on "all" is the      *)
(* command on each thing in turn.                                          *)
(***************************************************************************)
EXTENDS Integers, FiniteSets, FiniteSetsExt, Functions

CONSTANTS
    Objs,       \* the addresses of things
    Chars, Rooms,
    Kinds,      \* OBJ_INDEX_DATA
    Null,       \* the null pointer
    Weight,     \* obj->weight of each kind
    Size,       \* value[0] of a container: the weight it may reach
    Containers, \* ITEM_CONTAINER
    Coverings,  \* ITEM_COVERING: things are hidden under it
    Lamps,      \* ITEM_LIGHT with power
    Glowing,    \* ITEM_GLOW
    Forces,     \* ITEM_FORCE: weighs nothing when worn
    InQuest,    \* things of a quest
    Wearable,   \* kinds that can be worn, each in a place of its own
    Zapping,    \* kinds that may refuse their wearer
    Inventory,  \* ITEM_INVENTORY: a shop's, neither decays nor is left in a corpse
    Corpse, Scraps,
    Quarters,   \* Quest_Master->in_room
    Below,      \* where a thing falls from each room without a floor, or Null
    CarryN,     \* can_carry_n
    CarryW,     \* can_carry_w
    MaxPieces   \* bound: pieces the world makes

Places == Chars \cup Rooms \cup Objs

ASSUME ObjectsAssumption ==
    /\ IsFiniteSet(Objs)
    /\ Chars \cap Rooms = {} /\ Objs \cap (Chars \cup Rooms) = {}
    /\ Null \notin Places \cup Kinds
    /\ {"queue", "free", "aside"} \cap (Places \cup {Null}) = {}
    /\ Weight \in [Kinds -> Nat]
    /\ Size \in [Containers \cup Coverings -> Nat]
    /\ {Corpse, Scraps} \cup Containers \cup Coverings \cup Lamps \cup Glowing
           \cup Forces \cup InQuest \cup Wearable \cup Zapping \cup Inventory \subseteq Kinds
    /\ Quarters \in Rooms
    /\ Below \in [Rooms -> Rooms \cup {Null}]
    /\ \A r \in Rooms : Below[r] # Null => Below[Below[r]] = Null
    /\ CarryN \in Nat /\ CarryW \in Nat /\ MaxPieces \in Nat

VARIABLES
    obj,        \* OBJ_DATA: kind, count, at (carried_by, in_room or in_obj), worn
    load,       \* ch->carry_weight
    number,     \* ch->carry_number
    light,      \* room->light
    index,      \* pIndexData->count
    here        \* ch->in_room

thingVars == <<obj, load, number, light, index, here>>

\* Null: in no list.  "aside" too: make_corpse has put it there, and may forget it.
Spots == Places \cup {Null, "aside"}

Clear == [kind |-> Null, count |-> 0, at |-> "free", worn |-> FALSE]
Extracted == [Clear EXCEPT !.at = "queue"]

World == [obj |-> obj, load |-> load, number |-> number,
          light |-> light, index |-> index, here |-> here]

Becomes(w) ==
    /\ obj' = w.obj /\ load' = w.load /\ number' = w.number
    /\ light' = w.light /\ index' = w.index /\ here' = w.here

-----------------------------------------------------------------------------
(* What the state says. *)

In(w, p) == {o \in Objs : w.obj[o].at = p}
Kind(w, o) == w.obj[o].kind
IsA(w, o, S) == w.obj[o].kind \in S
Live(w) == {o \in Objs : w.obj[o].at \notin {"queue", "free"}}

\* A thing with all that is in it: the least set that has it and what is in any of the set.
Whole(w, o) ==
    {x \in Objs : \A C \in SUBSET Objs :
        o \in C /\ (\A y \in Objs : w.obj[y].at \in C => y \in C) => x \in C}

\* get_obj_weight, which calls itself for all that is in it
WeightOf(w, o) ==
    SumFunction([x \in Whole(w, o) |-> w.obj[x].count * Weight[w.obj[x].kind]])

\* The character, the room or the nothing a thing hangs from in the end.
RootOf(w, o) ==
    LET top == CHOOSE y \in Objs : o \in Whole(w, y) /\ w.obj[y].at \notin Objs
    IN w.obj[top].at

-----------------------------------------------------------------------------
(* Lists and stacks. *)

Put(w, o, p) == [w EXCEPT !.obj[o].at = p]

\* group_object: alike, and both empty.
Alike(w, o, t) ==
    /\ t # o
    /\ w.obj[t].kind = w.obj[o].kind /\ w.obj[t].worn = w.obj[o].worn
    /\ ~ IsA(w, o, InQuest)
    /\ In(w, o) = {} /\ In(w, t) = {}

Stacks(w, o, p) == {t \in In(w, p) : Alike(w, o, t)}

\* Mutant: the stack does not grow.
GroupLost(w, o, p) ==
    IF Stacks(w, o, p) = {} THEN Put(w, o, p)
    ELSE [w EXCEPT !.obj[o] = Extracted]

\* Linked into the list, or grown into a stack of it and extracted.
Group(w, o, p) ==
    IF Stacks(w, o, p) = {} THEN Put(w, o, p)
    ELSE LET t == CHOOSE t \in Stacks(w, o, p) : TRUE
         IN [w EXCEPT !.obj[t].count = @ + w.obj[o].count, !.obj[o] = Extracted]

Fresh(w) == {o \in Objs : w.obj[o].at = "free"}
New(w) == CHOOSE f \in Fresh(w) : TRUE
Clonable(w, o, n) == w.obj[o].count > n => Fresh(w) # {}

\* split_obj: o keeps n pieces, the rest is a thing of its own beside it.
Split(w, o, n) ==
    IF w.obj[o].count <= n THEN w
    ELSE LET rest == New(w)
         IN [w EXCEPT !.obj[rest] = [w.obj[o] EXCEPT !.count = @ - n],
                      !.obj[o].count = n]
Separate(w, o) == Split(w, o, 1)

-----------------------------------------------------------------------------
(* Moves between the lists. *)

UnequipChar(w, o) ==
    LET c == w.obj[o].at
    IN [w EXCEPT !.obj[o].worn = FALSE,
                 !.number[c] = @ + w.obj[o].count,
                 !.load[c] = @ + IF IsA(w, o, Forces) THEN WeightOf(w, o) ELSE 0,
                 !.light[w.here[c]] = IF IsA(w, o, Lamps) /\ @ > 0 THEN @ - 1 ELSE @]

ObjToChar(w, o, c) ==
    [Group(w, o, c) EXCEPT !.number[c] = @ + w.obj[o].count,
                           !.load[c] = @ + WeightOf(w, o)]

\* What comes to light when the thing is taken up.
Under(w, o) == IF IsA(w, o, Coverings) THEN In(w, o) ELSE {}

\* A thing under a covering that is taken up stays with the one who takes it.
ObjFromChar(w, o) ==
    LET c == w.obj[o].at
        Bare(x, v) == ObjToChar([v EXCEPT !.load[c] = @ - WeightOf(v, x)], x, c)
        Gone(v) == [v EXCEPT !.number[c] = @ - v.obj[o].count, !.load[c] = @ - WeightOf(v, o)]
    IN Gone(FoldSet(Bare, Put(IF w.obj[o].worn THEN UnequipChar(w, o) ELSE w, o, Null),
                    Under(w, o)))

\* obj_to_room without the fall: the light of a thing that joins a stack is
\* not counted.
Lay(w, o, r) ==
    LET Shine(v) == [v EXCEPT !.light[r] =
                       @ + IF v.obj[o].at = r /\ IsA(w, o, Glowing) THEN w.obj[o].count ELSE 0]
    IN Shine(Group(w, o, r))

ObjFromRoom(w, o) ==
    LET r == w.obj[o].at
        Bare(x, v) == Lay(Put(v, x, Null), x, r)
    IN [FoldSet(Bare, Put(w, o, Null), Under(w, o)) EXCEPT
            !.light[r] = @ - IF IsA(w, o, Glowing) THEN w.obj[o].count ELSE 0]

\* obj_to_room with obj_fall, one storey deep.
ObjToRoom(w, o, r) ==
    LET Fall(v) ==
            IF v.obj[o].at = r /\ Below[r] # Null /\ ~ IsA(w, o, Forces)
            THEN Lay(ObjFromRoom(v, o), o, Below[r]) ELSE v
    IN Fall(Lay(w, o, r))

\* Mutant: who carries the container does not feel it.
ObjToObjWeightless(w, o, b) == Group(w, o, b)

\* Only who carries the container itself bears what is put into it.
ObjToObj(w, o, b) ==
    LET Heavier(v, c) == IF c \in Chars THEN [v EXCEPT !.load[c] = @ + WeightOf(w, o)] ELSE v
    IN Heavier(Group(w, o, b), w.obj[b].at)

\* The weight leaves whoever carries the outermost container.
Unload(w, o, root) ==
    IF root \in Chars THEN [w EXCEPT !.load[root] = @ - WeightOf(w, o)] ELSE w

Fits(w, x, b) == IsA(w, b, Containers) => WeightOf(w, x) + WeightOf(w, b) <= Size[Kind(w, b)]

ObjFromObj(w, o) ==
    LET b == w.obj[o].at
        Bare(x, v) == IF Fits(v, x, b)
                      THEN ObjToObj(Put(Unload(v, x, RootOf(w, o)), x, Null), x, b) ELSE v
    IN Unload(FoldSet(Bare, Put(w, o, Null), Under(w, o)), o, RootOf(w, o))

Leave(w, o) ==
    CASE w.obj[o].at \in Chars -> ObjFromChar(w, o)
      [] w.obj[o].at \in Rooms -> ObjFromRoom(w, o)
      [] w.obj[o].at \in Objs  -> ObjFromObj(w, o)
      [] OTHER -> w

Enter(w, o, p) ==
    CASE p \in Chars -> ObjToChar(w, o, p)
      [] p \in Rooms -> ObjToRoom(w, o, p)
      [] OTHER -> ObjToObj(w, o, p)

Undo(w, gone) ==
    [w EXCEPT
        !.obj = [x \in Objs |-> IF x \in gone THEN Extracted ELSE @[x]],
        !.index = [k \in Kinds |->
            @[k] - SumFunction([x \in gone |-> IF Kind(w, x) = k THEN w.obj[x].count ELSE 0])]]

\* extract_obj: with all that is in it, but for the things of a quest, which
\* fall out to where it was, or to the quest master when it was nowhere.
ExtractObj(w, o) ==
    LET place == IF w.obj[o].at \in Places THEN w.obj[o].at ELSE Quarters
        Kept(v) == {x \in Whole(v, o) \ {o} : IsA(v, x, InQuest)}
        Gone(v) == Whole(v, o) \ UNION {Whole(v, x) : x \in Kept(v)}
        Rescued(x, v) == Enter(Put(v, x, Null), x, place)
        Rest(v) == FoldSet(Rescued, Undo(v, Gone(v)), {x \in Kept(v) : v.obj[x].at \in Gone(v)})
    IN Rest(Leave(w, o))

\* empty_obj of a container to the floor and into another container
Spill(w, b, r) ==
    FoldSet(LAMBDA x, y : ObjToRoom(ObjFromObj(y, x), x, r), w, In(w, b))
Pour(w, b, d) ==
    FoldSet(LAMBDA x, y : IF Fits(y, x, d) THEN ObjToObj(ObjFromObj(y, x), x, d) ELSE y,
            w, In(w, b))

\* do_fill: what is in s into b, as long as it fits and can be carried
FillUp(w, c, s, b, S) ==
    LET Fitting(v, x) ==
            /\ v.number[c] + v.obj[x].count <= CarryN
            /\ v.load[c] + WeightOf(v, x) <= CarryW
            /\ WeightOf(v, s) + WeightOf(v, b) \div v.obj[b].count <= Size[Kind(v, b)]
    IN FoldSet(LAMBDA x, v : IF Fitting(v, x) THEN ObjToObj(ObjFromObj(v, x), x, b) ELSE v, w, S)

\* Each of a set taken off, or extracted
TakeOff(w, S) == FoldSet(LAMBDA x, v : UnequipChar(v, x), w, S)
ExtractAll(w, S) == FoldSet(LAMBDA x, v : ExtractObj(v, x), w, S)

\* extract_char takes what its hands hold until they are empty: what was in a
\* thing may fall into them, but never deeper than there are things.
Strip(w, c) == FoldSet(LAMBDA x, v : ExtractAll(v, In(v, c)), w, Objs)

\* What make_corpse does with a thing it takes out of the hands: out of the
\* world if it is a shop's, into the corpse, or nowhere (to is then "aside").
Unhand(w, x) == Put(ObjFromChar(w, x), x, "aside")
Discard(w, x) == ExtractObj(Unhand(w, x), x)
Bury(w, x, to) ==
    IF IsA(w, x, Inventory) THEN Discard(w, x)
    ELSE IF to = "aside" THEN Unhand(w, x) ELSE ObjToObj(Unhand(w, x), x, to)
BuryAll(w, S, to) == FoldSet(LAMBDA x, v : Bury(v, x, to), w, S)
DiscardAll(w, S) == FoldSet(LAMBDA x, v : Discard(v, x), w, S)

\* create_object
CreateObject(w, f, k) ==
    [w EXCEPT !.obj[f] = [kind |-> k, count |-> 1, at |-> Null, worn |-> FALSE],
              !.index[k] = @ + 1]

-----------------------------------------------------------------------------
(* The commands. *)

ThingsInit ==
    /\ obj = [o \in Objs |-> Clear]
    /\ load = [c \in Chars |-> 0]
    /\ number = [c \in Chars |-> 0]
    /\ light = [r \in Rooms |-> 0]
    /\ index = [k \in Kinds |-> 0]
    /\ here \in [Chars -> Rooms]

\* get_obj_here: on the floor, in the hands, on the body
Reach(c) == In(World, here[c]) \cup In(World, c)
Hand(c) == {o \in In(World, c) : ~ obj[o].worn}

CanTake(w, c, o) ==
    /\ w.number[c] + w.obj[o].count <= CarryN
    /\ w.load[c] + (IF IsA(w, o, Coverings) THEN Weight[Kind(w, o)] ELSE WeightOf(w, o)) <= CarryW

More == SumFunction(index) < MaxPieces

\* A reset or a shop makes a thing: on the floor, in a hand, in a container.
Make(k) ==
    /\ Fresh(World) # {} /\ More
    /\ \E p \in Places : LET f == New(World) IN
        /\ p \in Objs => /\ obj[p].kind \in Containers \cup Coverings
                         /\ obj[p].at \in Rooms \cup Chars
                         /\ k \notin Coverings
        /\ Becomes(Enter(CreateObject(World, f, k), f, p))

Get(c, o, n) ==
    /\ o \in In(World, here[c]) /\ n <= obj[o].count /\ Clonable(World, o, n)
    /\ LET w == Split(World, o, n) IN
        /\ CanTake(w, c, o)
        /\ Becomes(ObjToChar(ObjFromRoom(w, o), o, c))

GetFrom(c, o, b, n) ==
    /\ b \in Reach(c) /\ obj[b].kind \in Containers \cup Coverings \cup {Corpse}
    /\ obj[b].kind \in Coverings \ Containers => load[c] + Weight[obj[b].kind] <= CarryW
    /\ o \in In(World, b) /\ n <= obj[o].count /\ Clonable(World, o, n)
    /\ LET w == Split(World, o, n) IN
        /\ CanTake(w, c, o)
        /\ Becomes(ObjToChar(ObjFromObj(w, o), o, c))

\* The thing and the container are taken off their stacks; under a covering
\* goes only what weighs no more than what is there.
PutIn(c, o, b) ==
    /\ o \in Hand(c) /\ b \in Reach(c) \ {o} /\ obj[b].kind \in Containers \cup Coverings
    /\ LET one == WeightOf(World, o) \div obj[o].count
           box == WeightOf(World, b) \div obj[b].count
       IN /\ one + box <= Size[obj[b].kind]
          /\ obj[b].kind \in Coverings =>
                /\ one <= box - Weight[obj[b].kind]
                /\ load[c] + Weight[obj[b].kind] <= CarryW
    /\ Clonable(World, o, 1) /\ Clonable(Separate(World, o), b, 1)
    /\ LET w == Separate(Separate(World, o), b)
       IN Becomes(ObjToObj(ObjFromChar(w, o), o, b))

\* put all, put n: the stack goes in one move.
PutPieces(c, o, b, n) ==
    /\ o \in Hand(c) /\ b \in Reach(c) \ {o} /\ obj[b].kind \in Containers
    /\ n <= obj[o].count
    /\ Clonable(World, b, 1) /\ Clonable(Separate(World, b), o, n)
    /\ LET w == Separate(World, b)
           v == Split(w, o, n)
       IN /\ WeightOf(w, o) + WeightOf(w, b) <= Size[obj[b].kind]
          /\ Becomes(ObjToObj(ObjFromChar(v, o), o, b))

Drop(c, o, n) ==
    /\ o \in Hand(c) /\ n <= obj[o].count /\ Clonable(World, o, n)
    /\ Becomes(ObjToRoom(ObjFromChar(Split(World, o, n), o), o, here[c]))

Give(c, o, v) ==
    /\ v # c /\ here[v] = here[c] /\ o \in Hand(c) /\ Clonable(World, o, 1)
    /\ number[v] + 1 <= CarryN
    /\ load[v] + WeightOf(World, o) \div obj[o].count <= CarryW
    /\ Becomes(ObjToChar(ObjFromChar(Separate(World, o), o), o, v))

\* fill: a thing from the floor, or what a container has in it, into a
\* container in the hand
Fill(c, o, b) ==
    /\ o \in In(World, here[c]) /\ obj[o].kind \notin Containers \cup {Corpse}
    /\ b \in Hand(c) /\ obj[b].kind \in Containers /\ Clonable(World, b, 1)
    /\ load[c] + WeightOf(World, o) <= CarryW
    /\ WeightOf(World, o) + WeightOf(World, b) \div obj[b].count <= Size[obj[b].kind]
    /\ Becomes(ObjToObj(ObjFromRoom(Separate(World, b), o), o, b))

FillFrom(c, s, b) ==
    /\ s \in Reach(c) \ {b} /\ obj[s].kind \in Containers \cup {Corpse} /\ In(World, s) # {}
    /\ b \in Hand(c) /\ obj[b].kind \in Containers /\ Clonable(World, b, 1)
    /\ Becomes(FillUp(Separate(World, b), c, s, b, In(World, s)))

\* empty: onto the floor or into another container
Empty(c, b) ==
    /\ b \in Hand(c) /\ obj[b].kind \in Containers /\ In(World, b) # {} /\ Clonable(World, b, 1)
    /\ LET w == Separate(World, b) IN
        \/ Becomes(Spill(w, b, here[c]))
        \/ \E d \in Reach(c) \ {b} :
            /\ obj[d].kind \in Containers /\ Clonable(w, d, 1)
            /\ Becomes(Pour(Separate(w, d), b, d))

\* get_eq_char of the place a kind is worn in
Worn(c, k) ==
    {t \in In(World, c) : obj[t].worn /\ (obj[t].kind = k \/ {obj[t].kind, k} \subseteq Lamps)}

\* wear: what is worn in that place is taken off; a thing may refuse its
\* wearer and falls.
Wear(c, o) ==
    /\ o \in Hand(c) /\ obj[o].kind \in Wearable /\ Clonable(World, o, 1)
    /\ LET PutOn(w) == [w EXCEPT
                !.obj[o].worn = TRUE,
                !.number[c] = @ - 1,
                !.load[c] = @ - IF IsA(w, o, Forces) THEN WeightOf(w, o) ELSE 0,
                !.light[here[c]] = @ + IF IsA(w, o, Lamps) THEN 1 ELSE 0]
           free == TakeOff(Separate(World, o), Worn(c, obj[o].kind))
       IN \/ /\ obj[o].kind \in Zapping
             /\ Becomes(ObjToRoom(ObjFromChar(free, o), o, here[c]))
          \/ Becomes(PutOn(free))

Remove(c, o) ==
    /\ o \in In(World, c) /\ obj[o].worn
    /\ Becomes(UnequipChar(World, o))

Sacrifice(c, o) ==
    /\ o \in In(World, here[c]) /\ Clonable(World, o, 1)
    /\ Becomes(ExtractObj(Separate(World, o), o))

\* char_from_room and char_to_room: the lamp one wears comes along.
Lit(c) == \E o \in In(World, c) : obj[o].worn /\ obj[o].kind \in Lamps

\* Mutant: the lamp is only looked at on arrival.
WalkDark(w, c, r) ==
    [w EXCEPT !.here[c] = r, !.light[r] = @ + IF Lit(c) THEN 1 ELSE 0]

WalkTo(w, c, r) ==
    LET v == [w EXCEPT !.here[c] = r,
                       !.light[w.here[c]] = @ - IF Lit(c) /\ @ > 0 THEN 1 ELSE 0]
    IN [v EXCEPT !.light[r] = @ + IF Lit(c) THEN 1 ELSE 0]

Walk(c, r) == Becomes(WalkTo(World, c, r))

\* make_corpse and extract_char; of a newbie who killed himself nothing comes
\* into the corpse.  What was under a covering comes back to the end of the
\* list: if the covering was the last, the walk has passed, and it is extracted
\* with the body.
Die(c, r) ==
    /\ Fresh(World) # {} /\ More
    /\ \E last \in In(World, c) \cup {Null}, to \in {New(World), "aside"} :
        /\ (last = Null) = (In(World, c) = {})
        /\ LET f == New(World)
               Before == BuryAll(Put(CreateObject(World, f, Corpse), f, "aside"),
                                 In(World, c) \ {last}, to)
               Walked(w) ==
                    IF last = Null THEN w
                    ELSE LET v == Bury(w, last, to)
                         IN IF In(w, c) = {last} THEN v ELSE BuryAll(v, In(v, c), to)
           IN Becomes([Strip(ObjToRoom(Walked(Before), f, here[c]), c) EXCEPT !.here[c] = r])

\* raw_kill of a mob that leaves no corpse: what it has is extracted, from the
\* last to the first, and what comes from under a covering with the body.
Vanish(c, r) ==
    Becomes([Strip(DiscardAll(World, In(World, c)), c) EXCEPT !.here[c] = r])

-----------------------------------------------------------------------------
(* What the clock and fights do to things. *)

\* obj_update: the timer of a thing is up, wherever it is.
Decay(o) ==
    /\ o \in Live(World) /\ obj[o].kind \notin Inventory
    /\ Becomes(ExtractObj(World, o))

\* The lamp of a character burns out: value[2] is 0 when it is taken off.
BurnOut(c, o) ==
    /\ o \in In(World, c) /\ obj[o].worn /\ obj[o].kind \in Lamps
    /\ LET r == here[c]
           w == ExtractObj(World, o)
       IN Becomes([w EXCEPT !.light[r] = light[r] - 1])

\* make_scraps: of a thing that is damaged in a hand or on the floor, or of a
\* grenade; those of a grenade in a container, or nowhere, are laid nowhere.
Scrap(o) ==
    /\ o \in Live(World)
    /\ obj[o].kind \in Containers => obj[o].at \in Chars \cup Rooms
    /\ Clonable(World, o, 1)
    /\ LET r == IF obj[o].at \in Chars THEN here[obj[o].at] ELSE obj[o].at
           Lain(w, f) == IF r \in Rooms THEN ObjToRoom(CreateObject(w, f, Scraps), f, r)
                         ELSE CreateObject(w, f, Scraps)
           Emptied(w) == IF obj[o].kind \in Containers THEN Spill(w, o, r) ELSE w
           w1 == Separate(World, o)
       IN /\ Fresh(w1) # {}
          /\ Becomes(ExtractObj(Emptied(Lain(w1, New(w1))), o))

\* clean_obj_queue at the end of a pulse
CleanQueue ==
    /\ \E o \in Objs : obj[o] = Extracted
    /\ obj' = [o \in Objs |-> IF obj[o] = Extracted THEN Clear ELSE obj[o]]
    /\ UNCHANGED <<load, number, light, index, here>>

ThingsNext ==
    \/ \E k \in Kinds \ {Corpse, Scraps} : Make(k)
    \/ \E c \in Chars, o \in Objs :
        \/ \E n \in 1 .. MaxPieces : Get(c, o, n) \/ Drop(c, o, n)
        \/ \E b \in Objs, n \in 1 .. MaxPieces :
            GetFrom(c, o, b, n) \/ PutPieces(c, o, b, n)
        \/ \E b \in Objs : PutIn(c, o, b) \/ Fill(c, o, b) \/ FillFrom(c, o, b)
        \/ \E v \in Chars : Give(c, o, v)
        \/ Empty(c, o) \/ Wear(c, o) \/ Remove(c, o) \/ Sacrifice(c, o) \/ BurnOut(c, o)
    \/ \E c \in Chars, r \in Rooms : Walk(c, r) \/ Die(c, r) \/ Vanish(c, r)
    \/ \E o \in Objs : Decay(o) \/ Scrap(o)
    \/ CleanQueue

ThingsSpec == ThingsInit /\ [][ThingsNext]_thingVars

-----------------------------------------------------------------------------
(* Properties. *)

\* Each thing is free, waits to be freed, or is one piece or more of a kind in
\* some list; the sums the program keeps never fall below zero.
ThingsTypeOK ==
    /\ \A o \in Objs :
        \/ obj[o] \in {Clear, Extracted}
        \/ obj[o] \in [kind : Kinds, count : Nat \ {0}, at : Spots, worn : BOOLEAN]
    /\ load \in [Chars -> Nat] /\ number \in [Chars -> Nat]
    /\ light \in [Rooms -> Nat] /\ index \in [Kinds -> Nat]
    /\ here \in [Chars -> Rooms]

\* handler.cpp:1720-1870, 2143-2211: what a character carries weighs what
\* carry_weight says, through every container, stack and piece of clothing.
\* It needs containers too small to stand three deep: what falls from the
\* innermost of three into the one in the middle is not weighed again, because
\* obj_to_obj (2157) asks only who carries that one.
LoadTrue ==
    \A c \in Chars :
        load[c] = SumFunction([o \in In(World, c) |->
            IF obj[o].worn /\ obj[o].kind \in Forces THEN 0 ELSE WeightOf(World, o)])

\* handler.cpp:1720-1870, 1975, 2029: carry_number counts the pieces in the
\* hands, and none of those worn or inside others.
NumberTrue ==
    \A c \in Chars : number[c] = SumFunction([o \in Hand(c) |-> obj[o].count])

\* A character's burden, in weight and in number, is what he carries: a sum lost
\* on the way through a container, a stack or a piece of clothing stays until he
\* leaves the game.
BurdenTrue == LoadTrue /\ NumberTrue

\* handler.cpp:1614, 1672, 1987, 2052: the light of a room is the lamps worn in
\* it, whoever comes, goes, dies or takes his lamp off.
LightTrue ==
    \A r \in Rooms :
        light[r] = Cardinality({o \in Objs : /\ obj[o].worn /\ obj[o].kind \in Lamps
                                             /\ obj[o].at \in Chars /\ here[obj[o].at] = r})
                   + SumFunction([o \in In(World, r) |->
                        IF obj[o].kind \in Glowing THEN obj[o].count ELSE 0])

\* Safety: the sums kept by hand, of weights, pieces and lamps, are those of the
\* lists they are sums of, whatever is split, worn, broken or left behind.
SumsTrue == BurdenTrue /\ LightTrue

\* db.cpp:1669, handler.cpp:2320, 4715-4805: a kind counts the pieces the world
\* holds, through stacks that grow, split and are extracted.
IndexTrue ==
    \A k \in Kinds :
        index[k] = SumFunction([o \in Objs |-> IF obj[o].kind = k THEN obj[o].count ELSE 0])

\* handler.cpp:2216-2337, makeobjs.cpp:216-224: whatever is extracted, everything
\* that lives hangs from a room or a character: but for the scraps of what breaks
\* in a container, and for what make_corpse takes from a newbie who killed
\* himself, with what is in it.
NothingAdrift ==
    \A o \in Live(World) :
        \/ RootOf(World, o) \in Chars \cup Rooms \cup {"aside"}
        \/ obj[o].at = Null /\ obj[o].kind = Scraps

\* Safety: nothing that lives is out of reach but what the code gives up, and
\* what the kinds count is what is there, through every list a thing passes on
\* its way out of the world.
NothingLost == IndexTrue /\ NothingAdrift
=============================================================================
