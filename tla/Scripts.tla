------------------------------ MODULE Scripts ------------------------------
(***************************************************************************)
(* Scripts (mud_prog.cpp): programs of mobs, things and rooms that run one *)
(* line a pulse and sleep in between.  A script keeps pointers to its      *)
(* owner and to its victim; runscript, stopscript, update_script and       *)
(* scripts_update handle the list of them, extract_char and extract_obj    *)
(* (handler.cpp) stop those that would be left with a freed one.           *)
(*                                                                         *)
(* Programs run inside one another: a line makes somebody speak or fall,   *)
(* and whoever has a program for that runs it at once.  "stack" are the    *)
(* calls of mprog_driver, "curr" is curr_script.  A room or a thing cannot *)
(* act, so one supermob takes its place, and its count of scripts, for the *)
(* time of a line or a program.                                            *)
(*                                                                         *)
(* The order of the list is left open: a walk visits each script once.     *)
(* Out of the model: what lines say, ifs (a script does not keep them),    *)
(* the object a line may name, which nothing guards, charmed mobs, whose   *)
(* scripts wait, the queues of acts, variables, and what a supermob that   *)
(* stands nowhere cannot do.                                               *)
(***************************************************************************)
EXTENDS Integers, Sequences, FiniteSets

CONSTANTS
    Mobs, Players,
    Things,      \* objects that have programs
    Rooms,       \* rooms that have programs
    Scripts,     \* memory for scripts
    None,        \* NULL
    Freed,       \* a pointer to a script that is no more
    MaxRun,      \* MAX_SCRIPTS
    MaxNest,     \* MAX_PROG_NEST
    MaxLines     \* bound: lines of a script

Chars == Mobs \cup Players
Bodiless == Things \cup Rooms
Owners == Mobs \cup Bodiless

ASSUME ScriptsAssumption ==
    /\ Mobs \cap Players = {} /\ Chars \cap Bodiless = {} /\ Things \cap Rooms = {}
    /\ None \notin Chars \cup Owners \cup Scripts /\ Freed \notin Scripts \cup {None}
    /\ {"box", "queued", "gone"} \cap Rooms = {}
    /\ IsFiniteSet(Scripts)
    /\ MaxRun \in Nat /\ MaxNest \in Nat \ {0} /\ MaxLines \in Nat

VARIABLES
    char,      \* in the game, extracted and queued, or gone
    thing,     \* the same; a thing is in a room, or in a box that nobody carries
    run,       \* mpscriptrun of mobs, things and rooms
    script,    \* the scripts
    list,      \* first_script_prog ... last_script_prog
    curr,      \* curr_script
    super,     \* the supermob
    listed,    \* the rooms in whose list of people it is
    stack,     \* the calls of mprog_driver
    walk,      \* scripts_update: is it on, pScript_next and what follows it
    wild       \* freed memory was used, a list of people is broken or a count that
               \* of another one: nothing is promised from here on

vars == <<char, thing, run, script, list, curr, super, listed, stack, walk, wild>>

\* ghost (history): its owner or its victim was extracted when it was started
Script == [owner : Owners \cup {None}, victim : Chars \cup {None}, left : 0 .. MaxLines,
           ghost : BOOLEAN]
Unused == [owner |-> None, victim |-> None, left |-> 0, ghost |-> FALSE]

\* The program of one, or the line of a script; late: a program that was begun for
\* a mob already extracted, and has not run its command yet
Frame == [who : Owners, line : BOOLEAN, late : BOOLEAN]

\* in_room, curr_obj or curr_room, mpscriptrun
Super == [room : Rooms \cup {None}, is : Bodiless \cup {None}, run : Int]

Nobody == [room |-> None, is |-> None, run |-> 0]
Idle == [on |-> FALSE, next |-> None, rest |-> {}]

TypeOK ==
    /\ char \in [Chars -> {"in", "queued", "gone"}]
    /\ thing \in [Things -> Rooms \cup {"box", "queued", "gone"}]
    /\ run \in [Owners -> Int]
    /\ script \in [Scripts -> Script]
    /\ list \subseteq Scripts
    /\ curr \in Scripts \cup {None}
    /\ super \in Super
    /\ listed \subseteq Rooms
    /\ stack \in Seq(Frame) /\ Len(stack) <= MaxNest
    /\ walk \in [on : BOOLEAN, next : Scripts \cup {None, Freed}, rest : SUBSET Scripts]
    /\ wild \in BOOLEAN

Init ==
    /\ char = [c \in Chars |-> "gone"]
    /\ thing = [t \in Things |-> "gone"]
    /\ run = [o \in Owners |-> 0]
    /\ script = [s \in Scripts |-> Unused] /\ list = {} /\ curr = None
    /\ super = Nobody /\ listed = {}
    /\ stack = <<>> /\ walk = Idle
    /\ wild = FALSE

-----------------------------------------------------------------------------
(* Functions of mud_prog.cpp and handler.cpp, on a state S of the scripts. *)

World == [run |-> run, script |-> script, list |-> list, curr |-> curr, super |-> super,
          listed |-> listed, stack |-> stack, walk |-> walk, wild |-> wild]

Becomes(S) ==
    /\ run' = S.run /\ script' = S.script /\ list' = S.list /\ curr' = S.curr
    /\ super' = S.super /\ listed' = S.listed /\ stack' = S.stack /\ walk' = S.walk
    /\ wild' = S.wild

OwnedBy(S, o) == {s \in S.list : S.script[s].owner = o}
FreedOwners == {t \in Things : thing[t] = "gone"} \cup {m \in Mobs : char[m] = "gone"}

\* stopscript of each of K: the count is written through the owner.
Stop(S, K) ==
    [S EXCEPT !.list = @ \ K,
              !.script = [s \in Scripts |-> IF s \in K THEN Unused ELSE @[s]],
              !.run = [o \in Owners |-> @[o] - Cardinality(OwnedBy(S, o) \cap K)],
              !.curr = IF @ \in K THEN None ELSE @,
              !.walk.next = IF @ \in K THEN Freed ELSE @,
              !.walk.rest = @ \ K,
              !.wild = @ \/ \E s \in K : S.script[s].owner \in FreedOwners]

\* The room set_supermob finds, looking for the carrier of the outermost box and
\* otherwise at obj->in_room, which a thing in a box does not have.
RoomOf(o) ==
    IF o \in Rooms THEN o ELSE IF thing[o] \in Rooms THEN thing[o] ELSE None

\* set_supermob, rset_supermob and char_to_room of the supermob: it is linked
\* into the list of that room without being taken out of another one's.
SetUncounted(S, o) ==   \* Mutant: a supermob without the count
    LET r == RoomOf(o) IN
    IF r = None THEN S
    ELSE [S EXCEPT !.super = [room |-> r, is |-> o, run |-> 0], !.listed = @ \cup {r},
                   !.wild = @ \/ S.listed \ {r} # {}]
SetSupermob(S, o) ==
    LET r == RoomOf(o) IN
    IF r = None THEN S
    ELSE [S EXCEPT !.super = [room |-> r, is |-> o, run |-> S.run[o]],
                   !.listed = @ \cup {r},
                   !.wild = @ \/ S.listed \ {r} # {}]

\* release_supermob and char_from_room; its count is not read before it is set.
ReleaseStanding(S) == [S EXCEPT !.super = Nobody]   \* Mutant: it stays in the room
ReleaseSupermob(S) ==
    [S EXCEPT !.super = Nobody, !.listed = @ \ {S.super.room}]

Top(S) == S.stack[Len(S.stack)]
TooDeep(S) == Len(S.stack) > MaxNest   \* Mutant: one call too many
Deep(S) == Len(S.stack) = MaxNest
Pushed(S, o, line, late) ==
    [S EXCEPT !.stack = Append(@, [who |-> o, line |-> line, late |-> late])]
Popped(S) == [S EXCEPT !.stack = SubSeq(@, 1, Len(@) - 1)]

\* What update_script does after the line: a thing or a room gets the count of
\* the supermob, which is its own if nobody else was set in between.
Released(S, o) ==
    IF o \in Mobs THEN [S EXCEPT !.curr = None]
    ELSE [ReleaseSupermob([S EXCEPT !.run[o] = S.super.run, !.wild = @ \/ S.super.is # o])
             EXCEPT !.curr = None]

\* update_script as far as the command of the line: the script of an owner that
\* counts none is stopped, one at its end too, one that is nested too deeply
\* waits.  A thing in a box keeps whatever the supermob was.
UpdateScript(S, s) ==
    LET o == S.script[s].owner
        R == [S EXCEPT !.curr = s]
        T == IF o \in Mobs THEN R
             ELSE [SetSupermob(R, o) EXCEPT !.wild = @ \/ RoomOf(o) = None]
    IN CASE S.run[o] = 0 -> [Stop(R, {s}) EXCEPT !.curr = None]
         [] S.run[o] # 0 /\ Deep(S) -> Released(T, o)
         [] S.run[o] # 0 /\ ~ Deep(S) /\ S.script[s].left = 0 -> Released(Stop(T, {s}), o)
         [] OTHER -> Pushed(T, o, TRUE, FALSE)

\* The rest of update_script: the position is kept unless the script was
\* stopped.
EndLine(S) ==
    LET kept == IF S.curr = None THEN S ELSE [S EXCEPT !.script[S.curr].left = @ - 1]
    IN Popped(Released(kept, Top(S).who))

EndProgram(S) ==
    Popped(IF Top(S).who \in Mobs THEN S ELSE ReleaseSupermob(S))

-----------------------------------------------------------------------------
(* What may happen while commands, updates, programs and lines run. *)

\* Nothing does between two visits of scripts_update.  The command that extracts
\* the mob whose program or line it is may go on to do more.
Busy == stack # <<>>
Open == Busy \/ ~ walk.on

Here(a) == a \in {None} \cup {c \in Chars : char[c] = "in"}

\* The script cleanup of extract_char: its own, and those it is the victim of
CleanupOwn(c) == OwnedBy(World, c)   \* Mutant
Cleanup(c) == {s \in list : c \in {script[s].owner, script[s].victim}}

\* extract_char
Extract(c) ==
    /\ Open /\ char[c] = "in"
    /\ char' = [char EXCEPT ![c] = "queued"]
    /\ Becomes(Stop(World, Cleanup(c)))
    /\ UNCHANGED thing

\* extract_obj: its scripts, if it counts any
ExtractThing(t) ==
    /\ Open /\ thing[t] \in Rooms \cup {"box"}
    /\ thing' = [thing EXCEPT ![t] = "queued"]
    /\ Becomes(IF run[t] # 0 THEN Stop(World, OwnedBy(World, t)) ELSE World)
    /\ UNCHANGED char

\* A thing is put down, taken along or put into a box.
Move(t, place) ==
    /\ Open /\ thing[t] \in Rooms \cup {"box"} /\ place # thing[t]
    /\ thing' = [thing EXCEPT ![t] = place]
    /\ UNCHANGED <<char, run, script, list, curr, super, listed, stack, walk, wild>>

\* The triggers: what somebody does runs the program of a mob, or of a thing or a
\* room, for which the supermob is set and released.  One that is nested too
\* deeply is not run.  A mob has several programs for one trigger, and a room
\* several mobs; that the one before extracted the mob stops neither walk.
MobTrigger(m) ==
    /\ Open /\ char[m] # "gone" /\ ~ Deep(World)
    /\ Becomes(Pushed(World, m, FALSE, char[m] = "queued"))
    /\ UNCHANGED <<char, thing>>

Answers(o) ==
    LET S == SetSupermob(World, o) IN
    /\ Open
    /\ Becomes(IF Deep(S) THEN ReleaseSupermob(S) ELSE Pushed(S, o, FALSE, FALSE))
    /\ UNCHANGED <<char, thing>>

ThingTrigger(t) == thing[t] \in Rooms /\ Answers(t)

RoomTrigger(r) == Answers(r)

\* A program goes on to its next command while its mob is alive; one begun for an
\* extracted mob is left after one command.
Proceeds(f) == f.who \in Mobs => char[f.who] = IF f.late THEN "queued" ELSE "in"

\* runscript: not from within the line of a script, nor by a supermob that does
\* not stand for anything any more, nor with too many running already.  Whether
\* the victim is still alive is not asked, nor whether the owner is.
RunScript(s, v, n) ==
    /\ Busy /\ ~ Top(World).line /\ Proceeds(Top(World)) /\ curr = None /\ s \notin list
    /\ v \in {None} \cup {c \in Chars : char[c] # "gone"}
    /\ LET o == Top(World).who
           dead == \/ ~ Here(v)
                   \/ o \in Mobs /\ ~ Here(o)
                   \/ o \in Things /\ thing[o] = "queued"
       IN
       /\ v # o
       /\ o \in Bodiless => super.is = o
       /\ (IF o \in Mobs THEN run[o] ELSE super.run) <= MaxRun
       /\ Becomes(UpdateScript(
            [World EXCEPT !.script[s] = [owner |-> o, victim |-> v, left |-> n,
                                         ghost |-> dead],
                          !.list = @ \cup {s}, !.run[o] = @ + 1,
                          !.stack[Len(stack)].late = FALSE,
                          !.walk.rest = IF walk.next = None THEN @ ELSE @ \cup {s}], s))
    /\ UNCHANGED <<char, thing>>

\* A line or a program is over.
Return ==
    /\ Busy
    /\ Becomes(IF ~ Top(World).line THEN EndProgram(World) ELSE EndLine(World))
    /\ UNCHANGED <<char, thing>>

-----------------------------------------------------------------------------
(* The pulse. *)

\* pScript->next
NextOf(rest) == IF rest = {} THEN {None} ELSE rest

BeginWalk ==
    /\ ~ Busy /\ ~ walk.on
    /\ \E n \in NextOf(list) :
        Becomes([World EXCEPT !.walk = [on |-> TRUE, next |-> n, rest |-> list \ {n}]])
    /\ UNCHANGED <<char, thing>>

\* pScript_next is read before the line runs.
Visit ==
    /\ ~ Busy /\ walk.on /\ walk.next \in Scripts
    /\ LET s == walk.next
           used == \/ script[s].owner \in FreedOwners
                   \/ script[s].left > 0 /\ script[s].victim # None
                        /\ char[script[s].victim] = "gone"
       IN \E n \in NextOf(walk.rest) :
            Becomes(UpdateScript([World EXCEPT !.walk.next = n, !.walk.rest = @ \ {n},
                                               !.wild = used], s))
    /\ UNCHANGED <<char, thing>>

ReadFreed ==
    /\ ~ Busy /\ walk.next = Freed
    /\ Becomes([World EXCEPT !.wild = TRUE])
    /\ UNCHANGED <<char, thing>>

EndWalk ==
    /\ ~ Busy /\ walk.on /\ walk.next = None
    /\ Becomes([World EXCEPT !.walk = Idle])
    /\ UNCHANGED <<char, thing>>

\* clean_obj_queue and clean_char_queue, at the end of the update
Clean ==
    /\ ~ Busy /\ ~ walk.on
    /\ char' = [c \in Chars |-> IF char[c] = "queued" THEN "gone" ELSE char[c]]
    /\ thing' = [t \in Things |-> IF thing[t] = "queued" THEN "gone" ELSE thing[t]]
    /\ UNCHANGED <<run, script, list, curr, super, listed, stack, walk, wild>>

\* Somebody comes, or something is made, where none points any more.
Arrive(c) ==
    /\ ~ Busy /\ ~ walk.on /\ char[c] = "gone"
    /\ \A s \in list : c \notin {script[s].owner, script[s].victim}
    /\ char' = [char EXCEPT ![c] = "in"]
    /\ run' = IF c \in Mobs THEN [run EXCEPT ![c] = 0] ELSE run
    /\ UNCHANGED <<thing, script, list, curr, super, listed, stack, walk, wild>>

Make(t, r) ==
    /\ ~ Busy /\ ~ walk.on /\ thing[t] = "gone" /\ OwnedBy(World, t) = {}
    /\ thing' = [thing EXCEPT ![t] = r]
    /\ run' = [run EXCEPT ![t] = 0]
    /\ UNCHANGED <<char, script, list, curr, super, listed, stack, walk, wild>>

Happening ==
    \/ \E c \in Chars : Extract(c)
    \/ \E t \in Things : ExtractThing(t) \/ \E p \in Rooms \cup {"box"} : Move(t, p)
    \/ \E m \in Mobs : MobTrigger(m)
    \/ \E t \in Things : ThingTrigger(t)
    \/ \E r \in Rooms : RoomTrigger(r)
    \/ \E s \in Scripts, v \in Chars \cup {None}, n \in 1 .. MaxLines : RunScript(s, v, n)

Pulse == BeginWalk \/ Visit \/ ReadFreed \/ EndWalk \/ Clean

Next ==
    /\ ~ wild
    /\ \/ Happening \/ Return \/ Pulse
       \/ \E c \in Chars : Arrive(c)
       \/ \E t \in Things, r \in Rooms : Make(t, r)

Spec == Init /\ [][Next]_vars

-----------------------------------------------------------------------------
(* Properties. *)

\* Safety: a script that is to run belongs to a mob or a thing that is there, and
\* so is its victim, unless it was started by or for one already extracted (which
\* runscript does not ask): extract_char and extract_obj stop all others, whatever
\* line of whatever script is running then.
ScriptsLive ==
    ~ wild => \A s \in list :
        LET x == script[s] IN
        ~ x.ghost =>
            /\ Here(x.victim)
            /\ x.owner \in Mobs => Here(x.owner)
            /\ x.owner \in Things => thing[x.owner] \notin {"queued", "gone"}

\* Safety: mpscriptrun, by which a script is started, run and looked for when its
\* owner is extracted, is the number of scripts of a mob and never less than
\* those of a thing or a room, though the supermob carries it about while
\* scripts end and are stopped.
CountsTrue ==
    ~ wild =>
        /\ \A m \in Mobs : char[m] # "gone" => run[m] = Cardinality(OwnedBy(World, m))
        /\ \A o \in Bodiless : run[o] >= Cardinality(OwnedBy(World, o))

\* Safety: "Supermob ma nie stac w pokoju jak nic nie robi" (it must not stand in
\* a room when it does nothing): between two programs it stands for nobody, is
\* in no room's list, and no script is thought to be running.
SupermobAway ==
    ~ wild /\ ~ Busy => curr = None /\ super = Nobody /\ listed = {}

-----------------------------------------------------------------------------
(* What comments say and the code does not keep; in no run. *)

\* handler.cpp:1656: the supermob is in one list of people at most ("przy 2 razie
\* juz byl pad muda": at the second the mud crashed).  Not so if a line or a
\* program of one room sets off the program of another one.
SupermobOnce == Cardinality(listed) <= 1

\* mud.h:230, "ile skryptow naraz": how many scripts at once.  A room or a thing is
\* refused when so many have run in all, for it gets back the count from before
\* its script ended.
FullMeansBusy ==
    \A o \in Bodiless : run[o] > MaxRun => Cardinality(OwnedBy(World, o)) > MaxRun
=============================================================================
