------------------------------- MODULE Quests -------------------------------
(***************************************************************************)
(* Quests (quest.cpp, and what other files do to those who are on one).    *)
(*                                                                         *)
(* A quest is a list of chapters, each with events to be done, something   *)
(* that happens when it is completed, and perhaps a mob loaded for it.     *)
(* QUEST_DATA hangs in the list first_quest and on its player; its mobs    *)
(* point at it and it at them.  A file per player keeps it while he is     *)
(* away; that he was paid stands in his player file.  Commands, kills and  *)
(* moves come to quest_trigger, the clock to quest_update; each is one     *)
(* action, unless the process dies between the writing of two files.       *)
(*                                                                         *)
(* There is one quest to ask for, which may be done once.  Left out: the   *)
(* amount of points and experience, levels, texts, things and inventories  *)
(* (Objects), the programs of mobs and ACTION_RUNCHPT, which an area may   *)
(* call.  What a chapter gives is given by the questor.                    *)
(***************************************************************************)
EXTENDS Integers, FiniteSets, FiniteSetsExt

CONSTANTS
    Players,
    None,       \* NULL
    Quests,     \* bound: the addresses of QUEST_DATA
    N,          \* the number of chapters
    Kind,       \* the type of each chapter
    Events,     \* the deeds each asks for
    Then,       \* what happens when it is completed
    Cast,       \* the chapters whose init loads a mob
    Slain,      \* the deed of killing that one
    Finds,      \* the deeds that are the finding of a thing
    Visits,     \* the deeds that are visits, each in a place of its own
    Home,       \* a visit to the questor
    Away        \* a visit to nobody

Chapters == 1 .. N
Deeds == UNION {Events[c] : c \in Chapters}
Places == Visits \cup {Home, Away}
Kinds == {"uncritical", "critical", "very critical", "very uncritical"}

ASSUME QuestsAssumption ==
    /\ IsFiniteSet(Quests) /\ None \notin Quests \cup Players
    /\ N \in Nat \ {0}
    /\ Kind \in [Chapters -> Kinds]
    /\ Then \in [Chapters -> {"none", "reward", "ok", "bad"}]
    /\ DOMAIN Events = Chapters
    /\ Cast \subseteq Chapters /\ Slain \in [Cast -> Deeds]
    /\ Visits \cup Finds \subseteq Deeds /\ Away \notin Deeds \cup {Home}

\* One event out of several completes them; the next chapter waits for them.
OneSuffices(c) == Kind[c] \in {"critical", "very uncritical"}
Critical(c) == Kind[c] \in {"critical", "very critical"}

VARIABLES
    quest,     \* the quests
    cast,      \* the mobs that are in the game for each, by their chapters
    person,    \* the players
    questor,   \* is he alive
    pfile,     \* the player files
    qfile,     \* the files of quests
    lost,      \* history: quests whose player was freed before he entered the game
    wild       \* freed memory was used: nothing is promised from here on

vars == <<quest, cast, person, questor, pfile, qfile, lost, wild>>

\* giver: the entry of the questor among the mobs of the quest; bare: history: it
\* came back from its file at a chapter without events
Quest == [player : Players \cup {None}, curr : Chapters, done : SUBSET Chapters,
          left : [Chapters -> SUBSET Deeds], acted : SUBSET Chapters,
          finished : BOOLEAN, failed : BOOLEAN, mobs : SUBSET Chapters,
          giver : {"none", "there", "freed"}, bare : BOOLEAN]
Blank == [player |-> None, curr |-> 1, done |-> {}, left |-> [c \in Chapters |-> Events[c]],
          acted |-> {}, finished |-> FALSE, failed |-> FALSE, mobs |-> {}, giver |-> "none",
          bare |-> FALSE]

\* done: quest_done names the quest; paid: how often it was paid
Merits == [done : BOOLEAN, paid : Nat]
Newcomer == [done |-> FALSE, paid |-> 0]
Person == [stage : {"out", "login", "in"}, at : Places, inquest : Quests \cup {None},
           merits : Merits]

\* CurrChptr is -1 when the quest was finished.
File == [curr : {-1} \cup Chapters, todo : SUBSET Chapters,
         left : [Chapters -> SUBSET Deeds], mobs : SUBSET Chapters]

TypeOK ==
    /\ quest \in [Quests -> Quest]
    /\ cast \in [Quests -> SUBSET Cast]
    /\ person \in [Players -> Person]
    /\ questor \in BOOLEAN /\ wild \in BOOLEAN
    /\ pfile \in [Players -> Merits]
    /\ qfile \in [Players -> File \cup {None}]
    /\ lost \subseteq Quests

Init ==
    /\ quest = [q \in Quests |-> Blank]
    /\ cast = [q \in Quests |-> {}]
    /\ person = [p \in Players |-> [stage |-> "in", at |-> Home, inquest |-> None,
                                    merits |-> Newcomer]]
    /\ questor = TRUE
    /\ pfile = [p \in Players |-> Newcomer]
    /\ qfile = [p \in Players |-> None]
    /\ lost = {} /\ wild = FALSE

-----------------------------------------------------------------------------
(* Functions of quest.cpp, from a state to a state. *)

World == [quest |-> quest, cast |-> cast, person |-> person, pfile |-> pfile,
          qfile |-> qfile, wild |-> wild]

Becomes(S) ==
    /\ quest' = S.quest /\ cast' = S.cast /\ person' = S.person
    /\ pfile' = S.pfile /\ qfile' = S.qfile /\ wild' = S.wild

On(S) == {q \in Quests : S.quest[q].player # None}
Of(S, p) == S.person[p].inquest
Near(S, p) == S.person[p].at = Home /\ questor

\* Mutant of Written: only the events that were done are listed, and a chapter
\* comes back with those.
WrittenDone(x) ==
    [curr |-> IF x.finished THEN -1 ELSE x.curr,
     todo |-> IF x.finished THEN {} ELSE Chapters \ x.done,
     left |-> [c \in Chapters |-> IF x.finished \/ c \in x.done THEN {}
                                  ELSE Events[c] \ x.left[c]],
     mobs |-> x.mobs]

\* Mutant of Written: the chapter that comes next is the one noted.
WrittenNext(x) ==
    [curr |-> IF x.finished THEN -1 ELSE x.curr + 1,
     todo |-> IF x.finished THEN {} ELSE Chapters \ x.done,
     left |-> [c \in Chapters |-> IF x.finished \/ c \in x.done THEN {} ELSE x.left[c]],
     mobs |-> x.mobs]

\* save_quest_data
Written(x) ==
    [curr |-> IF x.finished THEN -1 ELSE x.curr,
     todo |-> IF x.finished THEN {} ELSE Chapters \ x.done,
     left |-> [c \in Chapters |-> IF x.finished \/ c \in x.done THEN {} ELSE x.left[c]],
     mobs |-> x.mobs]

\* save_char_obj, which leaves the quest's file alone when there is no quest
Saved(S, p) ==
    LET q == Of(S, p) IN
    [S EXCEPT !.pfile[p] = S.person[p].merits,
              !.qfile[p] = IF q = None THEN @ ELSE Written(S.quest[q])]

\* quest_cleanup
Cleaned(S, p) ==
    LET q == Of(S, p) IN
    IF q = None THEN S
    ELSE [S EXCEPT !.cast[q] = @ \ S.quest[q].mobs,
                   !.quest[q] = Blank, !.person[p].inquest = None]

\* Mutant of Ending: the player is saved before the file is unlinked.
EndingSaved(S, p) ==
    LET T == [Cleaned(S, p) EXCEPT !.pfile[p] = S.person[p].merits] IN
    <<T, [T EXCEPT !.qfile[p] = None]>>

\* The end of quest_stop for STOP_BAD, STOP_VERY_OK and STOP_WHO_DID_IT: what is
\* on disk and in memory after each of its two steps.
Unlinked(S, p) == [S EXCEPT !.qfile[p] = None]
Ending(S, p) ==
    LET T == Unlinked(Cleaned(S, p), p) IN <<T, Saved(T, p)>>
Over(S, p) == Ending(S, p)[2]

\* STOP_VERY_OK up to quest_cleanup
Paid(S, p) ==
    [S EXCEPT !.person[p].merits.paid = IF S.quest[Of(S, p)].failed THEN @ ELSE @ + 1,
              !.person[p].merits.done = TRUE]

\* quest_trigger when the quest is finished: back at the questor's
Return(S, p) == IF Near(S, p) THEN Over(Paid(S, p), p) ELSE S

\* quest_stop: STOP_OK, and STOP_TOO_LATE or STOP_RESIGN
Stopped(S, p, failed) ==
    LET T == [S EXCEPT !.quest[Of(S, p)].finished = TRUE,
                       !.quest[Of(S, p)].failed = failed] IN
    Return(Saved(T, p), p)

StopBad(S, p) == Over([S EXCEPT !.person[p].merits.done = TRUE], p)

\* init_chapter, and those after it up to the first critical one
Begun(S, q, n) ==
    LET last == Min({c \in n .. N : Critical(c)} \cup {N}) IN
    [S EXCEPT !.quest[q].curr = last,
              !.quest[q].done = @ \cup {c \in n .. last : Events[c] = {}},
              !.quest[q].mobs = @ \cup (Cast \cap (n .. last)),
              !.cast[q] = @ \cup (Cast \cap (n .. last))]

\* process_action: what is given comes from the first of the quest's mobs, be he
\* alive or not; with nobody to give it stays to be done.
Act(S, p, c) ==
    LET q == Of(S, p)  x == S.quest[q]
        T == [S EXCEPT !.quest[q].acted = @ \cup {c}]
    IN  CASE c \in x.acted -> S
          [] c \notin x.acted /\ Then[c] = "none" -> T
          [] c \notin x.acted /\ Then[c] = "reward" ->
                IF x.giver = "there" THEN T
                ELSE [S EXCEPT !.wild = @ \/ x.giver = "freed"]
          [] c \notin x.acted /\ Then[c] = "ok" ->
                IF x.finished THEN T ELSE Stopped(T, p, FALSE)
          [] c \notin x.acted /\ Then[c] = "bad" ->
                IF x.finished THEN T ELSE StopBad(T, p)

\* interpret_trigger
Interpreted(S, p, c, d) ==
    LET q == Of(S, p)
        found == d \in S.quest[q].left[c]
        T == [S EXCEPT !.quest[q].left[c] = @ \ {d}]
    IN  IF IF OneSuffices(c) THEN found ELSE T.quest[q].left[c] = {}
        THEN Act([T EXCEPT !.quest[q].done = @ \cup {c}], p, c)
        ELSE T

\* quest_trigger goes on with a quest that may have been freed on the way: what
\* it reads there may be as it was, and then ends it.
Read(S, p, kept) == IF Of(S, p) = None THEN [S EXCEPT !.wild = @ \/ ~kept] ELSE S

\* The chapters before the current one that may still be completed, backwards
Strays(S, p, d, n, kept) ==
    LET Step[c \in 0 .. N] ==
        IF c >= n THEN S
        ELSE LET T == Step[c + 1] IN
             IF c = 0 THEN T
             ELSE IF Of(T, p) = None \/ Critical(c) \/ c \in T.quest[Of(T, p)].done THEN T
             ELSE Read(Interpreted(T, p, c, d), p, kept)
    IN  Step[0]

\* quest_trigger once the events have been looked at
Advanced(S, p) ==
    LET q == Of(S, p)  x == S.quest[q] IN
    CASE q = None -> S
      [] q # None /\ x.curr \notin x.done -> S
      [] q # None /\ x.curr \in x.done /\ x.curr < N -> Begun(S, q, x.curr + 1)
      [] q # None /\ x.curr = N /\ N \in x.done ->
            IF x.finished THEN S ELSE Stopped(S, p, FALSE)

\* quest_trigger
Triggered(S, p, d, kept) ==
    LET q == Of(S, p)  x == S.quest[q]
        T == Read(Interpreted(S, p, x.curr, d), p, kept)
        U == IF Of(T, p) = None THEN T
             ELSE IF x.curr \in T.quest[q].done /\ ~T.quest[q].finished
             THEN Read(Act(T, p, x.curr), p, kept)
             ELSE Strays(T, p, d, x.curr, kept)
    IN  IF q = None THEN S
        ELSE IF x.finished /\ d \in Places THEN Return(S, p)
        ELSE Advanced(U, p)

\* quest_update, for one quest
Updated(S, q, late) ==
    LET x == S.quest[q]  p == x.player
        End(failed) == IF Of(S, p) = q THEN Stopped(S, p, failed)
                       ELSE [S EXCEPT !.wild = TRUE]
    IN  CASE late /\ ~x.finished -> End(TRUE)
          [] ~(late /\ ~x.finished) /\ x.curr \notin x.done -> S
          [] ~(late /\ ~x.finished) /\ x.curr \in x.done /\ x.curr < N -> Begun(S, q, x.curr + 1)
          [] ~(late /\ ~x.finished) /\ x.curr = N /\ N \in x.done ->
                IF x.finished THEN S ELSE End(FALSE)

\* load_quest_data: chapters that are not in the file were completed, and come
\* back as they are in a new quest.
Loaded(p, f) ==
    [Blank EXCEPT !.player = p,
                  !.curr = IF f.curr = -1 THEN N ELSE f.curr,
                  !.finished = f.curr = -1,
                  !.left = [c \in Chapters |-> IF c \in f.todo THEN f.left[c] ELSE Events[c]],
                  !.mobs = f.mobs,
                  !.giver = IF questor THEN "there" ELSE "none",
                  !.bare = f.curr # -1 /\ Events[f.curr] = {}]

-----------------------------------------------------------------------------
(* Players. *)

In(p) == person[p].stage = "in"
Unused == Quests \ On(World)

Ask(p) ==
    /\ In(p) /\ Near(World, p)
    /\ Of(World, p) = None /\ ~person[p].merits.done
    /\ \E q \in Unused :
        LET S == [World EXCEPT !.quest[q] = [Blank EXCEPT !.player = p, !.giver = "there"]]
        IN  Becomes(Saved([Begun(S, q, 1) EXCEPT !.person[p].inquest = q], p))
    /\ UNCHANGED <<questor, lost>>

GiveUp(p) ==
    /\ In(p) /\ Of(World, p) # None
    /\ Becomes(Stopped(World, p, TRUE))
    /\ UNCHANGED <<questor, lost>>

\* An administrator's "quest stop"
Stop(p) ==
    /\ In(p) /\ Of(World, p) # None
    /\ Becomes(Over(World, p))
    /\ UNCHANGED <<questor, lost>>

\* act_move.cpp: three triggers.  What he brings and the room itself are no
\* deeds here, but each trigger may begin another chapter.
Walk(p, place, kept) ==
    /\ In(p) /\ person[p].at # place
    /\ LET S == [World EXCEPT !.person[p].at = place]
           met == IF place = Home /\ ~questor THEN Away ELSE place
           T == Triggered(S, p, None, kept)
       IN  Becomes(Triggered(Triggered(T, p, met, kept), p, None, kept))
    /\ UNCHANGED <<questor, lost>>

Do(p, d, kept) ==
    /\ In(p) /\ Of(World, p) # None /\ d \notin Visits
    /\ Becomes(Triggered(World, p, d, kept))
    /\ UNCHANGED <<questor, lost>>

\* Mutant of Extracted: the quest goes on pointing at the mob.
ExtractedOnly(S, q, c) == [S EXCEPT !.cast[q] = @ \ {c}]

\* extract_char of a mob of a quest
Extracted(S, q, c) == [S EXCEPT !.cast[q] = @ \ {c}, !.quest[q].mobs = @ \ {c}]

\* raw_kill: the trigger comes first, and may end the quest and with it the mob.
Kill(p, c, kept) ==
    LET q == Of(World, p) IN
    /\ In(p) /\ q # None /\ c \in cast[q]
    /\ Becomes(Extracted(Triggered(World, p, Slain[c], kept), q, c))
    /\ UNCHANGED <<questor, lost>>

Save(p) ==
    /\ In(p)
    /\ Becomes(Saved(World, p))
    /\ UNCHANGED <<questor, lost>>

\* do_quit
Quit(p) ==
    /\ In(p)
    /\ LET S == Cleaned(Saved(World, p), p) IN
       Becomes([S EXCEPT !.person[p].stage = "out"])
    /\ UNCHANGED <<questor, lost>>

\* raw_kill of a player and destroy_char: the quest is lost for good, and the
\* player's file is that of his clone, or of a new character.
Die(p) ==
    /\ In(p)
    /\ LET S == Unlinked(Cleaned(Saved(World, p), p), p) IN
       \E m \in {Newcomer, pfile[p]} :
           Becomes([S EXCEPT !.person[p].stage = "out", !.pfile[p] = m])
    /\ UNCHANGED <<questor, lost>>

\* The right password: the quest first, then the player, and each thing he carries
\* is found once more while his file is being read.
Login(p, kept) ==
    /\ person[p].stage = "out"
    /\ \E q \in IF qfile[p] = None THEN {None} ELSE Unused :
        LET S == [World EXCEPT
                    !.person[p].stage = "login", !.person[p].inquest = q,
                    !.person[p].merits = pfile[p],
                    !.quest = [r \in Quests |-> IF r = q THEN Loaded(p, qfile[p]) ELSE @[r]],
                    !.cast = [r \in Quests |-> IF r = q THEN qfile[p].mobs ELSE @[r]]]
        IN  \E T \in {S} \cup {Triggered(S, p, d, kept) : d \in Finds \cup {None}} : Becomes(T)
    /\ UNCHANGED <<questor, lost>>

Enter(p) ==
    /\ person[p].stage = "login"
    /\ person' = [person EXCEPT ![p].stage = "in"]
    /\ UNCHANGED <<quest, cast, questor, pfile, qfile, lost, wild>>

\* close_socket frees who has not entered yet, and not his quest.
HangUp(p) ==
    /\ person[p].stage = "login"
    /\ person' = [person EXCEPT ![p].stage = "out", ![p].inquest = None]
    /\ lost' = lost \cup ({Of(World, p)} \ {None})
    /\ UNCHANGED <<quest, cast, questor, pfile, qfile, wild>>

-----------------------------------------------------------------------------
(* The world. *)

\* quest_update
Update(late) ==
    /\ Becomes(FoldSet(LAMBDA q, S : Updated(S, q, q \in late), World, On(World)))
    /\ UNCHANGED <<questor, lost>>

\* A mob of a quest dies of others, or is purged.
MobDies(q, c) ==
    /\ c \in cast[q]
    /\ Becomes(Extracted(World, q, c))
    /\ UNCHANGED <<questor, lost>>

\* The questor dies, and no quest hears of it; a reset of his area brings another.
QuestorDies ==
    /\ questor /\ questor' = FALSE
    /\ quest' = [q \in Quests |-> [quest[q] EXCEPT !.giver = IF @ = "there" THEN "freed" ELSE @]]
    /\ UNCHANGED <<cast, person, pfile, qfile, lost, wild>>

QuestorBack ==
    /\ ~questor /\ questor' = TRUE
    /\ UNCHANGED <<quest, cast, person, pfile, qfile, lost, wild>>

\* The process dies, and another one starts with the files; a player comes back
\* where his file saw him last.
Restarted ==
    /\ quest' = [q \in Quests |-> Blank]
    /\ cast' = [q \in Quests |-> {}]
    /\ \E at \in [Players -> Places] :
        person' = [p \in Players |-> [person[p] EXCEPT !.stage = "out", !.at = at[p],
                                                      !.inquest = None]]
    /\ questor' = TRUE /\ lost' = {} /\ wild' = FALSE

Crash ==
    /\ UNCHANGED <<pfile, qfile>>
    /\ Restarted

\* Between the unlink of the file of a quest that is over and the saving of the
\* player
PayCrash(p) ==
    LET q == Of(World, p) IN
    /\ In(p) /\ q # None /\ quest[q].finished /\ Near(World, p)
    /\ LET T == Ending(Paid(World, p), p)[1] IN qfile' = T.qfile /\ pfile' = T.pfile
    /\ Restarted

\* In the middle of save_char_obj: the player's file comes first; the quest's is
\* emptied before it is written, and its mobs are at the end.
SaveCrash(p) ==
    LET q == Of(World, p)  f == Written(quest[q]) IN
    /\ In(p) /\ q # None
    /\ pfile' = Saved(World, p).pfile
    /\ \E g \in {qfile[p], None} \cup {[f EXCEPT !.mobs = m] : m \in SUBSET f.mobs} :
        qfile' = [qfile EXCEPT ![p] = g]
    /\ Restarted

Next ==
    /\ ~wild
    /\ \/ \E p \in Players :
            \/ Ask(p) \/ GiveUp(p) \/ Stop(p) \/ Save(p) \/ Quit(p) \/ Die(p)
            \/ Enter(p) \/ HangUp(p) \/ PayCrash(p) \/ SaveCrash(p)
            \/ \E kept \in BOOLEAN :
                \/ Login(p, kept)
                \/ \E place \in Places : Walk(p, place, kept)
                \/ \E d \in Deeds : Do(p, d, kept)
                \/ \E c \in Cast : Kill(p, c, kept)
       \/ \E late \in SUBSET On(World) : Update(late)
       \/ \E q \in Quests, c \in Cast : MobDies(q, c)
       \/ QuestorDies \/ QuestorBack \/ Crash

Spec == Init /\ [][Next]_vars

-----------------------------------------------------------------------------
(* Properties. *)

\* Every quest in the list is that of a player who is there and has it, but for
\* those whose player hung up at the login.
OneQuestEach ==
    /\ \A p \in Players :
        Of(World, p) # None => quest[Of(World, p)].player = p /\ Of(World, p) \notin lost
    /\ \A q \in On(World) \ lost :
        LET p == quest[q].player IN Of(World, p) = q /\ person[p].stage # "out"

\* Safety: quests, players and mobs lead to each other and to nothing that is
\* gone, through deaths, ends inside a trigger, departures and returns: quest_cleanup
\* extracts what the list of mobs leads to, extract_char unlinks from the quest
\* the mob leads to, and quest_update calls the player of every quest.
QuestsHeld ==
    ~wild =>
        /\ OneQuestEach
        /\ \A q \in Quests : cast[q] = quest[q].mobs /\ (cast[q] # {} => q \in On(World))

\* Safety: who was paid, or spoilt everything, has no quest any more, neither in
\* memory nor in a file that would bring it back, wherever the process dies:
\* so nobody is paid twice.
OverWhenPaid ==
    ~wild => \A p \in Players :
        LET m == person[p].merits IN
        /\ m.paid <= 1 /\ (m.paid = 1 => m.done)
        /\ person[p].stage # "out" /\ m.done => Of(World, p) = None
        /\ pfile[p].done => qfile[p] = None

\* Safety: a quest that is not finished can go on: its chapter waits for a deed,
\* or is completed, and quest_update or any trigger begins the next one.  The one
\* way to be stuck is a chapter without events that one event would complete:
\* init_chapter completes it, and a file read back between that and the next
\* chapter has lost it (quest.cpp:757, 2196).
SomethingToDo ==
    ~wild => \A q \in On(World) :
        LET x == quest[q] IN
        ~x.finished =>
            \/ x.curr \in x.done \/ x.left[x.curr] # {} \/ ~OneSuffices(x.curr)
            \/ x.bare /\ Events[x.curr] = {}
=============================================================================
