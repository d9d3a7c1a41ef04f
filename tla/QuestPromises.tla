---------------------------- MODULE QuestPromises ----------------------------
(***************************************************************************)
(* What the comments of quest.cpp say and the file of a quest does not     *)
(* keep.  No run checks these: each fails as soon as it can.               *)
(***************************************************************************)
EXTENDS Quests

Restored(q) == Loaded(quest[q].player, Written(quest[q]))

\* quest.cpp:1125 "tu tak samo, ale bez qp..." (the same, but without points) of
\* a quest that failed; save_quest_data does not write failed, so who leaves the
\* game and comes back is paid for it.
FailureRemembered == \A q \in On(World) : Restored(q).failed = quest[q].failed

\* quest.cpp:2644 "Funkcja przywraca graczowi questa" (restores the player's
\* quest); a completed chapter is not in the file and comes back undone, with
\* its events, its points and its gift to be had once more.
ChaptersStayDone ==
    \A q \in On(World) : ~quest[q].finished =>
        quest[q].done \ {quest[q].curr} \subseteq Restored(q).done

\* save.cpp:1971 "najpierw wczytujemy questa" (first we read the quest): the
\* things read after it pass obj_to_char, which triggers it; if that completes
\* the quest, quest_stop writes the very file that is being read, with the
\* things read so far.
LoginWritesNothing ==
    [][\A p \in Players : person[p].stage = "out" /\ person'[p].stage = "login" =>
            UNCHANGED <<pfile, qfile>>]_vars
=============================================================================
