------------------------------ MODULE MCQuests ------------------------------
EXTENDS Quests, TLC
MCKind == <<"uncritical", "critical", "critical", "very uncritical", "very critical">>
MCEvents == <<{"kill"}, {"visit", "ask"}, {}, {"touch"}, {"find"}>>
MCThen == <<"reward", "none", "none", "bad", "ok">>
MCSymmetry == Permutations(Quests)
MCSlain == (1 :> "kill")
=============================================================================
