--------------------------- MODULE Quests_proofs ---------------------------
(***************************************************************************)
(* Proofs about Quests, for any players, addresses, chapters and deeds.    *)
(***************************************************************************)
EXTENDS Quests, FiniteSetTheorems, TLAPS

-----------------------------------------------------------------------------
(* The invariant. *)

States == [quest : [Quests -> Quest], cast : [Quests -> SUBSET Cast],
           person : [Players -> Person], pfile : [Players -> Merits],
           qfile : [Players -> File \cup {None}], wild : BOOLEAN]

\* Only chapters with a mob have one, in memory and in the files.
Mobbed(S) ==
    /\ \A q \in Quests : S.quest[q].mobs \subseteq Cast
    /\ \A p \in Players : S.qfile[p] # None => S.qfile[p].mobs \subseteq Cast

Fair(m) == m.paid <= 1 /\ (m.paid = 1 => m.done)

\* Chapters to come are untouched: so one that comes next has something to do, or
\* nothing from the beginning.
Going(x) ==
    /\ ~ x.finished => \/ x.curr \in x.done \/ x.left[x.curr] # {} \/ ~ OneSuffices(x.curr)
                       \/ x.bare /\ Events[x.curr] = {}
    /\ \A c \in Chapters : c > x.curr => x.left[c] = Events[c]

\* A file from which such a quest comes back.
Comes(f) ==
    f.curr # -1 =>
        /\ f.curr \in f.todo /\ OneSuffices(f.curr) /\ Events[f.curr] # {} => f.left[f.curr] # {}
        /\ \A c \in f.todo : c > f.curr => f.left[c] = Events[c]
Resumes(f) == f # None => Comes(f)

\* A player has the quest that is his, or no file of one.
PlayerFits(S, p, L) ==
    LET o == Of(S, p)  m == S.person[p].merits IN
    /\ o # None => S.quest[o].player = p /\ o \notin L
    /\ Fair(m) /\ Fair(S.pfile[p])
    /\ S.person[p].stage # "out" =>
          /\ o # None => ~ m.done
          /\ o = None => S.qfile[p] = None
          /\ S.pfile[p].done => m.done
    /\ S.pfile[p].done => S.qfile[p] = None
    /\ Resumes(S.qfile[p])

QuestFits(S, q, L) ==
    LET x == S.quest[q] IN
    /\ x.player # None /\ q \notin L =>
          Of(S, x.player) = q /\ S.person[x.player].stage # "out"
    /\ S.cast[q] = x.mobs
    /\ x.player = None => x.mobs = {} /\ q \notin L
    /\ x.player # None => Going(x)

Fits(S, L) ==
    /\ \A p \in Players : PlayerFits(S, p, L)
    /\ \A q \in Quests : QuestFits(S, q, L)

IInv ==
    /\ World \in States /\ questor \in BOOLEAN /\ lost \subseteq Quests
    /\ Mobbed(World)
    /\ wild \/ Fits(World, lost)

-----------------------------------------------------------------------------

LEMMA QuestsFacts ==
    /\ IsFiniteSet(Quests) /\ None \notin Quests /\ None \notin Players
    /\ N \in Nat /\ N > 0 /\ N \in Chapters
    /\ \A c \in Chapters : Kind[c] \in Kinds /\ Then[c] \in {"none", "reward", "ok", "bad"}
    /\ \A c \in Chapters : Events[c] \subseteq Deeds
    /\ Cast \subseteq Chapters /\ DOMAIN Events = Chapters
  BY QuestsAssumption DEF Chapters, Deeds

LEMMA ChapterFacts ==
    /\ \A c \in Chapters : c \in Nat /\ c > 0 /\ c <= N /\ c # -1
    /\ \A c \in Nat : c > 0 /\ c <= N => c \in Chapters
  BY QuestsAssumption DEF Chapters

LEMMA BlankFacts ==
    /\ Blank \in Quest /\ Newcomer \in Merits
    /\ Blank.player = None /\ Blank.mobs = {} /\ Blank.done = {} /\ ~ Blank.finished
    /\ Blank.curr = 1 /\ \A c \in Chapters : Blank.left[c] = Events[c]
    /\ Newcomer.paid = 0 /\ Newcomer.done = FALSE
  <1>1. [c \in Chapters |-> Events[c]] \in [Chapters -> SUBSET Deeds]
    BY QuestsFacts
  <1>2. 1 \in Chapters
    BY QuestsFacts, ChapterFacts
  <1> QED BY <1>1, <1>2 DEF Blank, Quest, Newcomer, Merits

LEMMA LeastNat ==
  ASSUME NEW M, M \subseteq Nat, M # {}
  PROVE  \E m \in M : \A k \in M : m <= k
  <1>1. \E m \in M : \A k \in M : ~ (<<k, m>> \in OpToRel(<, Nat))
    BY NatLessThanWellFounded, WFMin
  <1>2. \E m \in M : \A k \in M : ~ (k < m)
    <2>1. \A k, m \in M : k < m => <<k, m>> \in OpToRel(<, Nat)
      BY DEF OpToRel
    <2> QED BY <1>1, <2>1
  <1>3. PICK m \in M : \A k \in M : ~ (k < m)
    BY <1>2
  <1>4. \A k \in M : m \in Int /\ k \in Int
    OBVIOUS
  <1>5. \A k \in M : m <= k
    BY <1>3, <1>4
  <1> QED BY <1>5

\* The first critical chapter from n on, or the last one
LEMMA MinFacts ==
  ASSUME NEW n \in Chapters
  PROVE  LET last == Min({c \in n .. N : Critical(c)} \cup {N}) IN
         last \in Chapters /\ n <= last
  <1> DEFINE M == {c \in n .. N : Critical(c)} \cup {N}
  <1>0. n \in Nat /\ N \in Nat /\ n <= N
    BY ChapterFacts, QuestsAssumption
  <1>1. M \subseteq Nat /\ M # {} /\ M \subseteq n .. N
    BY <1>0
  <1> HIDE DEF M
  <1>2. \E c \in M : \A d \in M : c <= d
    BY <1>1, LeastNat
  <1>3. Min(M) \in n .. N
    BY <1>1, <1>2 DEF Min
  <1>4. Min(M) \in Nat /\ Min(M) > 0 /\ n <= Min(M) /\ Min(M) <= N
    BY <1>0, <1>3, ChapterFacts
  <1>5. Min(M) \in Chapters
    BY <1>4, ChapterFacts
  <1> QED BY <1>4, <1>5 DEF M

-----------------------------------------------------------------------------
(* What is put into a state. *)

LEMMA StateFields ==
  ASSUME NEW S \in States
  PROVE  /\ S.quest \in [Quests -> Quest] /\ S.cast \in [Quests -> SUBSET Cast]
         /\ S.person \in [Players -> Person] /\ S.pfile \in [Players -> Merits]
         /\ S.qfile \in [Players -> File \cup {None}] /\ S.wild \in BOOLEAN
  BY DEF States

LEMMA PersonFields ==
  ASSUME NEW S \in States, NEW p \in Players
  PROVE  /\ S.person[p] \in Person /\ S.person[p].merits \in Merits
         /\ S.person[p].inquest \in Quests \cup {None} /\ Of(S, p) = S.person[p].inquest
         /\ S.person[p].stage \in {"out", "login", "in"} /\ S.person[p].at \in Places
         /\ S.person[p].merits.paid \in Nat /\ S.person[p].merits.done \in BOOLEAN
         /\ S.pfile[p] \in Merits /\ S.pfile[p].paid \in Nat /\ S.pfile[p].done \in BOOLEAN
         /\ S.qfile[p] \in File \cup {None}
  BY DEF States, Person, Merits, Of

LEMMA QuestFields ==
  ASSUME NEW x \in Quest
  PROVE  /\ x.player \in Players \cup {None} /\ x.curr \in Chapters /\ x.done \in SUBSET Chapters
         /\ x.left \in [Chapters -> SUBSET Deeds] /\ x.acted \in SUBSET Chapters
         /\ x.finished \in BOOLEAN /\ x.failed \in BOOLEAN /\ x.mobs \in SUBSET Chapters
         /\ x.giver \in {"none", "there", "freed"} /\ x.bare \in BOOLEAN
  BY DEF Quest

LEMMA FileFields ==
  ASSUME NEW f \in File
  PROVE  /\ f.curr \in {-1} \cup Chapters /\ f.todo \in SUBSET Chapters
         /\ f.left \in [Chapters -> SUBSET Deeds] /\ f.mobs \in SUBSET Chapters
  BY DEF File

\* T is S with another quest at q and other mobs of it in the game.
Put(S, T, q, x, k) ==
    /\ T \in States
    /\ T.quest = [S.quest EXCEPT ![q] = x] /\ T.cast = [S.cast EXCEPT ![q] = k]
    /\ T.person = S.person /\ T.pfile = S.pfile /\ T.qfile = S.qfile /\ T.wild = S.wild

LEMMA PutQuest ==
  ASSUME NEW S \in States, NEW q \in Quests, NEW x \in Quest
  PROVE  Put(S, [S EXCEPT !.quest[q] = x], q, x, S.cast[q])
  <1> DEFINE T == [S EXCEPT !.quest[q] = x]
  <1>1. /\ T.quest = [S.quest EXCEPT ![q] = x] /\ T.cast = S.cast
        /\ T.person = S.person /\ T.pfile = S.pfile /\ T.qfile = S.qfile /\ T.wild = S.wild
    BY DEF States
  <1>2. T \in States
    BY DEF States
  <1>3. S.cast = [S.cast EXCEPT ![q] = S.cast[q]]
    BY StateFields
  <1> QED BY <1>1, <1>2, <1>3 DEF Put

LEMMA PutBoth ==
  ASSUME NEW S \in States, NEW q \in Quests, NEW x \in Quest, NEW k \in SUBSET Cast
  PROVE  Put(S, [S EXCEPT !.quest[q] = x, !.cast[q] = k], q, x, k)
  BY DEF Put, States

-----------------------------------------------------------------------------
(* Functions that change a player and his quest only. *)

Alike(S, T, p, q) ==
    /\ \A r \in Quests \ {q} : T.quest[r] = S.quest[r] /\ T.cast[r] = S.cast[r]
    /\ \A r \in Players \ {p} :
          T.person[r] = S.person[r] /\ T.pfile[r] = S.pfile[r] /\ T.qfile[r] = S.qfile[r]
    /\ S.wild => T.wild
    /\ Of(T, p) = Of(S, p) \/ Of(T, p) = None

Ready(S, p, q, L) ==
    /\ S \in States /\ Mobbed(S) /\ Of(S, p) \in {q, None}
    /\ S.wild \/ /\ PlayerFits(S, p, L) /\ QuestFits(S, q, L)
                 /\ S.quest[q].player \in {p, None}

\* T comes from S by what is done for p.
Goes(S, T, p, q, L) == Ready(T, p, q, L) /\ Alike(S, T, p, q)

LEMMA AlikeOn ==
  ASSUME NEW S, NEW T, NEW U, NEW p, NEW q, Alike(S, T, p, q), Alike(T, U, p, q)
  PROVE  Alike(S, U, p, q)
  BY DEF Alike

LEMMA GoesOn ==
  ASSUME NEW S, NEW T, NEW U, NEW p, NEW q, NEW L, Goes(S, T, p, q, L), Goes(T, U, p, q, L)
  PROVE  Goes(S, U, p, q, L)
  BY AlikeOn DEF Goes

LEMMA GoesSelf ==
  ASSUME NEW S, NEW p, NEW q, NEW L, Ready(S, p, q, L)
  PROVE  Goes(S, S, p, q, L)
  BY DEF Goes, Alike

\* Before such a function everything fits: then it does after it.
LEMMA FitsBefore ==
  ASSUME NEW S, NEW L, NEW p \in Players, NEW q \in Quests, S \in States, Mobbed(S),
         S.wild \/ Fits(S, L), Of(S, p) = q
  PROVE  Ready(S, p, q, L)
  BY QuestsFacts DEF Ready, Fits, PlayerFits

LEMMA FitsAfter ==
  ASSUME NEW S, NEW T, NEW L, NEW p \in Players, NEW q \in Quests, S \in States, T \in States,
         Fits(S, L), ~ T.wild, Alike(S, T, p, q), PlayerFits(T, p, L), QuestFits(T, q, L),
         Of(S, p) \in {q, None}, S.quest[q].player \in {p, None}
  PROVE  Fits(T, L)
  <1>1. ASSUME NEW r \in Players, r # p PROVE PlayerFits(T, r, L)
    <2>1. T.person[r] = S.person[r] /\ T.pfile[r] = S.pfile[r] /\ T.qfile[r] = S.qfile[r]
          /\ Of(T, r) = Of(S, r)
      BY <1>1 DEF Alike, Of
    <2>2. Of(S, r) \in Quests \cup {None} /\ PlayerFits(S, r, L)
      BY PersonFields DEF Fits
    <2>3. Of(S, r) # None => Of(S, r) # q
      BY <1>1, <2>2, QuestsFacts DEF PlayerFits
    <2>4. Of(S, r) # None => T.quest[Of(S, r)] = S.quest[Of(S, r)]
      BY <2>2, <2>3 DEF Alike
    <2> QED BY <2>1, <2>2, <2>4 DEF PlayerFits
  <1>2. ASSUME NEW r \in Quests, r # q PROVE QuestFits(T, r, L)
    <2>1. T.quest[r] = S.quest[r] /\ T.cast[r] = S.cast[r] /\ QuestFits(S, r, L)
      BY <1>2 DEF Alike, Fits
    <2>2. S.quest[r].player \in Players \cup {None}
      BY StateFields, QuestFields
    <2>3. S.quest[r].player # None /\ r \notin L => S.quest[r].player # p
      BY <1>2, <2>1, QuestsFacts DEF QuestFits
    <2>4. S.quest[r].player # None /\ r \notin L =>
             Of(T, S.quest[r].player) = Of(S, S.quest[r].player)
             /\ T.person[S.quest[r].player] = S.person[S.quest[r].player]
      BY <2>2, <2>3 DEF Alike, Of
    <2> QED BY <2>1, <2>4 DEF QuestFits
  <1> QED BY <1>1, <1>2 DEF Fits

LEMMA GoneAfter ==
  ASSUME NEW S, NEW T, NEW L, NEW p \in Players, NEW q \in Quests, S \in States, Mobbed(S),
         S.wild \/ Fits(S, L), Of(S, p) = q, Goes(S, T, p, q, L)
  PROVE  T \in States /\ Mobbed(T) /\ (T.wild \/ Fits(T, L))
  <1>1. T \in States /\ Mobbed(T)
    BY DEF Goes, Ready
  <1>2. ASSUME ~ T.wild PROVE Fits(T, L)
    <2>1. ~ S.wild
      BY <1>2 DEF Goes, Alike
    <2>2. Fits(S, L) /\ S.quest[q].player = p
      BY <2>1, QuestsFacts DEF Fits, PlayerFits
    <2> QED BY <1>1, <1>2, <2>2, FitsAfter DEF Goes, Ready
  <1> QED BY <1>1, <1>2

\* A part of a mob or chapter of a quest changes, its player does not.
LEMMA QuestChanges ==
  ASSUME NEW S, NEW p \in Players, NEW q \in Quests, NEW L, Ready(S, p, q, L), Of(S, p) = q,
         NEW x \in Quest, NEW k \in SUBSET Cast, NEW T, Put(S, T, q, x, k),
         x.player = S.quest[q].player,
         x.mobs \subseteq Cast, ~ S.wild => k = x.mobs,
         ~ S.wild /\ Going(S.quest[q]) => Going(x)
  PROVE  Goes(S, T, p, q, L) /\ Of(T, p) = q /\ T.quest[q] = x /\ T.wild = S.wild
  <1>0. S \in States /\ Mobbed(S)
    BY DEF Ready
  <1>1. /\ T \in States /\ T.quest = [S.quest EXCEPT ![q] = x] /\ T.quest[q] = x
        /\ T.cast = [S.cast EXCEPT ![q] = k] /\ T.cast[q] = k
        /\ T.person = S.person /\ T.pfile = S.pfile /\ T.qfile = S.qfile /\ T.wild = S.wild
    BY <1>0, StateFields DEF Put
  <1>2. S.quest \in [Quests -> Quest] /\ S.cast \in [Quests -> SUBSET Cast]
    BY <1>0, StateFields
  <1>3. Of(T, p) = q /\ \A r : Of(T, r) = Of(S, r)
    BY <1>1 DEF Of
  <1>4. Mobbed(T)
    BY <1>0, <1>1, <1>2 DEF Mobbed
  <1>5. Alike(S, T, p, q)
    BY <1>1, <1>2, <1>3 DEF Alike
  <1>6. ASSUME ~ S.wild
        PROVE  PlayerFits(T, p, L) /\ QuestFits(T, q, L) /\ T.quest[q].player \in {p, None}
    <2>1. PlayerFits(S, p, L) /\ QuestFits(S, q, L) /\ S.quest[q].player = p
      BY <1>6, QuestsFacts DEF Ready, PlayerFits
    <2>2. PlayerFits(T, p, L)
      BY <1>1, <1>3, <2>1 DEF PlayerFits
    <2>3. QuestFits(T, q, L)
      BY <1>1, <1>3, <1>6, <2>1, QuestsFacts DEF QuestFits
    <2> QED BY <1>1, <2>1, <2>2, <2>3
  <1> QED BY <1>1, <1>3, <1>4, <1>5, <1>6 DEF Goes, Ready

-----------------------------------------------------------------------------
(* The ends of a quest. *)

\* quest_cleanup, and what of it the file says
Closed(S, T, p, q) ==
    /\ T \in States
    /\ T.quest = [S.quest EXCEPT ![q] = Blank]
    /\ T.cast = [S.cast EXCEPT ![q] = @ \ S.quest[q].mobs]
    /\ T.person = [S.person EXCEPT ![p].inquest = None]
    /\ T.pfile = [S.pfile EXCEPT ![p] = S.person[p].merits]
    /\ T.qfile = [S.qfile EXCEPT ![p] = None]
    /\ T.wild = S.wild

LEMMA CleanedFields ==
  ASSUME NEW S \in States, NEW p \in Players, NEW q \in Quests, Of(S, p) = q
  PROVE  LET T == Cleaned(S, p) IN
         /\ T \in States
         /\ T.quest = [S.quest EXCEPT ![q] = Blank]
         /\ T.cast = [S.cast EXCEPT ![q] = @ \ S.quest[q].mobs]
         /\ T.person = [S.person EXCEPT ![p].inquest = None]
         /\ T.pfile = S.pfile /\ T.qfile = S.qfile /\ T.wild = S.wild
  <1> DEFINE T == Cleaned(S, p)
  <1>1. T = [S EXCEPT !.cast[q] = @ \ S.quest[q].mobs, !.quest[q] = Blank, !.person[p].inquest = None]
    BY QuestsFacts DEF Cleaned
  <1> HIDE DEF T
  <1>2. /\ T.quest = [S.quest EXCEPT ![q] = Blank]
        /\ T.cast = [S.cast EXCEPT ![q] = @ \ S.quest[q].mobs]
        /\ T.person = [S.person EXCEPT ![p].inquest = None]
        /\ T.pfile = S.pfile /\ T.qfile = S.qfile /\ T.wild = S.wild
        /\ T = [quest |-> T.quest, cast |-> T.cast, person |-> T.person,
                pfile |-> T.pfile, qfile |-> T.qfile, wild |-> T.wild]
    BY <1>1 DEF States
  <1>3. T.quest \in [Quests -> Quest]
    BY <1>2, StateFields, BlankFacts
  <1>4. T.cast \in [Quests -> SUBSET Cast]
    BY <1>2, StateFields
  <1>5. [S.person[p] EXCEPT !.inquest = None] \in Person
    BY PersonFields DEF Person
  <1>6. T.person \in [Players -> Person]
    BY <1>2, <1>5, StateFields
  <1>7. T \in States
    BY <1>2, <1>3, <1>4, <1>6, StateFields DEF States
  <1> QED BY <1>2, <1>7 DEF T

LEMMA OverFields ==
  ASSUME NEW S \in States, NEW p \in Players, NEW q \in Quests, Of(S, p) = q
  PROVE  Closed(S, Over(S, p), p, q)
  <1> DEFINE C == Cleaned(S, p)
             U == Unlinked(C, p)
             T == Saved(U, p)
  <1>1. /\ C \in States
        /\ C.quest = [S.quest EXCEPT ![q] = Blank]
        /\ C.cast = [S.cast EXCEPT ![q] = @ \ S.quest[q].mobs]
        /\ C.person = [S.person EXCEPT ![p].inquest = None]
        /\ C.pfile = S.pfile /\ C.qfile = S.qfile /\ C.wild = S.wild
    BY CleanedFields
  <1>2. T = Over(S, p)
    BY DEF Over, Ending
  <1> HIDE DEF C
  <1>3. U = [C EXCEPT !.qfile[p] = None]
    BY DEF Unlinked
  <1> HIDE DEF U
  <1>4. /\ U \in States /\ U.quest = C.quest /\ U.cast = C.cast /\ U.person = C.person
        /\ U.pfile = C.pfile /\ U.qfile = [C.qfile EXCEPT ![p] = None] /\ U.wild = C.wild
    BY <1>1, <1>3 DEF States
  <1>5. Of(U, p) = None
    BY <1>1, <1>4, StateFields, PersonFields DEF Of
  <1>6. U.person[p].merits = S.person[p].merits /\ S.person[p].merits \in Merits
    BY <1>1, <1>4, StateFields, PersonFields
  <1>7. U.qfile[p] = None
    BY <1>4, <1>1, StateFields
  <1>8. T = [U EXCEPT !.pfile[p] = S.person[p].merits, !.qfile[p] = None]
    BY <1>5, <1>6, <1>7 DEF Saved
  <1> HIDE DEF T
  <1>9. /\ T.quest = U.quest /\ T.cast = U.cast /\ T.person = U.person /\ T.wild = U.wild
        /\ T.pfile = [U.pfile EXCEPT ![p] = S.person[p].merits]
        /\ T.qfile = [U.qfile EXCEPT ![p] = None]
        /\ T \in States
    BY <1>4, <1>6, <1>8 DEF States
  <1>10. T.qfile = [S.qfile EXCEPT ![p] = None]
    BY <1>1, <1>4, <1>9, StateFields
  <1> QED BY <1>1, <1>2, <1>4, <1>9, <1>10 DEF Closed

LEMMA OverGoes ==
  ASSUME NEW S \in States, Mobbed(S), NEW p \in Players, NEW q \in Quests, Of(S, p) = q, NEW L,
         ~ S.wild => Fair(S.person[p].merits) /\ q \notin L /\ S.cast[q] = S.quest[q].mobs
  PROVE  Goes(S, Over(S, p), p, q, L) /\ Of(Over(S, p), p) = None
  <1> DEFINE T == Over(S, p)
  <1>1. Closed(S, T, p, q)
    BY OverFields
  <1> HIDE DEF T
  <1>2. /\ T \in States /\ S.quest \in [Quests -> Quest] /\ S.cast \in [Quests -> SUBSET Cast]
        /\ S.person \in [Players -> Person] /\ S.pfile \in [Players -> Merits]
        /\ S.qfile \in [Players -> File \cup {None}]
    BY <1>1, StateFields DEF Closed
  <1>3. /\ T.quest[q] = Blank /\ T.cast[q] = S.cast[q] \ S.quest[q].mobs
        /\ T.person[p].inquest = None /\ T.person[p].merits = S.person[p].merits
        /\ T.pfile[p] = S.person[p].merits /\ T.qfile[p] = None /\ T.wild = S.wild
    BY <1>1, <1>2, PersonFields DEF Closed, Person
  <1>4. Of(T, p) = None
    BY <1>3 DEF Of
  <1>5. Alike(S, T, p, q)
    BY <1>1, <1>2, <1>4 DEF Alike, Closed
  <1>6. Mobbed(T)
    BY <1>1, <1>2, BlankFacts DEF Mobbed, Closed
  <1>7. ASSUME ~ S.wild PROVE PlayerFits(T, p, L) /\ QuestFits(T, q, L)
    <2>1. Fair(S.person[p].merits) /\ q \notin L /\ T.cast[q] = {}
      BY <1>3, <1>7
    <2>2. PlayerFits(T, p, L)
      BY <1>3, <1>4, <2>1 DEF PlayerFits, Resumes
    <2>3. QuestFits(T, q, L)
      BY <1>3, <2>1, BlankFacts DEF QuestFits
    <2> QED BY <2>2, <2>3
  <1> QED BY <1>2, <1>3, <1>4, <1>5, <1>6, <1>7, BlankFacts DEF Goes, Ready, T

\* A quest with another end, or a player with other merits, is ready for it.
LEMMA ReadyFor ==
  ASSUME NEW S, NEW p \in Players, NEW q \in Quests, NEW L, Ready(S, p, q, L), Of(S, p) = q
  PROVE  /\ S \in States /\ Mobbed(S)
         /\ ~ S.wild => /\ Fair(S.person[p].merits) /\ ~ S.person[p].merits.done
                        /\ q \notin L /\ S.cast[q] = S.quest[q].mobs
                        /\ S.quest[q].player = p /\ Going(S.quest[q])
                        /\ S.person[p].stage # "out"
  BY QuestsFacts DEF Ready, PlayerFits, QuestFits

LEMMA MeritsPut ==
  ASSUME NEW S \in States, NEW p \in Players, NEW m \in Merits
  PROVE  LET T == [S EXCEPT !.person[p].merits = m] IN
         /\ T \in States /\ T.quest = S.quest /\ T.cast = S.cast /\ T.pfile = S.pfile
         /\ T.qfile = S.qfile /\ T.wild = S.wild /\ T.person[p].merits = m
         /\ Of(T, p) = Of(S, p) /\ \A r \in Players \ {p} : T.person[r] = S.person[r]
  <1> DEFINE T == [S EXCEPT !.person[p].merits = m]
  <1>1. /\ T.quest = S.quest /\ T.cast = S.cast /\ T.pfile = S.pfile
        /\ T.qfile = S.qfile /\ T.wild = S.wild /\ T.person = [S.person EXCEPT ![p].merits = m]
        /\ T = [quest |-> T.quest, cast |-> T.cast, person |-> T.person,
                pfile |-> T.pfile, qfile |-> T.qfile, wild |-> T.wild]
    BY DEF States
  <1> HIDE DEF T
  <1>2. [S.person[p] EXCEPT !.merits = m] \in Person
    BY PersonFields DEF Person
  <1>3. T.person \in [Players -> Person]
    BY <1>1, <1>2, StateFields
  <1>4. T \in States
    BY <1>1, <1>3, StateFields DEF States
  <1>5. T.person[p].merits = m /\ Of(T, p) = Of(S, p) /\ \A r \in Players \ {p} : T.person[r] = S.person[r]
    BY <1>1, StateFields, PersonFields DEF Of, Person
  <1> QED BY <1>1, <1>4, <1>5 DEF T

\* With other merits, then over
LEMMA MeritsOver ==
  ASSUME NEW S, NEW p \in Players, NEW q \in Quests, NEW L, Ready(S, p, q, L), Of(S, p) = q,
         NEW m \in Merits, ~ S.wild => Fair(m), NEW T, T = [S EXCEPT !.person[p].merits = m]
  PROVE  Goes(S, Over(T, p), p, q, L) /\ Of(Over(T, p), p) = None
  <1>1. /\ T \in States /\ T.quest = S.quest /\ T.cast = S.cast /\ T.pfile = S.pfile
        /\ T.qfile = S.qfile /\ T.wild = S.wild /\ T.person[p].merits = m
        /\ Of(T, p) = q /\ \A r \in Players \ {p} : T.person[r] = S.person[r]
    BY ReadyFor, MeritsPut
  <1>2. Mobbed(T)
    BY <1>1, ReadyFor DEF Mobbed
  <1>3. ~ T.wild => Fair(T.person[p].merits) /\ q \notin L /\ T.cast[q] = T.quest[q].mobs
    BY <1>1, ReadyFor
  <1>4. Goes(T, Over(T, p), p, q, L) /\ Of(Over(T, p), p) = None
    BY <1>1, <1>2, <1>3, OverGoes
  <1>5. Alike(S, T, p, q)
    BY <1>1 DEF Alike
  <1> QED BY <1>4, <1>5, AlikeOn DEF Goes

LEMMA StopBadGoes ==
  ASSUME NEW S, NEW p \in Players, NEW q \in Quests, NEW L, Ready(S, p, q, L), Of(S, p) = q
  PROVE  Goes(S, StopBad(S, p), p, q, L) /\ Of(StopBad(S, p), p) = None
  <1> DEFINE m == [S.person[p].merits EXCEPT !.done = TRUE]
  <1>1. S \in States
    BY ReadyFor
  <1>2. m \in Merits /\ (~ S.wild => Fair(m))
    <2>1. S.person[p].merits \in Merits
      BY <1>1, PersonFields
    <2>2. m \in Merits /\ m.done = TRUE /\ m.paid = S.person[p].merits.paid
      BY <2>1 DEF Merits
    <2> QED BY <2>2, ReadyFor DEF Fair
  <1>3. [S EXCEPT !.person[p].merits.done = TRUE] = [S EXCEPT !.person[p].merits = m]
    OBVIOUS
  <1> HIDE DEF m
  <1> QED BY <1>2, <1>3, MeritsOver DEF StopBad

LEMMA PaidFacts ==
  ASSUME NEW S \in States, NEW p \in Players
  PROVE  \E m \in Merits : /\ Paid(S, p) = [S EXCEPT !.person[p].merits = m]
                           /\ m.done = TRUE /\ m.paid <= S.person[p].merits.paid + 1
  <1> DEFINE n == IF S.quest[Of(S, p)].failed THEN S.person[p].merits.paid
                  ELSE S.person[p].merits.paid + 1
             m == [S.person[p].merits EXCEPT !.paid = n, !.done = TRUE]
             f == [S.person EXCEPT ![p].merits.paid = n]
             g == [f EXCEPT ![p].merits.done = TRUE]
  <1>1. S.person \in [Players -> Person] /\ S.person[p].merits \in Merits
    BY StateFields, PersonFields
  <1>2. n \in Nat /\ n <= S.person[p].merits.paid + 1
    BY PersonFields
  <1>3. Paid(S, p) = [S EXCEPT !.person = g]
    <2> DEFINE S1 == [S EXCEPT !.person = f]
    <2>1. S1 = [S EXCEPT !.person[p].merits.paid = IF S.quest[Of(S, p)].failed THEN @ ELSE @ + 1]
      OBVIOUS
    <2>2. Paid(S, p) = [S1 EXCEPT !.person[p].merits.done = TRUE]
      BY <2>1 DEF Paid
    <2> HIDE DEF f
    <2>3. S1.person = f /\ [S1 EXCEPT !.person = g] = [S EXCEPT !.person = g]
      BY DEF States
    <2> HIDE DEF S1
    <2> QED BY <2>2, <2>3
  <1> HIDE DEF n
  <1>4. /\ DOMAIN g = Players /\ \A r \in Players : r # p => g[r] = S.person[r]
        /\ g[p] = [S.person[p] EXCEPT !.merits = [[@ EXCEPT !.paid = n] EXCEPT !.done = TRUE]]
    BY <1>1 DEF Person
  <1>5. g = [S.person EXCEPT ![p].merits = m]
    BY <1>1, <1>4
  <1>6. m \in Merits /\ m.paid = n /\ m.done = TRUE
    BY <1>1, <1>2 DEF Merits
  <1> HIDE DEF g, f, m
  <1>7. Paid(S, p) = [S EXCEPT !.person[p].merits = m]
    BY <1>3, <1>5
  <1> QED BY <1>2, <1>6, <1>7

LEMMA ReturnGoes ==
  ASSUME NEW S, NEW p \in Players, NEW q \in Quests, NEW L, Ready(S, p, q, L), Of(S, p) = q
  PROVE  Goes(S, Return(S, p), p, q, L) /\ (Return(S, p) = S \/ Of(Return(S, p), p) = None)
  <1>1. S \in States
    BY ReadyFor
  <1>2. PICK m \in Merits : /\ Paid(S, p) = [S EXCEPT !.person[p].merits = m]
                            /\ m.done = TRUE /\ m.paid <= S.person[p].merits.paid + 1
    BY <1>1, PaidFacts
  <1>3. m.paid \in Nat
    BY DEF Merits
  <1>4. ~ S.wild => Fair(m)
    <2>1. SUFFICES ASSUME ~ S.wild PROVE Fair(m)
      OBVIOUS
    <2>2. /\ S.person[p].merits.paid \in Nat /\ Fair(S.person[p].merits)
          /\ ~ S.person[p].merits.done
      BY <1>1, <2>1, ReadyFor, PersonFields
    <2>3. S.person[p].merits.paid = 0
      BY <2>2 DEF Fair
    <2> QED BY <1>2, <1>3, <2>3 DEF Fair
  <1>5. CASE Near(S, p)
    BY <1>2, <1>4, <1>5, MeritsOver DEF Return
  <1>6. CASE ~ Near(S, p)
    BY <1>6, GoesSelf DEF Return
  <1> QED BY <1>5, <1>6

-----------------------------------------------------------------------------
(* The file. *)

LEMMA WrittenFacts ==
  ASSUME NEW x \in Quest
  PROVE  /\ Written(x) \in File /\ Written(x).mobs = x.mobs
         /\ Going(x) => Comes(Written(x)) /\ Resumes(Written(x))
  <1> DEFINE f == Written(x)
             left == [c \in Chapters |-> IF x.finished \/ c \in x.done THEN {} ELSE x.left[c]]
  <1>1. /\ f.curr = (IF x.finished THEN -1 ELSE x.curr) /\ f.left = left /\ f.mobs = x.mobs
        /\ f.todo = (IF x.finished THEN {} ELSE Chapters \ x.done)
        /\ f = [curr |-> f.curr, todo |-> f.todo, left |-> f.left, mobs |-> f.mobs]
    BY DEF Written
  <1>2. left \in [Chapters -> SUBSET Deeds]
    BY QuestFields
  <1> HIDE DEF f
  <1>3. f \in File
    BY <1>1, <1>2, QuestFields DEF File
  <1>4. ASSUME Going(x), f.curr # -1
        PROVE  /\ f.curr \in f.todo /\ OneSuffices(f.curr) /\ Events[f.curr] # {} => f.left[f.curr] # {}
               /\ \A c \in f.todo : c > f.curr => f.left[c] = Events[c]
    <2>1. ~ x.finished /\ f.curr = x.curr /\ f.todo = Chapters \ x.done
      BY <1>1, <1>4, QuestFields
    <2>2. \A c \in f.todo : f.left[c] = x.left[c]
      BY <1>1, <2>1
    <2> QED BY <1>4, <2>1, <2>2, QuestFields DEF Going
  <1> QED BY <1>1, <1>3, <1>4 DEF Comes, Resumes, f

LEMMA SavedGoes ==
  ASSUME NEW S, NEW p \in Players, NEW q \in Quests, NEW L, Ready(S, p, q, L), Of(S, p) = q
  PROVE  LET T == Saved(S, p) IN
         /\ Goes(S, T, p, q, L) /\ Of(T, p) = q
         /\ T.quest = S.quest /\ T.cast = S.cast /\ T.person = S.person /\ T.wild = S.wild
         /\ T.pfile = [S.pfile EXCEPT ![p] = S.person[p].merits]
         /\ T.qfile = [S.qfile EXCEPT ![p] = Written(S.quest[q])]
  <1> DEFINE T == Saved(S, p)
             f == Written(S.quest[q])
  <1>1. S \in States /\ Mobbed(S) /\ S.quest[q] \in Quest
    BY ReadyFor, StateFields
  <1>2. f \in File /\ f.mobs = S.quest[q].mobs /\ (Going(S.quest[q]) => Resumes(f))
    BY <1>1, WrittenFacts
  <1>3. T = [S EXCEPT !.pfile[p] = S.person[p].merits, !.qfile[p] = f]
    BY QuestsFacts DEF Saved
  <1> HIDE DEF f, T
  <1>4. S.person[p].merits \in Merits
    BY <1>1, PersonFields
  <1>5. /\ T \in States /\ T.quest = S.quest /\ T.cast = S.cast /\ T.person = S.person /\ T.wild = S.wild
        /\ T.pfile = [S.pfile EXCEPT ![p] = S.person[p].merits] /\ T.qfile = [S.qfile EXCEPT ![p] = f]
    BY <1>1, <1>2, <1>3, <1>4 DEF States
  <1>6. T.pfile[p] = S.person[p].merits /\ T.qfile[p] = f /\ \A r : Of(T, r) = Of(S, r)
    BY <1>1, <1>5, StateFields DEF Of
  <1>7. Mobbed(T)
    BY <1>1, <1>2, <1>5, StateFields DEF Mobbed
  <1>8. Alike(S, T, p, q)
    BY <1>5, <1>6 DEF Alike
  <1>9. ASSUME ~ S.wild PROVE PlayerFits(T, p, L) /\ QuestFits(T, q, L) /\ T.quest[q].player \in {p, None}
    <2>1. /\ Fair(S.person[p].merits) /\ ~ S.person[p].merits.done /\ Going(S.quest[q])
          /\ PlayerFits(S, p, L) /\ QuestFits(S, q, L) /\ S.quest[q].player = p
      BY <1>9, ReadyFor DEF Ready
    <2>2. PlayerFits(T, p, L)
      BY <1>2, <1>5, <1>6, <2>1, QuestsFacts DEF PlayerFits
    <2>3. QuestFits(T, q, L)
      BY <1>5, <1>6, <2>1 DEF QuestFits
    <2> QED BY <1>5, <2>1, <2>2, <2>3
  <1> QED BY <1>5, <1>6, <1>7, <1>8, <1>9 DEF Goes, Ready, T, f

LEMMA StoppedGoes ==
  ASSUME NEW S, NEW p \in Players, NEW q \in Quests, NEW L, Ready(S, p, q, L), Of(S, p) = q,
         NEW failed \in BOOLEAN
  PROVE  /\ Goes(S, Stopped(S, p, failed), p, q, L)
         /\ \/ Of(Stopped(S, p, failed), p) = None
            \/ Stopped(S, p, failed).quest[q].curr = S.quest[q].curr
  <1> DEFINE x == [S.quest[q] EXCEPT !.finished = TRUE, !.failed = failed]
             T == [S EXCEPT !.quest[q] = x]
             U == Saved(T, p)
  <1>1. S \in States /\ Mobbed(S) /\ S.quest[q] \in Quest /\ S.cast[q] \in SUBSET Cast
    BY ReadyFor, StateFields
  <1>2. /\ x \in Quest /\ x.player = S.quest[q].player /\ x.mobs = S.quest[q].mobs
        /\ x.finished /\ x.curr = S.quest[q].curr /\ x.left = S.quest[q].left
    BY <1>1 DEF Quest
  <1>3. [S EXCEPT !.quest[q].finished = TRUE, !.quest[q].failed = failed] = T
    BY <1>1, StateFields DEF States
  <1>4. Return(U, p) = Stopped(S, p, failed)
    BY <1>3 DEF Stopped
  <1> HIDE DEF x
  <1>5. Put(S, T, q, x, S.cast[q])
    BY <1>1, <1>2, PutQuest
  <1> HIDE DEF T
  <1>6. /\ x.mobs \subseteq Cast /\ (Going(S.quest[q]) => Going(x))
        /\ (~ S.wild => S.cast[q] = x.mobs)
    BY <1>1, <1>2, ReadyFor DEF Going, Mobbed
  <1>7. Goes(S, T, p, q, L) /\ Of(T, p) = q
    BY <1>1, <1>2, <1>5, <1>6, QuestChanges
  <1>8. Goes(T, U, p, q, L) /\ Of(U, p) = q /\ U.quest = T.quest
    BY <1>7, SavedGoes DEF Goes
  <1> HIDE DEF U
  <1>9. Goes(U, Return(U, p), p, q, L) /\ (Return(U, p) = U \/ Of(Return(U, p), p) = None)
    BY <1>8, ReturnGoes DEF Goes
  <1>10. U.quest[q].curr = S.quest[q].curr
    BY <1>1, <1>2, <1>5, <1>8, StateFields DEF Put
  <1> QED BY <1>4, <1>7, <1>8, <1>9, <1>10, GoesOn

-----------------------------------------------------------------------------
(* quest_trigger. *)

\* What is done while the events are looked at: no other chapter begins.
Moves(S, T, p, q, L) ==
    Goes(S, T, p, q, L) /\ (Of(T, p) = q => T.quest[q].curr = S.quest[q].curr)

LEMMA MovesOn ==
  ASSUME NEW S, NEW T, NEW U, NEW p, NEW q \in Quests, NEW L,
         Moves(S, T, p, q, L), Moves(T, U, p, q, L)
  PROVE  Moves(S, U, p, q, L)
  <1>1. Goes(S, U, p, q, L)
    BY GoesOn DEF Moves
  <1>2. Of(U, p) = q => Of(T, p) = q
    BY QuestsFacts DEF Moves, Goes, Alike
  <1> QED BY <1>1, <1>2 DEF Moves

LEMMA MovesSelf ==
  ASSUME NEW S, NEW p, NEW q, NEW L, Ready(S, p, q, L)
  PROVE  Moves(S, S, p, q, L)
  BY GoesSelf DEF Moves

\* Freed memory is read.
LEMMA WildMoves ==
  ASSUME NEW S, NEW p \in Players, NEW q \in Quests, NEW L, Ready(S, p, q, L),
         NEW b \in BOOLEAN, S.wild => b
  PROVE  Moves(S, [S EXCEPT !.wild = b], p, q, L)
  <1> DEFINE T == [S EXCEPT !.wild = b]
  <1>1. S \in States /\ Mobbed(S)
    BY DEF Ready
  <1>2. /\ T \in States /\ T.quest = S.quest /\ T.cast = S.cast /\ T.person = S.person
        /\ T.pfile = S.pfile /\ T.qfile = S.qfile /\ T.wild = b
    BY <1>1 DEF States
  <1> HIDE DEF T
  <1>3. \A r : Of(T, r) = Of(S, r)
    BY <1>2 DEF Of
  <1>4. Mobbed(T) /\ Alike(S, T, p, q)
    BY <1>1, <1>2, <1>3 DEF Mobbed, Alike
  <1>5. ~ b => PlayerFits(T, p, L) /\ QuestFits(T, q, L) /\ T.quest[q].player \in {p, None}
    BY <1>2, <1>3 DEF Ready, PlayerFits, QuestFits
  <1> QED BY <1>2, <1>3, <1>4, <1>5 DEF Moves, Goes, Ready, T

LEMMA ReadMoves ==
  ASSUME NEW S, NEW p \in Players, NEW q \in Quests, NEW L, Ready(S, p, q, L), NEW kept \in BOOLEAN
  PROVE  Moves(S, Read(S, p, kept), p, q, L)
  <1>1. S.wild \in BOOLEAN
    BY StateFields DEF Ready
  <1>2. CASE Of(S, p) = None
    BY <1>1, <1>2, WildMoves DEF Read
  <1>3. CASE Of(S, p) # None
    BY <1>3, MovesSelf DEF Read
  <1> QED BY <1>2, <1>3

\* Another quest at q
LEMMA QuestMoves ==
  ASSUME NEW S, NEW p \in Players, NEW q \in Quests, NEW L, Ready(S, p, q, L), Of(S, p) = q,
         NEW x \in Quest, x.player = S.quest[q].player, x.mobs = S.quest[q].mobs,
         x.curr = S.quest[q].curr, ~ S.wild /\ Going(S.quest[q]) => Going(x)
  PROVE  /\ Moves(S, [S EXCEPT !.quest[q] = x], p, q, L) /\ Of([S EXCEPT !.quest[q] = x], p) = q
         /\ [S EXCEPT !.quest[q] = x].quest[q] = x
  <1> DEFINE T == [S EXCEPT !.quest[q] = x]
  <1>1. S \in States /\ Mobbed(S) /\ S.cast[q] \in SUBSET Cast
    BY ReadyFor, StateFields
  <1>2. Put(S, T, q, x, S.cast[q])
    BY <1>1, PutQuest
  <1> HIDE DEF T
  <1>3. x.mobs \subseteq Cast /\ (~ S.wild => S.cast[q] = x.mobs)
    BY <1>1, ReadyFor DEF Mobbed
  <1>4. Goes(S, T, p, q, L) /\ Of(T, p) = q /\ T.quest[q] = x
    BY <1>1, <1>2, <1>3, QuestChanges
  <1> QED BY <1>4 DEF Moves, T

LEMMA StoppedMoves ==
  ASSUME NEW S, NEW p \in Players, NEW q \in Quests, NEW L, Ready(S, p, q, L), Of(S, p) = q,
         NEW failed \in BOOLEAN
  PROVE  Moves(S, Stopped(S, p, failed), p, q, L)
  BY StoppedGoes, QuestsFacts DEF Moves

LEMMA StopBadMoves ==
  ASSUME NEW S, NEW p \in Players, NEW q \in Quests, NEW L, Ready(S, p, q, L), Of(S, p) = q
  PROVE  Moves(S, StopBad(S, p), p, q, L)
  BY StopBadGoes, QuestsFacts DEF Moves

LEMMA ActMoves ==
  ASSUME NEW S, NEW p \in Players, NEW q \in Quests, NEW L, Ready(S, p, q, L), Of(S, p) = q,
         NEW c \in Chapters
  PROVE  Moves(S, Act(S, p, c), p, q, L)
  <1> DEFINE x == [S.quest[q] EXCEPT !.acted = @ \cup {c}]
             T == [S EXCEPT !.quest[q] = x]
  <1>1. S \in States /\ S.quest[q] \in Quest /\ S.wild \in BOOLEAN
    BY ReadyFor, StateFields
  <1>2. /\ x \in Quest /\ x.player = S.quest[q].player /\ x.mobs = S.quest[q].mobs
        /\ x.curr = S.quest[q].curr /\ x.left = S.quest[q].left /\ x.done = S.quest[q].done
        /\ x.finished = S.quest[q].finished /\ x.bare = S.quest[q].bare
    BY <1>1 DEF Quest
  <1>3. [S EXCEPT !.quest[q].acted = @ \cup {c}] = T
    OBVIOUS
  <1> HIDE DEF x
  <1>4. Moves(S, T, p, q, L) /\ Of(T, p) = q
    BY <1>2, QuestMoves DEF Going
  <1> HIDE DEF T
  <1>5. Moves(S, Stopped(T, p, FALSE), p, q, L)
    <2>1. Ready(T, p, q, L)
      BY <1>4 DEF Moves, Goes
    <2> QED BY <2>1, <1>4, StoppedMoves, MovesOn
  <1>6. Moves(S, StopBad(T, p), p, q, L)
    <2>1. Ready(T, p, q, L)
      BY <1>4 DEF Moves, Goes
    <2> QED BY <2>1, <1>4, StopBadMoves, MovesOn
  <1>7. Moves(S, S, p, q, L)
    BY MovesSelf
  <1>8. Moves(S, [S EXCEPT !.wild = S.wild \/ S.quest[q].giver = "freed"], p, q, L)
    BY <1>1, WildMoves
  <1>9. CASE c \in S.quest[q].acted
    BY <1>7, <1>9 DEF Act
  <1>10. CASE c \notin S.quest[q].acted /\ Then[c] = "none"
    BY <1>3, <1>4, <1>10 DEF Act
  <1>11. CASE c \notin S.quest[q].acted /\ Then[c] = "reward"
    BY <1>3, <1>4, <1>8, <1>11 DEF Act
  <1>12. CASE c \notin S.quest[q].acted /\ Then[c] = "ok"
    BY <1>3, <1>4, <1>5, <1>12 DEF Act
  <1>13. CASE c \notin S.quest[q].acted /\ Then[c] = "bad"
    BY <1>3, <1>4, <1>6, <1>13 DEF Act
  <1> QED BY <1>9, <1>10, <1>11, <1>12, <1>13, QuestsFacts

LEMMA InterpretedMoves ==
  ASSUME NEW S, NEW p \in Players, NEW q \in Quests, NEW L, Ready(S, p, q, L), Of(S, p) = q,
         NEW c \in Chapters, NEW d, c <= S.quest[q].curr
  PROVE  Moves(S, Interpreted(S, p, c, d), p, q, L)
  <1> DEFINE o == S.quest[q]
             x == [o EXCEPT !.left[c] = @ \ {d}]
             y == [x EXCEPT !.done = @ \cup {c}]
             T == [S EXCEPT !.quest[q] = x]
             U == [S EXCEPT !.quest[q] = y]
  <1>1. S \in States /\ o \in Quest
    BY ReadyFor, StateFields
  <1>2. o.left \in [Chapters -> SUBSET Deeds] /\ o.curr \in Chapters /\ o.done \in SUBSET Chapters
    BY <1>1, QuestFields
  <1>3. /\ x \in Quest /\ x.player = o.player /\ x.mobs = o.mobs /\ x.curr = o.curr
        /\ x.done = o.done /\ x.finished = o.finished
        /\ x.left = [o.left EXCEPT ![c] = @ \ {d}] /\ x.bare = o.bare
    BY <1>1, <1>2 DEF Quest
  <1>4. [S EXCEPT !.quest[q].left[c] = @ \ {d}] = T
    OBVIOUS
  <1> HIDE DEF x
  <1>5. /\ y \in Quest /\ y.player = o.player /\ y.mobs = o.mobs /\ y.curr = o.curr
        /\ y.done = o.done \cup {c} /\ y.finished = o.finished /\ y.left = x.left
        /\ y.bare = o.bare
    BY <1>3 DEF Quest
  <1>6. T.quest[q] = x /\ [T EXCEPT !.quest[q].done = @ \cup {c}] = U /\ Of(T, p) = q
    <2>1. T.quest = [S.quest EXCEPT ![q] = x] /\ T.quest[q] = x /\ T.person = S.person
      BY <1>1, StateFields DEF States
    <2>2. [T EXCEPT !.quest[q].done = @ \cup {c}] = [T EXCEPT !.quest[q] = y]
      BY <2>1
    <2>3. [T EXCEPT !.quest[q] = y] = U
      <3>1. [T.quest EXCEPT ![q] = y] = [S.quest EXCEPT ![q] = y]
        BY <2>1, <1>1, StateFields
      <3>2. [T EXCEPT !.quest = [S.quest EXCEPT ![q] = y]] = [S EXCEPT !.quest = [S.quest EXCEPT ![q] = y]]
        BY <1>1 DEF States
      <3> QED BY <3>1, <3>2
    <2> QED BY <2>1, <2>2, <2>3 DEF Of
  <1> HIDE DEF y
  <1>7. \A b \in Chapters : b > o.curr => x.left[b] = o.left[b]
    BY <1>2, <1>3, ChapterFacts
  <1>8. Going(o) => Going(y)
    <2>1. SUFFICES ASSUME Going(o) PROVE Going(y)
      OBVIOUS
    <2>2. \A b \in Chapters : b > o.curr => y.left[b] = Events[b]
      BY <1>5, <1>7, <2>1 DEF Going
    <2>3. ~ o.finished => \/ o.curr \in y.done \/ y.left[o.curr] # {} \/ ~ OneSuffices(o.curr)
                          \/ y.bare /\ Events[o.curr] = {}
      <3>1. CASE c = o.curr
        BY <3>1, <1>5
      <3>2. CASE c # o.curr
        BY <3>2, <1>2, <1>3, <1>5, <2>1 DEF Going
      <3> QED BY <3>1, <3>2
    <2> QED BY <1>5, <2>2, <2>3 DEF Going
  <1> DEFINE found == d \in o.left[c]
  <1>9. ~ (OneSuffices(c) /\ found) /\ Going(o) => Going(x)
    <2>1. SUFFICES ASSUME ~ (OneSuffices(c) /\ found), Going(o) PROVE Going(x)
      OBVIOUS
    <2>2. \A b \in Chapters : b > o.curr => x.left[b] = Events[b]
      BY <1>7, <2>1 DEF Going
    <2>3. ~ o.finished => \/ o.curr \in x.done \/ x.left[o.curr] # {} \/ ~ OneSuffices(o.curr)
                          \/ x.bare /\ Events[o.curr] = {}
      <3>1. CASE c = o.curr /\ OneSuffices(c)
        <4>1. x.left[c] = o.left[c]
          <5>1. x.left[c] = o.left[c] \ {d}
            BY <1>2, <1>3
          <5>2. d \notin o.left[c]
            BY <2>1, <3>1
          <5> QED BY <5>1, <5>2
        <4> QED BY <3>1, <4>1, <2>1, <1>3 DEF Going
      <3>2. CASE c = o.curr /\ ~ OneSuffices(c)
        BY <3>2
      <3>3. CASE c # o.curr
        BY <3>3, <1>2, <1>3, <2>1 DEF Going
      <3> QED BY <3>1, <3>2, <3>3
    <2> QED BY <1>3, <2>2, <2>3 DEF Going
  <1> DEFINE yes == IF OneSuffices(c) THEN found ELSE T.quest[q].left[c] = {}
  <1>10. Interpreted(S, p, c, d) = IF yes THEN Act(U, p, c) ELSE T
    <2> DEFINE W == [S EXCEPT !.quest[q].left[c] = @ \ {d}]
    <2>1. Interpreted(S, p, c, d) =
            IF IF OneSuffices(c) THEN found ELSE W.quest[q].left[c] = {}
            THEN Act([W EXCEPT !.quest[q].done = @ \cup {c}], p, c) ELSE W
      BY DEF Interpreted
    <2>2. W = T
      BY <1>4
    <2> HIDE DEF W, T, U, found
    <2> QED BY <2>1, <2>2, <1>6
  <1>11. CASE yes
    <2>1. Moves(S, U, p, q, L) /\ Of(U, p) = q
      BY <1>5, <1>8, QuestMoves
    <2>2. Moves(U, Act(U, p, c), p, q, L)
      BY <2>1, ActMoves DEF Moves, Goes
    <2> QED BY <1>10, <1>11, <2>1, <2>2, MovesOn
  <1>12. CASE ~ yes
    <2>1. ~ (OneSuffices(c) /\ found)
      BY <1>12
    <2>2. Moves(S, T, p, q, L)
      BY <1>3, <1>9, <2>1, QuestMoves
    <2> QED BY <1>10, <1>12, <2>2
  <1> QED BY <1>11, <1>12

-----------------------------------------------------------------------------
(* The chapters before the current one. *)

Stray(T, p, d, c, kept) ==
    IF c = 0 THEN T
    ELSE IF Of(T, p) = None \/ Critical(c) \/ c \in T.quest[Of(T, p)].done THEN T
    ELSE Read(Interpreted(T, p, c, d), p, kept)

\* The state from which Strays goes on at c
After(g, S, p, d, n, kept, c) == IF c >= n THEN S ELSE Stray(g[c + 1], p, d, c, kept)

LEMMA StrayMoves ==
  ASSUME NEW S, NEW p \in Players, NEW q \in Quests, NEW L, Ready(S, p, q, L),
         NEW c \in 0 .. N, NEW d, NEW kept \in BOOLEAN,
         Of(S, p) = q => c <= S.quest[q].curr
  PROVE  Moves(S, Stray(S, p, d, c, kept), p, q, L)
  <1>1. CASE c = 0 \/ Of(S, p) = None \/ Critical(c) \/ c \in S.quest[Of(S, p)].done
    <2>1. Stray(S, p, d, c, kept) = S
      BY <1>1 DEF Stray
    <2> QED BY <2>1, MovesSelf
  <1>2. CASE ~ (c = 0 \/ Of(S, p) = None \/ Critical(c) \/ c \in S.quest[Of(S, p)].done)
    <2>1. Of(S, p) = q /\ c \in Chapters
      BY <1>2, QuestsFacts DEF Ready, Chapters
    <2> DEFINE T == Interpreted(S, p, c, d)
    <2>2. Moves(S, T, p, q, L)
      BY <2>1, InterpretedMoves
    <2>3. Stray(S, p, d, c, kept) = Read(T, p, kept)
      BY <1>2 DEF Stray
    <2> HIDE DEF T
    <2>4. Moves(T, Read(T, p, kept), p, q, L)
      BY <2>2, ReadMoves DEF Moves, Goes
    <2> QED BY <2>2, <2>3, <2>4, MovesOn
  <1> QED BY <1>1, <1>2

IsWalk(g, S, p, d, n, kept) == g = [c \in 0 .. N |-> After(g, S, p, d, n, kept, c)]

\* The walk is well defined: the least number of steps after which it were not
\* would have one before it.
LEMMA WalkExists ==
  ASSUME NEW S, NEW p, NEW d, NEW n \in Chapters, NEW kept
  PROVE  \E g : IsWalk(g, S, p, d, n, kept)
  <1> DEFINE Upto(m) == \E g : \A c \in 0 .. N : c >= N - m => g[c] = After(g, S, p, d, n, kept, c)
             Bad == {m \in Nat : m <= N /\ ~ Upto(m)}
  <1>1. N \in Nat /\ n \in Nat /\ n <= N
    BY QuestsFacts, ChapterFacts
  <1>2. Bad = {}
    <2>1. SUFFICES ASSUME Bad # {} PROVE FALSE
      OBVIOUS
    <2>2. PICK m \in Bad : \A k \in Bad : m <= k
      BY <2>1, LeastNat
    <2>3. m \in Nat /\ m <= N /\ ~ Upto(m)
      OBVIOUS
    <2>4. CASE m = 0
      <3> DEFINE g == [c \in 0 .. N |-> S]
      <3>1. \A c \in 0 .. N : c >= N - m => g[c] = After(g, S, p, d, n, kept, c)
        BY <1>1, <2>4 DEF After
      <3> QED BY <3>1, <2>3
    <2>5. CASE m # 0
      <3>1. m - 1 \in Nat /\ m - 1 <= N /\ m - 1 < m
        BY <1>1, <2>3, <2>5
      <3>2. Upto(m - 1)
        <4>1. m - 1 \in Bad => m <= m - 1
          <5> HIDE DEF Bad
          <5> QED BY <2>2
        <4>2. m - 1 \notin Bad
          <5> HIDE DEF Bad
          <5> QED BY <4>1, <3>1, <2>3
        <4> QED BY <3>1, <4>2
      <3>3. PICK g : \A c \in 0 .. N : c >= N - (m - 1) => g[c] = After(g, S, p, d, n, kept, c)
        BY <3>2
      <3> DEFINE h == [c \in 0 .. N |-> IF c >= N - (m - 1) THEN g[c] ELSE After(g, S, p, d, n, kept, c)]
      <3>4. ASSUME NEW c \in 0 .. N, c >= N - m PROVE h[c] = After(h, S, p, d, n, kept, c)
        <4>1. c < N => c + 1 \in 0 .. N /\ c + 1 >= N - (m - 1) /\ h[c + 1] = g[c + 1]
          BY <3>4, <1>1, <2>3
        <4>2. ~ c >= n => c < N
          BY <1>1
        <4>3. After(h, S, p, d, n, kept, c) = After(g, S, p, d, n, kept, c)
          BY <4>1, <4>2 DEF After
        <4>4. h[c] = After(g, S, p, d, n, kept, c)
          BY <3>3
        <4> QED BY <4>3, <4>4
      <3> HIDE DEF h
      <3> QED BY <3>4, <2>3
    <2> QED BY <2>4, <2>5
  <1>3. Upto(N)
    BY <1>1, <1>2
  <1>4. PICK g : \A c \in 0 .. N : c >= N - N => g[c] = After(g, S, p, d, n, kept, c)
    BY <1>3
  <1> DEFINE h == [c \in 0 .. N |-> g[c]]
  <1>5. ASSUME NEW c \in 0 .. N PROVE h[c] = After(h, S, p, d, n, kept, c)
    <2>1. ~ c >= n => c + 1 \in 0 .. N
      BY <1>1
    <2>2. h[c] = After(g, S, p, d, n, kept, c)
      BY <1>1, <1>4
    <2> QED BY <2>1, <2>2 DEF After
  <1>6. h = [c \in 0 .. N |-> h[c]]
    OBVIOUS
  <1> HIDE DEF h
  <1>7. h = [c \in 0 .. N |-> After(h, S, p, d, n, kept, c)]
    BY <1>5, <1>6
  <1> QED BY <1>7 DEF IsWalk

LEMMA StraysMoves ==
  ASSUME NEW S, NEW p \in Players, NEW q \in Quests, NEW L, Ready(S, p, q, L), Of(S, p) = q,
         NEW d, NEW kept \in BOOLEAN, NEW n, n = S.quest[q].curr
  PROVE  Moves(S, Strays(S, p, d, n, kept), p, q, L)
  <1>1. n \in Chapters
    BY ReadyFor, StateFields, QuestFields
  <1> DEFINE g == CHOOSE h : IsWalk(h, S, p, d, n, kept)
  <1>2. g = [c \in 0 .. N |-> After(g, S, p, d, n, kept, c)]
    <2>1. \E h : IsWalk(h, S, p, d, n, kept)
      BY <1>1, WalkExists
    <2>2. IsWalk(g, S, p, d, n, kept)
      <3> HIDE DEF IsWalk
      <3> QED BY <2>1
    <2> HIDE DEF g
    <2> QED BY <2>2 DEF IsWalk
  <1>3. Strays(S, p, d, n, kept) = g[0]
    BY DEF Strays, IsWalk, After, Stray
  <1> HIDE DEF g
  <1>4. \A c \in 0 .. N : g[c] = After(g, S, p, d, n, kept, c)
    BY <1>2
  <1> DEFINE Bad == {m \in Nat : m <= N /\ ~ Moves(S, g[N - m], p, q, L)}
  <1>5. N \in Nat /\ n \in Nat /\ n <= N
    BY <1>1, QuestsFacts, ChapterFacts
  <1>6. Bad = {}
    <2>1. SUFFICES ASSUME Bad # {} PROVE FALSE
      OBVIOUS
    <2>2. PICK m \in Bad : \A k \in Bad : m <= k
      BY <2>1, LeastNat
    <2> DEFINE c == N - m
    <2>3. m \in Nat /\ m <= N /\ ~ Moves(S, g[c], p, q, L) /\ c \in 0 .. N
      BY <1>5
    <2>4. g[c] = After(g, S, p, d, n, kept, c)
      BY <1>4, <2>3
    <2>5. ~ c >= n
      BY <2>3, <2>4, MovesSelf DEF After
    <2>6. m - 1 \in Nat /\ m - 1 <= N /\ m - 1 \notin Bad /\ N - (m - 1) = c + 1
      BY <1>5, <2>2, <2>3, <2>5
    <2>7. Moves(S, g[c + 1], p, q, L)
      BY <2>6
    <2>8. g[c] = Stray(g[c + 1], p, d, c, kept)
      BY <2>4, <2>5 DEF After
    <2> HIDE DEF c, Bad
    <2>9. Moves(g[c + 1], g[c], p, q, L)
      <3>1. Ready(g[c + 1], p, q, L) /\ (Of(g[c + 1], p) = q => c <= g[c + 1].quest[q].curr)
        BY <1>5, <2>3, <2>5, <2>7 DEF Moves, Goes
      <3> QED BY <2>3, <2>8, <3>1, StrayMoves
    <2> QED BY <2>3, <2>7, <2>9, MovesOn
  <1>7. N - N = 0 /\ N <= N
    BY <1>5
  <1> QED BY <1>3, <1>5, <1>6, <1>7

-----------------------------------------------------------------------------
(* The next chapters. *)

\* x and k are quest and mobs after the chapters from n on have begun in y and j.
Begins(x, k, y, j, n) ==
    /\ x.player = y.player /\ x.finished = y.finished /\ x.left = y.left
    /\ \E m \in SUBSET Cast : x.mobs = y.mobs \cup m /\ k = j \cup m
    /\ (\A c \in Chapters : c >= n => y.left[c] = Events[c]) => Going(x)

LEMMA BegunFacts ==
  ASSUME NEW S \in States, NEW q \in Quests, NEW n \in Chapters
  PROVE  \E x \in Quest, k \in SUBSET Cast :
            Put(S, Begun(S, q, n), q, x, k) /\ Begins(x, k, S.quest[q], S.cast[q], n)
  <1> DEFINE last == Min({c \in n .. N : Critical(c)} \cup {N})
             m == Cast \cap (n .. last)
             e == {c \in n .. last : Events[c] = {}}
             y == S.quest[q]
             x == [y EXCEPT !.curr = last, !.done = y.done \cup e, !.mobs = y.mobs \cup m]
             k == S.cast[q] \cup m
  <1>1. y \in Quest /\ S.cast[q] \in SUBSET Cast /\ S.quest \in [Quests -> Quest]
    BY StateFields
  <1>2. last \in Chapters /\ n <= last
    BY MinFacts
  <1>3. m \in SUBSET Cast
    OBVIOUS
  <1>4. Begun(S, q, n) = [S EXCEPT !.quest[q].curr = last, !.quest[q].done = @ \cup e,
                                   !.quest[q].mobs = @ \cup m, !.cast[q] = @ \cup m]
    BY DEF Begun
  <1> HIDE DEF last
  <1>5. e \subseteq Chapters /\ (Events[last] = {} => last \in e)
    <2>1. n \in Nat /\ last \in Nat /\ last <= N /\ n > 0 /\ N \in Nat
      BY <1>2, ChapterFacts, QuestsFacts
    <2>2. n .. last \subseteq Chapters /\ last \in n .. last
      BY <1>2, <2>1 DEF Chapters
    <2> QED BY <2>2
  <1> HIDE DEF e, m
  <1>6. /\ x \in Quest /\ x.curr = last /\ x.done = y.done \cup e /\ x.mobs = y.mobs \cup m
        /\ x.player = y.player /\ x.finished = y.finished /\ x.left = y.left
    <2>1. m \subseteq Chapters
      BY <1>3, QuestsFacts
    <2> QED BY <1>1, <1>2, <1>5, <2>1 DEF Quest
  <1>7. Begun(S, q, n) = [S EXCEPT !.quest[q] = x, !.cast[q] = k]
    <2> DEFINE a == [y EXCEPT !.curr = last]
               b == [a EXCEPT !.done = y.done \cup e]
               z == [b EXCEPT !.mobs = y.mobs \cup m]
               A == [S EXCEPT !.quest[q] = a]
               B == [S EXCEPT !.quest[q] = b]
               C == [S EXCEPT !.quest[q] = z]
    <2>1. a \in Quest /\ a.done = y.done /\ a.mobs = y.mobs
      BY <1>1, <1>2 DEF Quest
    <2>2. [S EXCEPT !.quest[q].curr = last] = A
      OBVIOUS
    <2> HIDE DEF a
    <2>3. b \in Quest /\ b.mobs = y.mobs
      BY <1>1, <1>5, <2>1 DEF Quest
    <2>4. A.quest[q] = a /\ [A EXCEPT !.quest[q] = b] = B
      BY <1>1, StateFields DEF States
    <2>5. [A EXCEPT !.quest[q].done = y.done \cup e] = B
      BY <2>1, <2>4
    <2> HIDE DEF b
    <2>6. B.quest[q] = b /\ [B EXCEPT !.quest[q] = z] = C
      BY <1>1, StateFields DEF States
    <2>7. [B EXCEPT !.quest[q].mobs = y.mobs \cup m] = C
      BY <2>3, <2>6
    <2> HIDE DEF z
    <2>8. C.cast[q] = S.cast[q]
      BY DEF States
    <2>9. [C EXCEPT !.cast[q] = k] = [S EXCEPT !.quest[q] = z, !.cast[q] = k]
      BY <2>8
    <2>10. z = x
      BY DEF z, b, a
    <2> HIDE DEF A, B, C, x, k
    <2>11. [S EXCEPT !.quest[q].curr = last, !.quest[q].done = @ \cup e] = B
      BY <2>2, <2>5
    <2>12. [S EXCEPT !.quest[q].curr = last, !.quest[q].done = @ \cup e,
                     !.quest[q].mobs = @ \cup m] = C
      BY <2>7, <2>11
    <2>13. [S EXCEPT !.quest[q].curr = last, !.quest[q].done = @ \cup e,
                     !.quest[q].mobs = @ \cup m, !.cast[q] = @ \cup m]
           = [S EXCEPT !.quest[q] = z, !.cast[q] = k]
      BY <2>9, <2>12 DEF k
    <2> QED BY <1>4, <2>10, <2>13
  <1>8. k \in SUBSET Cast
    BY <1>1, <1>3
  <1>9. ASSUME \A c \in Chapters : c >= n => y.left[c] = Events[c] PROVE Going(x)
    <2>1. \A c \in Chapters : c > last => x.left[c] = Events[c]
      BY <1>2, <1>6, <1>9, ChapterFacts
    <2>2. x.curr \in x.done \/ x.left[x.curr] # {}
      BY <1>2, <1>5, <1>6, <1>9, ChapterFacts
    <2> QED BY <1>6, <2>1, <2>2 DEF Going
  <1> HIDE DEF x, k
  <1>10. Put(S, Begun(S, q, n), q, x, k)
    <2>1. Put(S, [S EXCEPT !.quest[q] = x, !.cast[q] = k], q, x, k)
      BY <1>6, <1>8, PutBoth
    <2> QED BY <2>1, <1>7
  <1>11. Begins(x, k, y, S.cast[q], n)
    BY <1>3, <1>6, <1>9 DEF Begins, k
  <1> QED BY <1>6, <1>8, <1>10, <1>11

LEMMA BegunGoes ==
  ASSUME NEW S, NEW p \in Players, NEW q \in Quests, NEW L, Ready(S, p, q, L), Of(S, p) = q,
         S.quest[q].curr < N
  PROVE  Goes(S, Begun(S, q, S.quest[q].curr + 1), p, q, L)
  <1> DEFINE n == S.quest[q].curr + 1
  <1>1. /\ S \in States /\ Mobbed(S) /\ S.quest[q] \in Quest
        /\ ~ S.wild => S.cast[q] = S.quest[q].mobs
    BY ReadyFor, StateFields
  <1>2. S.quest[q].curr \in Chapters
    BY <1>1, QuestFields
  <1>3. n \in Chapters /\ \A c \in Chapters : c >= n => c > S.quest[q].curr
    <2>1. S.quest[q].curr \in Nat /\ N \in Nat
      BY <1>2, QuestsFacts, ChapterFacts
    <2> QED BY <2>1 DEF Chapters
  <1> HIDE DEF n
  <1>4. PICK x \in Quest, k \in SUBSET Cast :
           Put(S, Begun(S, q, n), q, x, k) /\ Begins(x, k, S.quest[q], S.cast[q], n)
    BY <1>1, <1>3, BegunFacts
  <1>5. /\ x.player = S.quest[q].player /\ x.mobs \subseteq Cast
        /\ ~ S.wild => k = x.mobs
    BY <1>1, <1>4 DEF Begins, Mobbed
  <1>6. Going(S.quest[q]) => Going(x)
    BY <1>3, <1>4 DEF Begins, Going
  <1>7. Goes(S, Begun(S, q, n), p, q, L)
    BY <1>4, <1>5, <1>6, QuestChanges
  <1> QED BY <1>7 DEF n

LEMMA StoppedOn ==
  ASSUME NEW S, NEW p \in Players, NEW q \in Quests, NEW L, Ready(S, p, q, L), Of(S, p) = q,
         NEW failed \in BOOLEAN
  PROVE  Goes(S, Stopped(S, p, failed), p, q, L)
  BY StoppedGoes

LEMMA AdvancedGoes ==
  ASSUME NEW S, NEW p \in Players, NEW q \in Quests, NEW L, Ready(S, p, q, L)
  PROVE  Goes(S, Advanced(S, p), p, q, L)
  <1>1. Goes(S, S, p, q, L)
    BY GoesSelf
  <1>2. CASE Of(S, p) = None
    BY <1>1, <1>2 DEF Advanced
  <1>3. CASE Of(S, p) # None
    <2>1. Of(S, p) = q
      BY <1>3 DEF Ready
    <2> DEFINE x == S.quest[q]
    <2>2. x.curr \in Nat /\ N \in Nat /\ x.curr <= N
      <3>1. x \in Quest
        BY StateFields DEF Ready
      <3> QED BY <3>1, QuestFields, QuestsFacts, ChapterFacts
    <2>3. CASE x.curr \notin x.done
      <3>1. Advanced(S, p) = S
        BY <1>3, <2>1, <2>3, Zenon DEF Advanced
      <3> QED BY <1>1, <3>1
    <2>4. CASE x.curr \in x.done /\ x.curr < N
      <3>1. x.curr # N
        BY <2>2, <2>4
      <3>2. Advanced(S, p) = Begun(S, q, x.curr + 1)
        BY <1>3, <2>1, <2>4, <3>1, Zenon DEF Advanced
      <3> QED BY <2>1, <2>4, <3>2, BegunGoes
    <2>5. CASE x.curr \in x.done /\ x.curr = N
      <3>1. ~ (x.curr < N) /\ N \in x.done
        BY <2>2, <2>5
      <3>2. Advanced(S, p) = IF x.finished THEN S ELSE Stopped(S, p, FALSE)
        BY <1>3, <2>1, <2>5, <3>1, Zenon DEF Advanced
      <3>3. Goes(S, Stopped(S, p, FALSE), p, q, L)
        BY <2>1, StoppedOn
      <3> QED BY <1>1, <3>2, <3>3
    <2> QED BY <2>2, <2>3, <2>4, <2>5
  <1> QED BY <1>2, <1>3

LEMMA TriggeredGoes ==
  ASSUME NEW S, NEW p \in Players, NEW q \in Quests, NEW L, Ready(S, p, q, L),
         NEW d, NEW kept \in BOOLEAN
  PROVE  Goes(S, Triggered(S, p, d, kept), p, q, L)
  <1> DEFINE x == S.quest[q]
             I == Interpreted(S, p, x.curr, d)
             T == Read(I, p, kept)
             A == Act(T, p, x.curr)
             U == IF Of(T, p) = None THEN T
                  ELSE IF x.curr \in T.quest[q].done /\ ~ T.quest[q].finished
                  THEN Read(A, p, kept)
                  ELSE Strays(T, p, d, x.curr, kept)
  <1>1. CASE Of(S, p) = None
    BY <1>1, GoesSelf DEF Triggered
  <1>2. CASE Of(S, p) # None
    <2>1. Of(S, p) = q
      BY <1>2 DEF Ready
    <2>2. x.curr \in Chapters /\ x.curr <= x.curr
      BY StateFields, QuestFields, ChapterFacts DEF Ready
    <2>3. Moves(S, I, p, q, L)
      BY <2>1, <2>2, InterpretedMoves
    <2> HIDE DEF I
    <2>4. Moves(S, T, p, q, L)
      <3>1. Ready(I, p, q, L)
        BY <2>3 DEF Moves, Goes
      <3>2. Moves(I, T, p, q, L)
        BY <3>1, ReadMoves
      <3> QED BY <2>3, <3>2, MovesOn
    <2> HIDE DEF T
    <2>5. Goes(S, U, p, q, L)
      <3>1. Ready(T, p, q, L) /\ Goes(S, T, p, q, L)
        BY <2>4 DEF Moves, Goes
      <3>2. CASE Of(T, p) = None
        BY <3>1, <3>2
      <3>3. CASE Of(T, p) # None
        <4>1. Of(T, p) = q /\ T.quest[q].curr = x.curr
          BY <3>1, <3>3, <2>4 DEF Ready, Moves
        <4>2. Goes(T, Read(A, p, kept), p, q, L)
          <5>1. Moves(T, A, p, q, L)
            BY <3>1, <4>1, <2>2, ActMoves
          <5> HIDE DEF A
          <5>2. Moves(A, Read(A, p, kept), p, q, L)
            BY <5>1, ReadMoves DEF Moves, Goes
          <5> QED BY <5>1, <5>2, MovesOn DEF Moves
        <4>3. Goes(T, Strays(T, p, d, x.curr, kept), p, q, L)
          BY <3>1, <4>1, StraysMoves DEF Moves
        <4>4. Goes(S, Read(A, p, kept), p, q, L) /\ Goes(S, Strays(T, p, d, x.curr, kept), p, q, L)
          BY <3>1, <4>2, <4>3, GoesOn
        <4> QED BY <3>3, <4>4
      <3> QED BY <3>2, <3>3
    <2>6. Triggered(S, p, d, kept) = IF x.finished /\ d \in Places THEN Return(S, p) ELSE Advanced(U, p)
      <3>1. Of(T, p) = None \/ Of(T, p) = q
        BY <2>4 DEF Moves, Goes, Ready
      <3>2. /\ T = Read(Interpreted(S, p, x.curr, d), p, kept)
            /\ q # None
        BY QuestsFacts DEF T, I
      <3> HIDE DEF A
      <3>3. U = IF Of(T, p) = None THEN T
                ELSE IF x.curr \in T.quest[Of(S, p)].done /\ ~ T.quest[Of(S, p)].finished
                THEN Read(A, p, kept)
                ELSE Strays(T, p, d, x.curr, kept)
        BY <2>1
      <3> QED BY <2>1, <3>2 DEF Triggered, A
    <2> HIDE DEF U
    <2>7. Goes(S, Return(S, p), p, q, L)
      BY <2>1, ReturnGoes
    <2>8. Goes(S, Advanced(U, p), p, q, L)
      <3>1. Ready(U, p, q, L)
        BY <2>5 DEF Goes
      <3>2. Goes(U, Advanced(U, p), p, q, L)
        BY <3>1, AdvancedGoes
      <3> QED BY <2>5, <3>2, GoesOn
    <2> QED BY <2>6, <2>7, <2>8
  <1> QED BY <1>1, <1>2

-----------------------------------------------------------------------------
(* What the invariant says of a state and the quests that were lost. *)

Holds(S, L) == S \in States /\ Mobbed(S) /\ (S.wild \/ Fits(S, L))

LEMMA WorldFields ==
  /\ World.quest = quest /\ World.cast = cast /\ World.person = person
  /\ World.pfile = pfile /\ World.qfile = qfile /\ World.wild = wild
  BY DEF World

LEMMA HoldsNow ==
  ASSUME IInv
  PROVE  Holds(World, lost) /\ lost \subseteq Quests /\ questor \in BOOLEAN
  BY WorldFields DEF IInv, Holds

LEMMA HoldsNext ==
  ASSUME NEW S, Holds(S, lost'), Becomes(S), lost' \subseteq Quests, questor' \in BOOLEAN
  PROVE  IInv'
  <1>1. World' = S
    BY DEF Holds, States, Becomes, World
  <1>2. S.wild = wild'
    BY DEF Becomes
  <1> QED BY <1>1, <1>2 DEF IInv, Holds

\* What is done for a player who has a quest
LEMMA HoldsAfter ==
  ASSUME NEW S, NEW T, NEW L, NEW p \in Players, NEW q \in Quests, Holds(S, L), Of(S, p) = q,
         Goes(S, T, p, q, L)
  PROVE  Holds(T, L)
  BY GoneAfter DEF Holds

LEMMA ReadyWhen ==
  ASSUME NEW S, NEW L, NEW p \in Players, NEW q \in Quests, Holds(S, L), Of(S, p) = q
  PROVE  Ready(S, p, q, L)
  BY FitsBefore DEF Holds

LEMMA TriggeredHolds ==
  ASSUME NEW S, NEW L, NEW p \in Players, Holds(S, L), NEW d, NEW kept \in BOOLEAN
  PROVE  Holds(Triggered(S, p, d, kept), L)
  <1>1. CASE Of(S, p) = None
    BY <1>1 DEF Triggered
  <1>2. CASE Of(S, p) # None
    <2>1. Of(S, p) \in Quests
      BY <1>2, PersonFields DEF Holds
    <2> QED BY <2>1, ReadyWhen, TriggeredGoes, HoldsAfter
  <1> QED BY <1>1, <1>2

\* Only a quest changes, and not whose it is.
LEMMA QuestHolds ==
  ASSUME NEW S, NEW L, Holds(S, L), NEW q \in Quests, NEW x \in Quest, NEW k \in SUBSET Cast, NEW T,
         Put(S, T, q, x, k), x.player = S.quest[q].player, x.mobs \subseteq Cast,
         ~ S.wild => /\ k = x.mobs
                     /\ x.player = None => x.mobs = {}
                     /\ x.player # None /\ Going(S.quest[q]) => Going(x)
  PROVE  Holds(T, L)
  <1>1. S \in States /\ Mobbed(S) /\ S.quest \in [Quests -> Quest] /\ S.cast \in [Quests -> SUBSET Cast]
    BY StateFields DEF Holds
  <1>2. /\ T \in States /\ T.quest = [S.quest EXCEPT ![q] = x] /\ T.quest[q] = x /\ T.cast[q] = k
        /\ T.person = S.person /\ T.pfile = S.pfile /\ T.qfile = S.qfile /\ T.wild = S.wild
        /\ \A r \in Quests : r # q => T.quest[r] = S.quest[r] /\ T.cast[r] = S.cast[r]
        /\ \A r \in Quests : T.quest[r].player = S.quest[r].player
    BY <1>1 DEF Put
  <1>3. \A r : Of(T, r) = Of(S, r)
    BY <1>2 DEF Of
  <1>4. Mobbed(T)
    BY <1>1, <1>2 DEF Mobbed
  <1>5. ASSUME ~ S.wild PROVE Fits(T, L)
    <2>1. Fits(S, L)
      BY <1>5 DEF Holds
    <2>2. ASSUME NEW r \in Players PROVE PlayerFits(T, r, L)
      <3>1. PlayerFits(S, r, L) /\ Of(S, r) \in Quests \cup {None}
        BY <1>1, <2>1, PersonFields DEF Fits
      <3> QED BY <1>2, <1>3, <3>1 DEF PlayerFits
    <2>3. ASSUME NEW r \in Quests PROVE QuestFits(T, r, L)
      <3>1. QuestFits(S, r, L)
        BY <2>1 DEF Fits
      <3>2. CASE r = q
        BY <1>2, <1>3, <1>5, <3>1, <3>2 DEF QuestFits
      <3>3. CASE r # q
        BY <1>2, <1>3, <3>1, <3>3 DEF QuestFits
      <3> QED BY <3>2, <3>3
    <2> QED BY <2>2, <2>3 DEF Fits
  <1> QED BY <1>2, <1>4, <1>5 DEF Holds

\* Only a player without a quest changes, and still has none.
LEMMA PlayerHolds ==
  ASSUME NEW S, NEW L, Holds(S, L), NEW p \in Players, NEW T, T \in States, Of(S, p) = None,
         T.quest = S.quest, T.cast = S.cast, T.wild = S.wild,
         \A r \in Players \ {p} :
            T.person[r] = S.person[r] /\ T.pfile[r] = S.pfile[r] /\ T.qfile[r] = S.qfile[r],
         T.qfile[p] # None => T.qfile[p].mobs \subseteq Cast,
         ~ S.wild => PlayerFits(T, p, L), Of(T, p) = None
  PROVE  Holds(T, L)
  <1>1. S \in States /\ Mobbed(T)
    BY DEF Mobbed, Holds
  <1>2. ASSUME ~ S.wild PROVE Fits(T, L)
    <2>1. Fits(S, L)
      BY <1>2 DEF Holds
    <2>2. ASSUME NEW r \in Players PROVE PlayerFits(T, r, L)
      <3>1. CASE r = p
        BY <1>2, <3>1
      <3>2. CASE r # p
        BY <2>1, <3>2 DEF Fits, PlayerFits, Of
      <3> QED BY <3>1, <3>2
    <2>3. ASSUME NEW r \in Quests PROVE QuestFits(T, r, L)
      <3>1. QuestFits(S, r, L) /\ S.quest[r].player \in Players \cup {None} /\ r # None
        BY <1>1, <2>1, StateFields, QuestFields, QuestsFacts DEF Fits
      <3>2. S.quest[r].player # None /\ r \notin L => S.quest[r].player # p
        BY <3>1 DEF QuestFits
      <3>3. S.quest[r].player # None /\ r \notin L =>
               T.person[S.quest[r].player] = S.person[S.quest[r].player]
        BY <3>1, <3>2
      <3> QED BY <3>1, <3>3 DEF QuestFits, Of
    <2> QED BY <2>2, <2>3 DEF Fits
  <1> QED BY <1>1, <1>2 DEF Holds

\* A player goes elsewhere, or enters the game.
LEMMA StageHolds ==
  ASSUME NEW S, NEW L, Holds(S, L), NEW T, T \in States,
         T.quest = S.quest, T.cast = S.cast, T.pfile = S.pfile, T.qfile = S.qfile, T.wild = S.wild,
         \A r \in Players : /\ Of(T, r) = Of(S, r) /\ T.person[r].merits = S.person[r].merits
                            /\ T.person[r].stage = "out" <=> S.person[r].stage = "out"
  PROVE  Holds(T, L)
  <1>1. S \in States /\ Mobbed(T)
    BY DEF Mobbed, Holds
  <1>2. ASSUME ~ S.wild PROVE Fits(T, L)
    <2>1. Fits(S, L)
      BY <1>2 DEF Holds
    <2>2. ASSUME NEW r \in Players PROVE PlayerFits(T, r, L)
      BY <2>1 DEF Fits, PlayerFits
    <2>3. ASSUME NEW r \in Quests PROVE QuestFits(T, r, L)
      <3>1. QuestFits(S, r, L) /\ S.quest[r].player \in Players \cup {None}
        BY <1>1, <2>1, StateFields, QuestFields DEF Fits
      <3> QED BY <3>1 DEF QuestFits
    <2> QED BY <2>2, <2>3 DEF Fits
  <1> QED BY <1>1, <1>2 DEF Holds

\* A player without a quest gets one that nobody had.
LEMMA AdoptHolds ==
  ASSUME NEW S, NEW L, Holds(S, L), ~ S.wild, NEW p \in Players, NEW q \in Quests, NEW T, T \in States,
         Of(S, p) = None, S.quest[q].player = None, NEW x, NEW w,
         T.quest = [S.quest EXCEPT ![q] = x], T.cast = [S.cast EXCEPT ![q] = x.mobs],
         T.person = [S.person EXCEPT ![p] = w],
         T.pfile = S.pfile, T.qfile = S.qfile, T.wild = S.wild,
         x.player = p, x.mobs \subseteq Cast, Going(x),
         w.stage # "out", w.inquest = q, Fair(w.merits), ~ w.merits.done, ~ S.pfile[p].done
  PROVE  Holds(T, L)
  <1>1. S \in States /\ Mobbed(S) /\ Fits(S, L) /\ q # None /\ p # None
    BY QuestsFacts DEF Holds
  <1>2. /\ T.quest[q] = x /\ T.cast[q] = x.mobs /\ T.person[p] = w /\ Of(T, p) = q
        /\ \A r \in Quests \ {q} : T.quest[r] = S.quest[r] /\ T.cast[r] = S.cast[r]
        /\ \A r \in Players \ {p} : T.person[r] = S.person[r] /\ Of(T, r) = Of(S, r)
    BY <1>1, StateFields DEF Of
  <1>3. Mobbed(T)
    BY <1>1, <1>2 DEF Mobbed
  <1>4. q \notin L
    BY <1>1 DEF Fits, QuestFits
  <1>5. ASSUME NEW r \in Players PROVE PlayerFits(T, r, L)
    <2>1. PlayerFits(S, r, L) /\ Of(S, r) \in Quests \cup {None} /\ r # None
      BY <1>1, PersonFields, QuestsFacts DEF Fits
    <2>2. CASE r = p
      BY <1>1, <1>2, <1>4, <2>1, <2>2 DEF PlayerFits
    <2>3. CASE r # p
      <3>1. Of(S, r) # q
        BY <1>1, <2>1 DEF PlayerFits
      <3> QED BY <1>2, <2>1, <2>3, <3>1 DEF PlayerFits
    <2> QED BY <2>2, <2>3
  <1>6. ASSUME NEW r \in Quests PROVE QuestFits(T, r, L)
    <2>1. QuestFits(S, r, L) /\ S.quest[r].player \in Players \cup {None} /\ r # None
      BY <1>1, StateFields, QuestFields, QuestsFacts DEF Fits
    <2>2. CASE r = q
      BY <1>1, <1>2, <1>4, <2>2 DEF QuestFits
    <2>3. CASE r # q
      <3>1. S.quest[r].player # None /\ r \notin L => S.quest[r].player # p
        BY <2>1 DEF QuestFits
      <3>2. S.quest[r].player # None /\ r \notin L =>
               /\ T.person[S.quest[r].player] = S.person[S.quest[r].player]
               /\ Of(T, S.quest[r].player) = Of(S, S.quest[r].player)
        BY <1>2, <2>1, <3>1
      <3> QED BY <1>2, <2>1, <2>3, <3>2 DEF QuestFits
    <2> QED BY <2>2, <2>3
  <1> QED BY <1>3, <1>5, <1>6 DEF Holds, Fits

\* A player leaves, and his quest, if he has one, is cleaned up.
Left(S, T, p, w, m, f) ==
    /\ T \in States
    /\ \/ Of(S, p) = None /\ T.quest = S.quest /\ T.cast = S.cast
       \/ /\ Of(S, p) \in Quests
          /\ T.quest = [S.quest EXCEPT ![Of(S, p)] = Blank]
          /\ T.cast = [S.cast EXCEPT ![Of(S, p)] = @ \ S.quest[Of(S, p)].mobs]
    /\ T.person = [S.person EXCEPT ![p] = w]
    /\ T.pfile = [S.pfile EXCEPT ![p] = m] /\ T.qfile = [S.qfile EXCEPT ![p] = f]
    /\ T.wild = S.wild

LEMMA LeftHolds ==
  ASSUME NEW S, NEW L, Holds(S, L), NEW p \in Players, NEW T, NEW w, NEW m, NEW f,
         Left(S, T, p, w, m, f), w.stage = "out", w.inquest = None,
         f # None => f.mobs \subseteq Cast,
         ~ S.wild => Fair(w.merits) /\ Fair(m) /\ Resumes(f) /\ (m.done => f = None)
  PROVE  Holds(T, L)
  <1>1. S \in States /\ Mobbed(S) /\ T \in States /\ T.wild = S.wild
    BY DEF Holds, Left
  <1>2. /\ T.person[p] = w /\ T.pfile[p] = m /\ T.qfile[p] = f /\ Of(T, p) = None
        /\ \A r \in Players \ {p} :
              T.person[r] = S.person[r] /\ T.pfile[r] = S.pfile[r] /\ T.qfile[r] = S.qfile[r]
    BY <1>1, StateFields DEF Left, Of
  <1>3. ~ S.wild => PlayerFits(T, p, L)
    BY <1>2 DEF PlayerFits
  <1>4. CASE Of(S, p) = None
    <2>1. T.quest = S.quest /\ T.cast = S.cast
      BY <1>4, QuestsFacts DEF Left
    <2> QED BY <1>1, <1>2, <1>3, <1>4, <2>1, PlayerHolds
  <1>5. CASE Of(S, p) # None
    <2> DEFINE q == Of(S, p)
    <2>1. /\ q \in Quests /\ T.quest = [S.quest EXCEPT ![q] = Blank]
          /\ T.cast = [S.cast EXCEPT ![q] = @ \ S.quest[q].mobs]
      BY <1>5 DEF Left
    <2> HIDE DEF q
    <2>2. /\ T.quest[q] = Blank /\ T.cast[q] = S.cast[q] \ S.quest[q].mobs
          /\ \A r \in Quests \ {q} : T.quest[r] = S.quest[r] /\ T.cast[r] = S.cast[r]
      BY <1>1, <2>1, StateFields
    <2>3. Alike(S, T, p, q)
      BY <1>1, <1>2, <2>2 DEF Alike
    <2>4. Mobbed(T)
      BY <1>1, <1>2, <2>2, BlankFacts DEF Mobbed
    <2>5. ASSUME ~ S.wild PROVE Fits(T, L)
      <3>1. Fits(S, L) /\ S.quest[q].player = p /\ S.cast[q] = S.quest[q].mobs /\ q \notin L
        BY <1>5, <2>1, <2>5 DEF Holds, Fits, PlayerFits, QuestFits, q
      <3>2. QuestFits(T, q, L)
        BY <2>2, <3>1, BlankFacts DEF QuestFits
      <3> QED BY <1>1, <1>3, <2>1, <2>3, <2>5, <3>1, <3>2, FitsAfter DEF q
    <2> QED BY <1>1, <2>4, <2>5 DEF Holds
  <1> QED BY <1>4, <1>5

LEMMA SavedFields ==
  ASSUME NEW S \in States, NEW p \in Players
  PROVE  LET T == Saved(S, p) IN
         /\ T \in States /\ T.quest = S.quest /\ T.cast = S.cast /\ T.person = S.person
         /\ T.wild = S.wild
         /\ T.pfile = [S.pfile EXCEPT ![p] = S.person[p].merits]
         /\ T.qfile = [S.qfile EXCEPT ![p] = IF Of(S, p) = None THEN S.qfile[p]
                                             ELSE Written(S.quest[Of(S, p)])]
  <1> DEFINE f == IF Of(S, p) = None THEN S.qfile[p] ELSE Written(S.quest[Of(S, p)])
             T == Saved(S, p)
  <1>1. f \in File \cup {None}
    <2>1. Of(S, p) # None => S.quest[Of(S, p)] \in Quest
      BY StateFields, PersonFields
    <2> QED BY <2>1, WrittenFacts, PersonFields
  <1>2. T = [S EXCEPT !.pfile[p] = S.person[p].merits, !.qfile[p] = f]
    BY DEF Saved
  <1>3. S.person[p].merits \in Merits
    BY PersonFields
  <1> HIDE DEF f, T
  <1>4. /\ T \in States /\ T.quest = S.quest /\ T.cast = S.cast /\ T.person = S.person
        /\ T.wild = S.wild
        /\ T.pfile = [S.pfile EXCEPT ![p] = S.person[p].merits]
        /\ T.qfile = [S.qfile EXCEPT ![p] = f]
    BY <1>1, <1>2, <1>3 DEF States
  <1> QED BY <1>4 DEF T, f

LEMMA SavedHolds ==
  ASSUME NEW S, NEW L, Holds(S, L), NEW p \in Players, S.person[p].stage # "out"
  PROVE  Holds(Saved(S, p), L)
  <1>1. CASE Of(S, p) # None
    <2>1. Of(S, p) \in Quests
      BY <1>1, PersonFields DEF Holds
    <2> QED BY <2>1, ReadyWhen, SavedGoes, HoldsAfter
  <1>2. CASE Of(S, p) = None
    <2> DEFINE T == Saved(S, p)
    <2>1. S \in States /\ Mobbed(S)
      BY DEF Holds
    <2>2. /\ T \in States /\ T.quest = S.quest /\ T.cast = S.cast /\ T.person = S.person
          /\ T.wild = S.wild
          /\ T.pfile = [S.pfile EXCEPT ![p] = S.person[p].merits]
          /\ T.qfile = [S.qfile EXCEPT ![p] = S.qfile[p]]
      BY <1>2, <2>1, SavedFields
    <2> HIDE DEF T
    <2>3. /\ T.pfile[p] = S.person[p].merits /\ T.qfile[p] = S.qfile[p] /\ Of(T, p) = None
          /\ \A r \in Players \ {p} : T.pfile[r] = S.pfile[r] /\ T.qfile[r] = S.qfile[r]
      BY <1>2, <2>1, <2>2, StateFields DEF Of
    <2>4. S.qfile[p] # None => S.qfile[p].mobs \subseteq Cast
      BY <2>1 DEF Mobbed
    <2>5. ~ S.wild => PlayerFits(T, p, L)
      <3>1. ~ S.wild => PlayerFits(S, p, L)
        BY DEF Holds, Fits
      <3> QED BY <1>2, <2>2, <2>3, <3>1 DEF PlayerFits
    <2>6. \A r \in Players \ {p} :
             T.person[r] = S.person[r] /\ T.pfile[r] = S.pfile[r] /\ T.qfile[r] = S.qfile[r]
      BY <2>2, <2>3
    <2>7. T.qfile[p] # None => T.qfile[p].mobs \subseteq Cast
      BY <2>3, <2>4
    <2>8. T \in States /\ T.quest = S.quest /\ T.cast = S.cast /\ T.wild = S.wild /\ Of(T, p) = None
      BY <2>2, <2>3
    <2>9. Holds(T, L)
      BY <1>2, <2>5, <2>6, <2>7, <2>8, PlayerHolds
    <2> QED BY <2>9 DEF T
  <1> QED BY <1>1, <1>2

LEMMA CleanedAny ==
  ASSUME NEW S \in States, NEW p \in Players
  PROVE  LET T == Cleaned(S, p) IN
         /\ T \in States
         /\ \/ Of(S, p) = None /\ T.quest = S.quest /\ T.cast = S.cast
            \/ /\ Of(S, p) \in Quests
               /\ T.quest = [S.quest EXCEPT ![Of(S, p)] = Blank]
               /\ T.cast = [S.cast EXCEPT ![Of(S, p)] = @ \ S.quest[Of(S, p)].mobs]
         /\ T.person = [S.person EXCEPT ![p].inquest = None]
         /\ T.pfile = S.pfile /\ T.qfile = S.qfile /\ T.wild = S.wild
  <1>1. CASE Of(S, p) = None
    <2>1. Cleaned(S, p) = S
      BY <1>1 DEF Cleaned
    <2>2. S.person = [S.person EXCEPT ![p].inquest = None]
      <3>1. S.person[p] = [S.person[p] EXCEPT !.inquest = None]
        BY <1>1, PersonFields DEF Person, Of
      <3> QED BY <3>1, StateFields
    <2> QED BY <1>1, <2>1, <2>2
  <1>2. CASE Of(S, p) # None
    <2>1. Of(S, p) \in Quests
      BY <1>2, PersonFields
    <2> QED BY <2>1, CleanedFields
  <1> QED BY <1>1, <1>2

-----------------------------------------------------------------------------
(* Players. *)

LEMMA GiveUpKeeps ==
  ASSUME IInv, NEW p \in Players, GiveUp(p)
  PROVE  IInv'
  <1> DEFINE q == Of(World, p)
  <1>1. Holds(World, lost)
    BY HoldsNow
  <1>2. q \in Quests
    BY <1>1, PersonFields DEF GiveUp, Holds
  <1>3. Goes(World, Stopped(World, p, TRUE), p, q, lost)
    BY <1>1, <1>2, ReadyWhen, StoppedOn
  <1>4. Holds(Stopped(World, p, TRUE), lost)
    BY <1>1, <1>2, <1>3, HoldsAfter
  <1> QED BY <1>4, HoldsNow, HoldsNext DEF GiveUp

LEMMA StopKeeps ==
  ASSUME IInv, NEW p \in Players, Stop(p)
  PROVE  IInv'
  <1> DEFINE q == Of(World, p)
  <1>1. Holds(World, lost)
    BY HoldsNow
  <1>2. q \in Quests
    BY <1>1, PersonFields DEF Stop, Holds
  <1>3. Goes(World, Over(World, p), p, q, lost)
    <2>1. Ready(World, p, q, lost)
      BY <1>1, <1>2, ReadyWhen
    <2>2. /\ World \in States /\ Mobbed(World)
          /\ ~ World.wild => /\ Fair(World.person[p].merits) /\ q \notin lost
                             /\ World.cast[q] = World.quest[q].mobs
      BY <1>2, <2>1, ReadyFor
    <2> QED BY <1>2, <2>2, OverGoes
  <1>4. Holds(Over(World, p), lost)
    BY <1>1, <1>2, <1>3, HoldsAfter
  <1> QED BY <1>4, HoldsNow, HoldsNext DEF Stop

LEMMA SaveKeeps ==
  ASSUME IInv, NEW p \in Players, Save(p)
  PROVE  IInv'
  <1>1. Holds(Saved(World, p), lost)
    BY HoldsNow, SavedHolds, WorldFields DEF Save, In
  <1> QED BY <1>1, HoldsNow, HoldsNext DEF Save

\* What quits and dies alike: saved, then cleaned up
LEMMA SavedCleaned ==
  ASSUME NEW S, NEW L, Holds(S, L), NEW p \in Players, S.person[p].stage # "out"
  PROVE  \E f \in File \cup {None} :
            LET T == Cleaned(Saved(S, p), p) IN
            /\ T \in States
            /\ \/ Of(S, p) = None /\ T.quest = S.quest /\ T.cast = S.cast
               \/ /\ Of(S, p) \in Quests
                  /\ T.quest = [S.quest EXCEPT ![Of(S, p)] = Blank]
                  /\ T.cast = [S.cast EXCEPT ![Of(S, p)] = @ \ S.quest[Of(S, p)].mobs]
            /\ T.person = [S.person EXCEPT ![p].inquest = None]
            /\ T.pfile = [S.pfile EXCEPT ![p] = S.person[p].merits]
            /\ T.qfile = [S.qfile EXCEPT ![p] = f] /\ T.wild = S.wild
            /\ f # None => f.mobs \subseteq Cast
            /\ ~ S.wild => /\ Fair(S.person[p].merits) /\ Resumes(f)
                           /\ S.person[p].merits.done => f = None
  <1> DEFINE U == Saved(S, p)
             T == Cleaned(U, p)
             f == U.qfile[p]
  <1>1. S \in States /\ Mobbed(S)
    BY DEF Holds
  <1>2. /\ U \in States /\ U.quest = S.quest /\ U.cast = S.cast /\ U.person = S.person
        /\ U.wild = S.wild
        /\ U.pfile = [S.pfile EXCEPT ![p] = S.person[p].merits]
        /\ U.qfile = [S.qfile EXCEPT ![p] = IF Of(S, p) = None THEN S.qfile[p]
                                            ELSE Written(S.quest[Of(S, p)])]
    BY <1>1, SavedFields
  <1>3. Holds(U, L)
    BY SavedHolds
  <1> HIDE DEF U
  <1>4. /\ f \in File \cup {None} /\ Of(U, p) = Of(S, p)
        /\ U.pfile[p] = S.person[p].merits /\ U.qfile = [S.qfile EXCEPT ![p] = f]
    BY <1>1, <1>2, StateFields, PersonFields DEF Of
  <1>5. /\ T \in States
        /\ \/ Of(S, p) = None /\ T.quest = S.quest /\ T.cast = S.cast
           \/ /\ Of(S, p) \in Quests
              /\ T.quest = [S.quest EXCEPT ![Of(S, p)] = Blank]
              /\ T.cast = [S.cast EXCEPT ![Of(S, p)] = @ \ S.quest[Of(S, p)].mobs]
        /\ T.person = [S.person EXCEPT ![p].inquest = None]
        /\ T.pfile = U.pfile /\ T.qfile = U.qfile /\ T.wild = U.wild
    <2>1. /\ T \in States
          /\ \/ Of(U, p) = None /\ T.quest = U.quest /\ T.cast = U.cast
             \/ /\ Of(U, p) \in Quests
                /\ T.quest = [U.quest EXCEPT ![Of(U, p)] = Blank]
                /\ T.cast = [U.cast EXCEPT ![Of(U, p)] = @ \ U.quest[Of(U, p)].mobs]
          /\ T.person = [U.person EXCEPT ![p].inquest = None]
          /\ T.pfile = U.pfile /\ T.qfile = U.qfile /\ T.wild = U.wild
      BY <1>2, CleanedAny
    <2> HIDE DEF T
    <2> QED BY <2>1, <1>2, <1>4
  <1>6. f # None => f.mobs \subseteq Cast
    BY <1>3 DEF Holds, Mobbed
  <1>7. ~ S.wild => PlayerFits(U, p, L)
    BY <1>2, <1>3 DEF Holds, Fits
  <1>8. ~ S.wild => /\ Fair(S.person[p].merits) /\ Resumes(f)
                    /\ S.person[p].merits.done => f = None
    BY <1>2, <1>4, <1>7 DEF PlayerFits
  <1> HIDE DEF T, f
  <1> QED BY <1>2, <1>4, <1>5, <1>6, <1>8 DEF T, U

LEMMA QuitKeeps ==
  ASSUME IInv, NEW p \in Players, Quit(p)
  PROVE  IInv'
  <1> DEFINE S == Cleaned(Saved(World, p), p)
             T == [S EXCEPT !.person[p].stage = "out"]
             m == World.person[p].merits
  <1>1. Holds(World, lost) /\ World \in States /\ World.person[p].stage # "out"
    BY HoldsNow, WorldFields DEF Quit, In, Holds
  <1>2. PICK f \in File \cup {None} :
          /\ S \in States
          /\ \/ Of(World, p) = None /\ S.quest = World.quest /\ S.cast = World.cast
             \/ /\ Of(World, p) \in Quests
                /\ S.quest = [World.quest EXCEPT ![Of(World, p)] = Blank]
                /\ S.cast = [World.cast EXCEPT ![Of(World, p)] = @ \ World.quest[Of(World, p)].mobs]
          /\ S.person = [World.person EXCEPT ![p].inquest = None]
          /\ S.pfile = [World.pfile EXCEPT ![p] = World.person[p].merits]
          /\ S.qfile = [World.qfile EXCEPT ![p] = f] /\ S.wild = World.wild
          /\ f # None => f.mobs \subseteq Cast
          /\ ~ World.wild => /\ Fair(World.person[p].merits) /\ Resumes(f)
                             /\ World.person[p].merits.done => f = None
    BY <1>1, SavedCleaned
  <1> HIDE DEF S
  <1> DEFINE w == [World.person[p] EXCEPT !.inquest = None, !.stage = "out"]
  <1>3. w \in Person /\ w.stage = "out" /\ w.inquest = None /\ w.merits = m
    BY <1>1, PersonFields DEF Person
  <1>4. /\ T.quest = S.quest /\ T.cast = S.cast /\ T.pfile = S.pfile /\ T.qfile = S.qfile
        /\ T.wild = S.wild /\ T.person = [S.person EXCEPT ![p].stage = "out"]
        /\ T = [quest |-> T.quest, cast |-> T.cast, person |-> T.person,
                pfile |-> T.pfile, qfile |-> T.qfile, wild |-> T.wild]
    BY <1>2 DEF States
  <1> HIDE DEF T
  <1>5. T.person = [World.person EXCEPT ![p] = w]
    <2>1. S.person[p] = [World.person[p] EXCEPT !.inquest = None]
      BY <1>1, <1>2, StateFields
    <2>2. [S.person[p] EXCEPT !.stage = "out"] = w
      BY <1>1, <2>1, PersonFields DEF Person
    <2> HIDE DEF w
    <2> QED BY <1>1, <1>2, <1>4, <2>2, StateFields
  <1> HIDE DEF w
  <1>6. T \in States
    <2>1. T.person \in [Players -> Person]
      BY <1>1, <1>3, <1>5, StateFields
    <2> QED BY <1>2, <1>4, <2>1, StateFields DEF States
  <1>7. Left(World, T, p, w, m, f)
    BY <1>2, <1>4, <1>5, <1>6 DEF Left
  <1>8. Holds(T, lost)
    BY <1>1, <1>2, <1>3, <1>7, LeftHolds
  <1> QED BY <1>8, HoldsNow, HoldsNext DEF Quit, T, S

LEMMA DieKeeps ==
  ASSUME IInv, NEW p \in Players, Die(p)
  PROVE  IInv'
  <1> DEFINE C == Cleaned(Saved(World, p), p)
             S == Unlinked(C, p)
             o == Of(World, p)
  <1>1. Holds(World, lost) /\ World \in States /\ World.person[p].stage # "out"
    BY HoldsNow, WorldFields DEF Die, In, Holds
  <1>2. PICK g \in File \cup {None} :
          /\ C \in States
          /\ \/ o = None /\ C.quest = World.quest /\ C.cast = World.cast
             \/ /\ o \in Quests
                /\ C.quest = [World.quest EXCEPT ![o] = Blank]
                /\ C.cast = [World.cast EXCEPT ![o] = @ \ World.quest[o].mobs]
          /\ C.person = [World.person EXCEPT ![p].inquest = None]
          /\ C.pfile = [World.pfile EXCEPT ![p] = World.person[p].merits]
          /\ C.qfile = [World.qfile EXCEPT ![p] = g] /\ C.wild = World.wild
          /\ ~ World.wild => Fair(World.person[p].merits)
    BY <1>1, SavedCleaned
  <1> HIDE DEF C
  <1>3. /\ S.quest = C.quest /\ S.cast = C.cast /\ S.person = C.person /\ S.pfile = C.pfile
        /\ S.qfile = [C.qfile EXCEPT ![p] = None] /\ S.wild = C.wild /\ S \in States
    BY <1>2 DEF States, Unlinked
  <1>4. PICK m \in {Newcomer, pfile[p]} : Becomes([S EXCEPT !.person[p].stage = "out", !.pfile[p] = m])
    BY DEF Die, S, C
  <1> HIDE DEF S
  <1> DEFINE T == [S EXCEPT !.person[p].stage = "out", !.pfile[p] = m]
             w == [World.person[p] EXCEPT !.inquest = None, !.stage = "out"]
  <1>5. m \in Merits /\ (~ World.wild => Fair(m))
    <2>1. Newcomer \in Merits /\ Fair(Newcomer)
      BY BlankFacts DEF Fair
    <2>2. pfile[p] \in Merits /\ (~ World.wild => Fair(pfile[p]))
      BY <1>1, PersonFields, WorldFields DEF Holds, Fits, PlayerFits
    <2> QED BY <1>4, <2>1, <2>2
  <1>6. w \in Person /\ w.stage = "out" /\ w.inquest = None /\ w.merits = World.person[p].merits
    BY <1>1, PersonFields DEF Person
  <1>7. /\ T.quest = S.quest /\ T.cast = S.cast /\ T.pfile = [S.pfile EXCEPT ![p] = m]
        /\ T.qfile = S.qfile /\ T.wild = S.wild
        /\ T.person = [S.person EXCEPT ![p].stage = "out"]
        /\ T = [quest |-> T.quest, cast |-> T.cast, person |-> T.person,
                pfile |-> T.pfile, qfile |-> T.qfile, wild |-> T.wild]
    <2> DEFINE U == [S EXCEPT !.person[p].stage = "out"]
    <2>1. /\ U.quest = S.quest /\ U.cast = S.cast /\ U.pfile = S.pfile
          /\ U.qfile = S.qfile /\ U.wild = S.wild
          /\ U.person = [S.person EXCEPT ![p].stage = "out"]
          /\ U = [quest |-> U.quest, cast |-> U.cast, person |-> U.person,
                  pfile |-> U.pfile, qfile |-> U.qfile, wild |-> U.wild]
      BY <1>3 DEF States
    <2>2. T = [U EXCEPT !.pfile[p] = m]
      OBVIOUS
    <2> HIDE DEF U, T
    <2> QED BY <2>1, <2>2
  <1> HIDE DEF T
  <1>8. T.person = [World.person EXCEPT ![p] = w]
    <2>1. S.person = [World.person EXCEPT ![p].inquest = None]
      BY <1>2, <1>3
    <2>2. S.person[p] = [World.person[p] EXCEPT !.inquest = None]
      BY <1>1, <2>1, StateFields
    <2>3. [S.person[p] EXCEPT !.stage = "out"] = w
      BY <1>1, <2>2, PersonFields DEF Person
    <2> HIDE DEF w
    <2> QED BY <1>1, <1>7, <2>1, <2>3, StateFields
  <1> HIDE DEF w
  <1>9. T \in States
    <2>1. T.person \in [Players -> Person]
      BY <1>1, <1>6, <1>8, StateFields
    <2>2. T.pfile \in [Players -> Merits]
      BY <1>3, <1>5, <1>7, StateFields
    <2> QED BY <1>3, <1>7, <2>1, <2>2, StateFields DEF States
  <1>10. T.pfile = [World.pfile EXCEPT ![p] = m] /\ T.qfile = [World.qfile EXCEPT ![p] = None]
    BY <1>1, <1>2, <1>3, <1>7, StateFields
  <1>11. Left(World, T, p, w, m, None)
    BY <1>2, <1>3, <1>7, <1>8, <1>9, <1>10 DEF Left
  <1>12. Resumes(None)
    BY DEF Resumes
  <1>13. Holds(T, lost)
    BY <1>1, <1>2, <1>5, <1>6, <1>11, <1>12, LeftHolds
  <1> QED BY <1>4, <1>13, HoldsNow, HoldsNext DEF Die, T

\* Another stage or place
LEMMA PersonPut ==
  ASSUME NEW S \in States, NEW p \in Players, NEW w \in Person
  PROVE  LET T == [S EXCEPT !.person[p] = w] IN
         /\ T \in States /\ T.quest = S.quest /\ T.cast = S.cast /\ T.pfile = S.pfile
         /\ T.qfile = S.qfile /\ T.wild = S.wild /\ T.person = [S.person EXCEPT ![p] = w]
         /\ T.person[p] = w /\ \A r \in Players \ {p} : T.person[r] = S.person[r]
  <1> DEFINE T == [S EXCEPT !.person[p] = w]
  <1>1. /\ T.quest = S.quest /\ T.cast = S.cast /\ T.pfile = S.pfile
        /\ T.qfile = S.qfile /\ T.wild = S.wild /\ T.person = [S.person EXCEPT ![p] = w]
        /\ T = [quest |-> T.quest, cast |-> T.cast, person |-> T.person,
                pfile |-> T.pfile, qfile |-> T.qfile, wild |-> T.wild]
    BY DEF States
  <1> HIDE DEF T
  <1>2. T.person \in [Players -> Person]
    BY <1>1, StateFields
  <1>3. T \in States
    BY <1>1, <1>2, StateFields DEF States
  <1>4. T.person[p] = w /\ \A r \in Players \ {p} : T.person[r] = S.person[r]
    BY <1>1, StateFields
  <1> QED BY <1>1, <1>3, <1>4 DEF T

LEMMA PersonHolds ==
  ASSUME NEW S, NEW L, Holds(S, L), NEW p \in Players, NEW w \in Person,
         w.inquest = S.person[p].inquest, w.merits = S.person[p].merits,
         w.stage = "out" <=> S.person[p].stage = "out"
  PROVE  Holds([S EXCEPT !.person[p] = w], L)
  <1> DEFINE T == [S EXCEPT !.person[p] = w]
  <1>1. /\ T \in States /\ T.quest = S.quest /\ T.cast = S.cast /\ T.pfile = S.pfile
        /\ T.qfile = S.qfile /\ T.wild = S.wild
        /\ T.person[p] = w /\ \A r \in Players \ {p} : T.person[r] = S.person[r]
    BY PersonPut DEF Holds
  <1> HIDE DEF T
  <1>2. \A r \in Players : /\ Of(T, r) = Of(S, r) /\ T.person[r].merits = S.person[r].merits
                           /\ T.person[r].stage = "out" <=> S.person[r].stage = "out"
    BY <1>1 DEF Of
  <1>3. Holds(T, L)
    BY <1>1, <1>2, StageHolds
  <1> QED BY <1>3 DEF T

LEMMA WalkKeeps ==
  ASSUME IInv, NEW p \in Players, NEW place \in Places, NEW kept \in BOOLEAN, Walk(p, place, kept)
  PROVE  IInv'
  <1> DEFINE w == [World.person[p] EXCEPT !.at = place]
             S == [World EXCEPT !.person[p] = w]
             met == IF place = Home /\ ~ questor THEN Away ELSE place
             T == Triggered(S, p, None, kept)
             U == Triggered(T, p, met, kept)
             V == Triggered(U, p, None, kept)
  <1>1. Holds(World, lost) /\ World \in States
    BY HoldsNow DEF Holds
  <1>2. /\ w \in Person /\ w.inquest = World.person[p].inquest /\ w.merits = World.person[p].merits
        /\ w.stage = World.person[p].stage
    BY <1>1, PersonFields DEF Person
  <1>3. [World EXCEPT !.person[p].at = place] = S
    OBVIOUS
  <1> HIDE DEF w
  <1>4. Holds(S, lost)
    BY <1>1, <1>2, PersonHolds
  <1>5. Becomes(V)
    BY <1>3 DEF Walk
  <1> HIDE DEF S
  <1>6. Holds(T, lost)
    BY <1>4, TriggeredHolds
  <1> HIDE DEF T
  <1>7. Holds(U, lost)
    BY <1>6, TriggeredHolds
  <1> HIDE DEF U
  <1>8. Holds(V, lost)
    BY <1>7, TriggeredHolds
  <1> HIDE DEF V
  <1> QED BY <1>5, <1>8, HoldsNow, HoldsNext DEF Walk

LEMMA DoKeeps ==
  ASSUME IInv, NEW p \in Players, NEW d, NEW kept \in BOOLEAN, Do(p, d, kept)
  PROVE  IInv'
  <1>1. Holds(Triggered(World, p, d, kept), lost)
    BY HoldsNow, TriggeredHolds
  <1> QED BY <1>1, HoldsNow, HoldsNext DEF Do

LEMMA ExtractedHolds ==
  ASSUME NEW S, NEW L, Holds(S, L), NEW q \in Quests, NEW c
  PROVE  Holds(Extracted(S, q, c), L)
  <1> DEFINE x == [S.quest[q] EXCEPT !.mobs = @ \ {c}]
             k == S.cast[q] \ {c}
             T == [S EXCEPT !.quest[q] = x, !.cast[q] = k]
  <1>1. S \in States /\ Mobbed(S) /\ S.quest[q] \in Quest /\ S.cast[q] \in SUBSET Cast
    BY StateFields DEF Holds
  <1>2. /\ x \in Quest /\ x.player = S.quest[q].player /\ x.mobs = S.quest[q].mobs \ {c}
        /\ x.finished = S.quest[q].finished /\ x.curr = S.quest[q].curr
        /\ x.done = S.quest[q].done /\ x.left = S.quest[q].left /\ x.bare = S.quest[q].bare
    BY <1>1 DEF Quest
  <1>3. Extracted(S, q, c) = T
    BY <1>1 DEF Extracted, States
  <1> HIDE DEF x
  <1>4. Put(S, T, q, x, k)
    BY <1>1, <1>2, PutBoth
  <1> HIDE DEF T
  <1>5. x.mobs \subseteq Cast /\ (Going(S.quest[q]) => Going(x))
    BY <1>1, <1>2 DEF Mobbed, Going
  <1>6. ~ S.wild => k = x.mobs /\ (x.player = None => x.mobs = {})
    BY <1>2 DEF Holds, Fits, QuestFits
  <1> QED BY <1>1, <1>2, <1>3, <1>4, <1>5, <1>6, QuestHolds

LEMMA KillKeeps ==
  ASSUME IInv, NEW p \in Players, NEW c \in Cast, NEW kept \in BOOLEAN, Kill(p, c, kept)
  PROVE  IInv'
  <1> DEFINE q == Of(World, p)
             T == Triggered(World, p, Slain[c], kept)
  <1>1. Holds(World, lost) /\ q \in Quests
    BY HoldsNow, PersonFields DEF Kill, Holds
  <1>2. Holds(T, lost)
    BY <1>1, TriggeredHolds
  <1>3. Becomes(Extracted(T, q, c))
    BY DEF Kill
  <1> HIDE DEF T
  <1>4. Holds(Extracted(T, q, c), lost)
    BY <1>1, <1>2, ExtractedHolds
  <1> QED BY <1>3, <1>4, HoldsNow, HoldsNext DEF Kill

LEMMA MobDiesKeeps ==
  ASSUME IInv, NEW q \in Quests, NEW c \in Cast, MobDies(q, c)
  PROVE  IInv'
  <1>1. Holds(Extracted(World, q, c), lost)
    BY HoldsNow, ExtractedHolds
  <1> QED BY <1>1, HoldsNow, HoldsNext DEF MobDies

\* World' field by field
LEMMA WorldNext ==
  /\ World'.quest = quest' /\ World'.cast = cast' /\ World'.person = person'
  /\ World'.pfile = pfile' /\ World'.qfile = qfile' /\ World'.wild = wild'
  /\ World' \in States <=>
        /\ quest' \in [Quests -> Quest] /\ cast' \in [Quests -> SUBSET Cast]
        /\ person' \in [Players -> Person] /\ pfile' \in [Players -> Merits]
        /\ qfile' \in [Players -> File \cup {None}] /\ wild' \in BOOLEAN
  BY DEF World, States

LEMMA EnterKeeps ==
  ASSUME IInv, NEW p \in Players, Enter(p)
  PROVE  IInv'
  <1> DEFINE w == [World.person[p] EXCEPT !.stage = "in"]
             T == [World EXCEPT !.person[p] = w]
  <1>1. Holds(World, lost) /\ World \in States
    BY HoldsNow DEF Holds
  <1>2. /\ w \in Person /\ w.inquest = World.person[p].inquest /\ w.merits = World.person[p].merits
        /\ w.stage # "out" /\ World.person[p].stage # "out"
    BY <1>1, PersonFields, WorldFields DEF Person, Enter
  <1>3. person' = [person EXCEPT ![p] = w]
    BY WorldFields DEF Enter
  <1> HIDE DEF w
  <1>4. Holds(T, lost)
    BY <1>1, <1>2, PersonHolds
  <1>5. /\ T.quest = quest /\ T.cast = cast /\ T.pfile = pfile /\ T.qfile = qfile /\ T.wild = wild
        /\ T.person = [person EXCEPT ![p] = w]
    BY <1>1, <1>2, PersonPut, WorldFields
  <1> HIDE DEF T
  <1>6. Becomes(T)
    BY <1>3, <1>5 DEF Becomes, Enter
  <1> QED BY <1>4, <1>6, HoldsNow, HoldsNext DEF Enter

\* The quest of who hangs up is lost: nothing leads to it any more.
LEMMA HangUpKeeps ==
  ASSUME IInv, NEW p \in Players, HangUp(p)
  PROVE  IInv'
  <1> DEFINE o == Of(World, p)
             w == [person[p] EXCEPT !.stage = "out", !.inquest = None]
             S == World
  <1>1. Holds(S, lost) /\ S \in States /\ lost \subseteq Quests /\ questor \in BOOLEAN
    BY HoldsNow DEF Holds
  <1>2. /\ S.quest = quest /\ S.cast = cast /\ S.person = person
        /\ S.pfile = pfile /\ S.qfile = qfile /\ S.wild = wild
    BY WorldFields
  <1>3. o \in Quests \cup {None} /\ person[p].inquest = o /\ person \in [Players -> Person]
    BY <1>1, <1>2, PersonFields, StateFields
  <1>4. w \in Person /\ w.stage = "out" /\ w.inquest = None /\ w.merits = person[p].merits
    BY <1>3 DEF Person
  <1>5. person' = [person EXCEPT ![p] = w]
    BY <1>3 DEF HangUp, Person
  <1> HIDE DEF w
  <1>6. lost' = lost \cup ({o} \ {None}) /\ person[p].stage = "login"
    BY DEF HangUp
  <1> DEFINE T == World'
  <1>7. /\ T.quest = quest /\ T.cast = cast /\ T.person = [person EXCEPT ![p] = w]
        /\ T.pfile = pfile /\ T.qfile = qfile /\ T.wild = wild
    BY <1>5, WorldNext DEF HangUp
  <1>8. T \in States
    BY <1>1, <1>2, <1>4, <1>5, StateFields, WorldNext DEF HangUp
  <1> HIDE DEF T, S
  <1>9. /\ T.person[p] = w /\ Of(T, p) = None
        /\ \A r \in Players : r # p => T.person[r] = S.person[r] /\ Of(T, r) = Of(S, r)
    BY <1>2, <1>3, <1>4, <1>7 DEF Of
  <1>10. Mobbed(T)
    BY <1>1, <1>2, <1>7 DEF Holds, Mobbed
  <1>11. ASSUME ~ S.wild PROVE Fits(T, lost')
    <2>1. Fits(S, lost)
      BY <1>1, <1>11 DEF Holds
    <2>2. o # None => S.quest[o].player = p
      BY <2>1 DEF Fits, PlayerFits, S
    <2>3. ASSUME NEW r \in Players PROVE PlayerFits(T, r, lost')
      <3>1. PlayerFits(S, r, lost) /\ Of(S, r) \in Quests \cup {None} /\ r # None
        BY <1>1, <2>1, PersonFields, QuestsFacts DEF Fits
      <3>2. CASE r = p
        BY <1>2, <1>4, <1>7, <1>9, <3>1, <3>2 DEF PlayerFits
      <3>3. CASE r # p
        <4>1. Of(S, r) # None => Of(S, r) \notin lost'
          BY <1>6, <2>2, <3>1, <3>3 DEF PlayerFits
        <4> QED BY <1>2, <1>7, <1>9, <3>1, <3>3, <4>1 DEF PlayerFits
      <3> QED BY <3>2, <3>3
    <2>4. ASSUME NEW r \in Quests PROVE QuestFits(T, r, lost')
      <3>1. QuestFits(S, r, lost) /\ S.quest[r].player \in Players \cup {None} /\ r # None
        BY <1>1, <2>1, StateFields, QuestFields, QuestsFacts DEF Fits
      <3>2. r \notin lost' => r \notin lost /\ r # o
        BY <1>6, <3>1
      <3>3. S.quest[r].player # None /\ r \notin lost' => S.quest[r].player # p
        BY <3>1, <3>2 DEF QuestFits, S
      <3>4. S.quest[r].player # None /\ r \notin lost' =>
               /\ Of(T, S.quest[r].player) = r
               /\ T.person[S.quest[r].player].stage # "out"
        BY <1>9, <3>1, <3>2, <3>3 DEF QuestFits
      <3>5. S.quest[r].player = None => r \notin lost'
        BY <1>6, <2>2, <3>1, QuestsFacts DEF QuestFits
      <3> QED BY <1>2, <1>7, <3>1, <3>4, <3>5 DEF QuestFits
    <2> QED BY <2>3, <2>4 DEF Fits
  <1>12. lost' \subseteq Quests /\ questor' \in BOOLEAN
    BY <1>1, <1>3, <1>6 DEF HangUp
  <1>13. S.wild = wild /\ wild' = wild
    BY <1>2 DEF HangUp
  <1> QED BY <1>8, <1>10, <1>11, <1>12, <1>13 DEF IInv, T

-----------------------------------------------------------------------------
(* The world. *)

LEMMA QuestorBackKeeps ==
  ASSUME IInv, QuestorBack
  PROVE  IInv'
  <1>1. Becomes(World)
    BY WorldFields DEF Becomes, QuestorBack
  <1> QED BY <1>1, HoldsNow, HoldsNext DEF QuestorBack

LEMMA QuestorDiesKeeps ==
  ASSUME IInv, QuestorDies
  PROVE  IInv'
  <1> DEFINE S == World
             T == World'
  <1>1. Holds(S, lost) /\ S \in States /\ Mobbed(S) /\ lost \subseteq Quests
    BY HoldsNow DEF Holds
  <1>2. /\ S.quest = quest /\ S.cast = cast /\ S.person = person
        /\ S.pfile = pfile /\ S.qfile = qfile /\ S.wild = wild
    BY WorldFields
  <1>3. /\ T.quest = quest' /\ T.cast = cast /\ T.person = person
        /\ T.pfile = pfile /\ T.qfile = qfile /\ T.wild = wild
    BY WorldNext DEF QuestorDies
  <1>4. ASSUME NEW q \in Quests
        PROVE  /\ quest'[q] \in Quest /\ quest'[q].player = quest[q].player
               /\ quest'[q].mobs = quest[q].mobs /\ (Going(quest[q]) => Going(quest'[q]))
    <2> DEFINE y == quest[q]
               x == [y EXCEPT !.giver = IF y.giver = "there" THEN "freed" ELSE y.giver]
    <2>1. y \in Quest
      BY <1>1, <1>2, StateFields
    <2>2. quest'[q] = x
      BY DEF QuestorDies
    <2> HIDE DEF y
    <2>3. /\ x \in Quest /\ x.player = y.player /\ x.mobs = y.mobs /\ x.finished = y.finished
          /\ x.curr = y.curr /\ x.done = y.done /\ x.left = y.left /\ x.bare = y.bare
      BY <2>1 DEF Quest
    <2> HIDE DEF x
    <2>4. Going(y) => Going(x)
      BY <2>3 DEF Going
    <2> QED BY <2>2, <2>3, <2>4 DEF y
  <1>5. quest' \in [Quests -> Quest]
    <2>1. quest' = [q \in Quests |-> quest'[q]]
      BY DEF QuestorDies
    <2> QED BY <1>4, <2>1
  <1>6. T \in States
    BY <1>1, <1>2, <1>5, StateFields, WorldNext DEF QuestorDies
  <1> HIDE DEF S, T
  <1>7. Mobbed(T) /\ \A r : Of(T, r) = Of(S, r)
    BY <1>1, <1>2, <1>3, <1>4 DEF Mobbed, Of
  <1>8. ASSUME ~ S.wild PROVE Fits(T, lost)
    <2>1. Fits(S, lost)
      BY <1>1, <1>8 DEF Holds
    <2>2. ASSUME NEW r \in Players PROVE PlayerFits(T, r, lost)
      <3>1. PlayerFits(S, r, lost) /\ Of(S, r) \in Quests \cup {None}
        BY <1>1, <2>1, PersonFields DEF Fits
      <3> QED BY <1>2, <1>3, <1>4, <1>7, <3>1 DEF PlayerFits
    <2>3. ASSUME NEW r \in Quests PROVE QuestFits(T, r, lost)
      <3>1. QuestFits(S, r, lost)
        BY <2>1 DEF Fits
      <3> QED BY <1>2, <1>3, <1>4, <1>7, <3>1 DEF QuestFits
    <2> QED BY <2>2, <2>3 DEF Fits
  <1>9. lost' = lost /\ wild' = wild /\ questor' \in BOOLEAN /\ S.wild = wild
    BY <1>2 DEF QuestorDies
  <1> QED BY <1>1, <1>6, <1>7, <1>8, <1>9 DEF IInv, T

\* After a crash everything depends on the files.
LEMMA RestartedKeeps ==
  ASSUME IInv, ~ wild, Restarted,
         pfile' \in [Players -> Merits], qfile' \in [Players -> File \cup {None}],
         \A p \in Players : /\ Fair(pfile'[p]) /\ Resumes(qfile'[p])
                            /\ pfile'[p].done => qfile'[p] = None
                            /\ qfile'[p] # None => qfile'[p].mobs \subseteq Cast
  PROVE  IInv'
  <1> DEFINE T == World'
  <1>1. Holds(World, lost) /\ World \in States /\ Fits(World, lost)
    BY HoldsNow, WorldFields DEF Holds
  <1>2. PICK at \in [Players -> Places] :
           person' = [p \in Players |-> [person[p] EXCEPT !.stage = "out", !.at = at[p],
                                                         !.inquest = None]]
    BY DEF Restarted
  <1>3. ASSUME NEW p \in Players
        PROVE  /\ person'[p] \in Person /\ person'[p].stage = "out" /\ person'[p].inquest = None
               /\ Fair(person'[p].merits)
    <2>1. person[p] \in Person /\ Fair(person[p].merits)
      BY <1>1, PersonFields, WorldFields DEF Fits, PlayerFits
    <2>2. person'[p] = [person[p] EXCEPT !.stage = "out", !.at = at[p], !.inquest = None]
      BY <1>2
    <2>3. at[p] \in Places
      OBVIOUS
    <2> QED BY <2>1, <2>2, <2>3 DEF Person
  <1>4. person' \in [Players -> Person]
    <2>1. person' = [p \in Players |-> person'[p]]
      BY <1>2
    <2> QED BY <1>3, <2>1
  <1>5. /\ quest' = [q \in Quests |-> Blank] /\ cast' = [q \in Quests |-> {}]
        /\ questor' = TRUE /\ lost' = {} /\ wild' = FALSE
    BY DEF Restarted
  <1>6. quest' \in [Quests -> Quest] /\ cast' \in [Quests -> SUBSET Cast]
    BY <1>5, BlankFacts
  <1>7. T \in States
    BY <1>4, <1>5, <1>6, WorldNext
  <1>8. /\ T.quest = quest' /\ T.cast = cast' /\ T.person = person'
        /\ T.pfile = pfile' /\ T.qfile = qfile'
    BY WorldNext
  <1> HIDE DEF T
  <1>9. Mobbed(T)
    BY <1>5, <1>8, BlankFacts DEF Mobbed
  <1>10. ASSUME NEW p \in Players PROVE PlayerFits(T, p, {})
    BY <1>3, <1>8 DEF PlayerFits, Of
  <1>11. ASSUME NEW q \in Quests PROVE QuestFits(T, q, {})
    BY <1>5, <1>8, BlankFacts DEF QuestFits
  <1> QED BY <1>5, <1>7, <1>9, <1>10, <1>11 DEF IInv, Fits, T

LEMMA CrashKeeps ==
  ASSUME IInv, ~ wild, Crash
  PROVE  IInv'
  <1>1. World \in States /\ Mobbed(World) /\ Fits(World, lost)
    BY HoldsNow, WorldFields DEF Holds
  <1>2. pfile' = pfile /\ qfile' = qfile
    BY DEF Crash
  <1>3. \A p \in Players : /\ Fair(pfile[p]) /\ Resumes(qfile[p])
                           /\ pfile[p].done => qfile[p] = None
                           /\ qfile[p] # None => qfile[p].mobs \subseteq Cast
    BY <1>1, WorldFields DEF Fits, PlayerFits, Mobbed
  <1>4. pfile \in [Players -> Merits] /\ qfile \in [Players -> File \cup {None}]
    BY <1>1, StateFields, WorldFields
  <1> QED BY <1>2, <1>3, <1>4, RestartedKeeps DEF Crash

LEMMA PayCrashKeeps ==
  ASSUME IInv, ~ wild, NEW p \in Players, PayCrash(p)
  PROVE  IInv'
  <1> DEFINE P == Paid(World, p)
             C == Cleaned(P, p)
             T == Unlinked(C, p)
  <1>1. World \in States /\ Mobbed(World) /\ Fits(World, lost)
    BY HoldsNow, WorldFields DEF Holds
  <1>2. PICK m \in Merits : /\ P = [World EXCEPT !.person[p].merits = m]
                            /\ m.done = TRUE /\ m.paid <= World.person[p].merits.paid + 1
    BY <1>1, PaidFacts
  <1>3. P \in States /\ P.pfile = pfile /\ P.qfile = qfile
    <2> HIDE DEF P
    <2> QED BY <1>1, <1>2, MeritsPut, WorldFields
  <1>4. qfile' = T.qfile /\ pfile' = T.pfile
    BY DEF PayCrash, Ending
  <1> HIDE DEF P
  <1>5. C \in States /\ C.pfile = pfile /\ C.qfile = qfile
    BY <1>3, CleanedAny
  <1> HIDE DEF C
  <1>6. T.qfile = [qfile EXCEPT ![p] = None] /\ T.pfile = pfile
    BY <1>5 DEF Unlinked, States
  <1>7. pfile \in [Players -> Merits] /\ qfile \in [Players -> File \cup {None}]
    BY <1>1, StateFields, WorldFields
  <1>8. ASSUME NEW r \in Players
        PROVE  /\ Fair(pfile[r]) /\ Resumes(qfile[r]) /\ (pfile[r].done => qfile[r] = None)
               /\ qfile[r] # None => qfile[r].mobs \subseteq Cast
    BY <1>1, WorldFields DEF Fits, PlayerFits, Mobbed
  <1> HIDE DEF T
  <1>9. pfile' = pfile /\ qfile' \in [Players -> File \cup {None}]
        /\ \A r \in Players : qfile'[r] = IF r = p THEN None ELSE qfile[r]
    BY <1>4, <1>6, <1>7
  <1>10. Resumes(None)
    BY DEF Resumes
  <1>11. \A r \in Players : /\ Fair(pfile'[r]) /\ Resumes(qfile'[r])
                            /\ pfile'[r].done => qfile'[r] = None
                            /\ qfile'[r] # None => qfile'[r].mobs \subseteq Cast
    BY <1>8, <1>9, <1>10
  <1> QED BY <1>7, <1>9, <1>11, RestartedKeeps DEF PayCrash

LEMMA SaveCrashKeeps ==
  ASSUME IInv, ~ wild, NEW p \in Players, SaveCrash(p)
  PROVE  IInv'
  <1> DEFINE q == Of(World, p)
             f == Written(quest[q])
  <1>1. World \in States /\ Mobbed(World) /\ Fits(World, lost) /\ Holds(World, lost)
    BY HoldsNow, WorldFields DEF Holds
  <1>2. q \in Quests
    BY <1>1, PersonFields DEF SaveCrash
  <1>3. /\ quest[q] \in Quest /\ Going(quest[q]) /\ Fair(person[p].merits) /\ ~ person[p].merits.done
        /\ quest[q].mobs \subseteq Cast
    <2>1. Ready(World, p, q, lost)
      BY <1>1, <1>2, ReadyWhen
    <2>2. ~ World.wild => /\ Fair(World.person[p].merits) /\ ~ World.person[p].merits.done
                          /\ Going(World.quest[q])
      BY <1>2, <2>1, ReadyFor
    <2> QED BY <1>1, <1>2, <2>2, StateFields, WorldFields DEF Mobbed
  <1>4. f \in File /\ f.mobs = quest[q].mobs /\ Comes(f)
    BY <1>3, WrittenFacts
  <1>5. pfile' = [pfile EXCEPT ![p] = person[p].merits]
    BY <1>1, SavedFields, WorldFields DEF SaveCrash
  <1>6. PICK g \in {qfile[p], None} \cup {[f EXCEPT !.mobs = m] : m \in SUBSET f.mobs} :
           qfile' = [qfile EXCEPT ![p] = g]
    BY DEF SaveCrash
  <1> HIDE DEF f
  <1>7. pfile \in [Players -> Merits] /\ qfile \in [Players -> File \cup {None}]
        /\ person[p].merits \in Merits
    BY <1>1, StateFields, PersonFields, WorldFields
  <1>8. ASSUME NEW r \in Players
        PROVE  /\ Fair(pfile[r]) /\ Resumes(qfile[r]) /\ (pfile[r].done => qfile[r] = None)
               /\ qfile[r] # None => qfile[r].mobs \subseteq Cast
    BY <1>1, WorldFields DEF Fits, PlayerFits, Mobbed
  <1>9. g \in File \cup {None} /\ Resumes(g) /\ (g # None => g.mobs \subseteq Cast)
    <2>1. CASE g = qfile[p]
      BY <2>1, <1>7, <1>8
    <2>2. CASE g = None
      BY <2>2 DEF Resumes
    <2>3. CASE g \in {[f EXCEPT !.mobs = m] : m \in SUBSET f.mobs}
      <3>1. PICK m \in SUBSET f.mobs : g = [f EXCEPT !.mobs = m]
        BY <2>3
      <3>2. m \subseteq Chapters /\ m \subseteq Cast
        BY <1>3, <1>4, QuestFields, QuestsFacts
      <3>3. g \in File /\ g.curr = f.curr /\ g.todo = f.todo /\ g.left = f.left /\ g.mobs = m
        BY <1>4, <3>1, <3>2 DEF File
      <3>4. Resumes(g)
        BY <1>4, <3>3 DEF Comes, Resumes
      <3> QED BY <3>2, <3>3, <3>4
    <2> QED BY <1>6, <2>1, <2>2, <2>3
  <1>10. /\ pfile' \in [Players -> Merits] /\ qfile' \in [Players -> File \cup {None}]
         /\ \A r \in Players : /\ pfile'[r] = IF r = p THEN person[p].merits ELSE pfile[r]
                               /\ qfile'[r] = IF r = p THEN g ELSE qfile[r]
    BY <1>5, <1>6, <1>7, <1>9
  <1>11. \A r \in Players : /\ Fair(pfile'[r]) /\ Resumes(qfile'[r])
                            /\ pfile'[r].done => qfile'[r] = None
                            /\ qfile'[r] # None => qfile'[r].mobs \subseteq Cast
    BY <1>3, <1>8, <1>9, <1>10
  <1> QED BY <1>10, <1>11, RestartedKeeps DEF SaveCrash

LEMMA AskKeeps ==
  ASSUME IInv, ~ wild, NEW p \in Players, Ask(p)
  PROVE  IInv'
  <1>1. World \in States /\ Mobbed(World) /\ Fits(World, lost) /\ Holds(World, lost) /\ ~ World.wild
    BY HoldsNow, WorldFields DEF Holds
  <1> DEFINE y == [Blank EXCEPT !.player = p, !.giver = "there"]
  <1>2. PICK q \in Unused :
           Becomes(Saved([Begun([World EXCEPT !.quest[q] = y], q, 1) EXCEPT !.person[p].inquest = q], p))
    BY DEF Ask
  <1>3. q \in Quests /\ quest[q].player = None
    BY WorldFields DEF Unused, On
  <1>4. /\ y \in Quest /\ y.player = p /\ ~ y.finished /\ y.mobs = {}
        /\ \A c \in Chapters : y.left[c] = Events[c]
    BY BlankFacts DEF Quest
  <1> HIDE DEF y
  <1> DEFINE S == [World EXCEPT !.quest[q] = y]
             B == Begun(S, q, 1)
             A == [B EXCEPT !.person[p].inquest = q]
  <1>5. Put(World, S, q, y, cast[q])
    BY <1>1, <1>3, <1>4, PutQuest, WorldFields
  <1>6. /\ S \in States /\ S.quest = [quest EXCEPT ![q] = y] /\ S.cast = cast /\ S.person = person
        /\ S.pfile = pfile /\ S.qfile = qfile /\ S.wild = wild /\ S.quest[q] = y
    <2>1. cast = [cast EXCEPT ![q] = cast[q]] /\ quest \in [Quests -> Quest]
      BY <1>1, StateFields, WorldFields
    <2> HIDE DEF S
    <2> QED BY <1>3, <1>5, <2>1, WorldFields DEF Put
  <1> HIDE DEF S
  <1>7. 1 \in Chapters
    BY QuestsFacts, ChapterFacts
  <1>8. PICK x \in Quest, k \in SUBSET Cast :
           Put(S, B, q, x, k) /\ Begins(x, k, S.quest[q], S.cast[q], 1)
    BY <1>3, <1>6, <1>7, BegunFacts
  <1> HIDE DEF B
  <1>9. cast[q] = {}
    BY <1>1, <1>3, WorldFields DEF Fits, QuestFits
  <1>10. x.player = p /\ Going(x) /\ x.mobs \subseteq Cast /\ k = x.mobs
    BY <1>4, <1>6, <1>8, <1>9 DEF Begins
  <1>11. /\ B \in States /\ B.quest = [quest EXCEPT ![q] = x] /\ B.cast = [cast EXCEPT ![q] = x.mobs]
         /\ B.person = person /\ B.pfile = pfile /\ B.qfile = qfile /\ B.wild = wild
    <2>1. [[quest EXCEPT ![q] = y] EXCEPT ![q] = x] = [quest EXCEPT ![q] = x]
      BY <1>1, StateFields, WorldFields
    <2> QED BY <1>6, <1>8, <1>10, <2>1 DEF Put
  <1> DEFINE w == [person[p] EXCEPT !.inquest = q]
  <1>12. /\ w \in Person /\ w.inquest = q /\ w.stage = person[p].stage /\ w.merits = person[p].merits
    BY <1>1, <1>3, PersonFields, WorldFields DEF Person
  <1>13. A = [B EXCEPT !.person[p] = w]
    BY <1>11
  <1> HIDE DEF w
  <1>14. /\ A \in States /\ A.quest = B.quest /\ A.cast = B.cast /\ A.pfile = B.pfile
         /\ A.qfile = B.qfile /\ A.wild = B.wild /\ A.person = [B.person EXCEPT ![p] = w]
         /\ A.person[p] = w
    <2> HIDE DEF A
    <2> QED BY <1>11, <1>12, <1>13, PersonPut
  <1> HIDE DEF A
  <1>15. /\ Of(World, p) = None /\ ~ person[p].merits.done /\ person[p].stage = "in"
         /\ Fair(person[p].merits) /\ ~ pfile[p].done
    BY <1>1, WorldFields DEF Ask, In, Fits, PlayerFits
  <1>16. Holds(A, lost)
    BY <1>1, <1>3, <1>10, <1>11, <1>12, <1>14, <1>15, AdoptHolds, WorldFields
  <1>17. Holds(Saved(A, p), lost)
    BY <1>12, <1>14, <1>15, <1>16, SavedHolds
  <1> QED BY <1>2, <1>17, HoldsNow, HoldsNext DEF Ask, A, B, S

\* The quest that comes back from a file goes on.
LEMMA LoadedFacts ==
  ASSUME NEW p \in Players, NEW f \in File, Resumes(f), f # None
  PROVE  LET x == Loaded(p, f) IN
         x \in Quest /\ x.player = p /\ x.mobs = f.mobs /\ Going(x)
  <1> DEFINE left == [c \in Chapters |-> IF c \in f.todo THEN f.left[c] ELSE Events[c]]
             g == IF questor THEN "there" ELSE "none"
             n == IF f.curr = -1 THEN N ELSE f.curr
             b == f.curr # -1 /\ Events[f.curr] = {}
             x == Loaded(p, f)
  <1>1. /\ f.curr \in {-1} \cup Chapters /\ f.todo \in SUBSET Chapters
        /\ f.left \in [Chapters -> SUBSET Deeds] /\ f.mobs \in SUBSET Chapters
    BY FileFields
  <1>2. left \in [Chapters -> SUBSET Deeds] /\ n \in Chapters /\ g \in {"there", "none"}
    BY <1>1, QuestsFacts
  <1>3. x = [Blank EXCEPT !.player = p, !.curr = n, !.finished = f.curr = -1, !.left = left,
                          !.mobs = f.mobs, !.giver = g, !.bare = b]
    BY DEF Loaded
  <1>4. \A c \in Chapters : left[c] = IF c \in f.todo THEN f.left[c] ELSE Events[c]
    OBVIOUS
  <1>11. b \in BOOLEAN
    OBVIOUS
  <1> HIDE DEF x, left, n, g, b
  <1>5. /\ x \in Quest /\ x.player = p /\ x.curr = n /\ x.finished = (f.curr = -1)
        /\ x.left = left /\ x.mobs = f.mobs /\ x.done = {} /\ x.bare = b
    BY <1>1, <1>2, <1>3, <1>11, BlankFacts DEF Quest
  <1>6. CASE f.curr = -1
    <2>1. x.finished /\ n = N
      BY <1>5, <1>6 DEF n
    <2>2. \A c \in Chapters : ~ (c > N)
      BY QuestsAssumption DEF Chapters
    <2>3. \A c \in Chapters : c > x.curr => x.left[c] = Events[c]
      BY <1>5, <2>1, <2>2
    <2>4. Going(x)
      BY <2>1, <2>3 DEF Going
    <2> QED BY <1>5, <2>4 DEF x
  <1>7. CASE f.curr # -1
    <2>1. n = f.curr /\ ~ x.finished
      BY <1>5, <1>7 DEF n
    <2>2. /\ f.curr \in f.todo /\ OneSuffices(f.curr) /\ Events[f.curr] # {} => f.left[f.curr] # {}
          /\ \A c \in f.todo : c > f.curr => f.left[c] = Events[c]
      BY <1>7 DEF Resumes, Comes
    <2>3. OneSuffices(n) /\ Events[n] # {} => left[n] # {}
      BY <1>2, <1>4, <2>1, <2>2, QuestsFacts
    <2>4. \A c \in Chapters : c > n => left[c] = Events[c]
      BY <1>4, <2>1, <2>2
    <2>5. \A c \in Chapters : c > x.curr => x.left[c] = Events[c]
      BY <1>5, <2>4
    <2>6. \/ x.left[x.curr] # {} \/ ~ OneSuffices(x.curr)
          \/ x.bare /\ Events[x.curr] = {}
      BY <1>5, <1>7, <2>1, <2>3 DEF b
    <2>7. Going(x)
      BY <2>5, <2>6 DEF Going
    <2> QED BY <1>5, <2>7 DEF x
  <1> QED BY <1>6, <1>7

LEMMA LoginKeeps ==
  ASSUME IInv, ~ wild, NEW p \in Players, NEW kept \in BOOLEAN, Login(p, kept)
  PROVE  IInv'
  <1>1. World \in States /\ Mobbed(World) /\ Fits(World, lost) /\ Holds(World, lost) /\ ~ World.wild
    BY HoldsNow, WorldFields DEF Holds
  <1> DEFINE Comers == IF qfile[p] = None THEN {None} ELSE Unused
             After1(q) == [World EXCEPT
                    !.person[p].stage = "login", !.person[p].inquest = q,
                    !.person[p].merits = pfile[p],
                    !.quest = [r \in Quests |-> IF r = q THEN Loaded(p, qfile[p]) ELSE @[r]],
                    !.cast = [r \in Quests |-> IF r = q THEN qfile[p].mobs ELSE @[r]]]
  <1>2. PICK q \in Comers :
           \E T \in {After1(q)} \cup {Triggered(After1(q), p, d, kept) : d \in Finds \cup {None}} : Becomes(T)
    BY DEF Login
  <1> DEFINE S == After1(q)
             w == [person[p] EXCEPT !.stage = "login", !.inquest = q, !.merits = pfile[p]]
             Q == [r \in Quests |-> IF r = q THEN Loaded(p, qfile[p]) ELSE quest[r]]
             C == [r \in Quests |-> IF r = q THEN qfile[p].mobs ELSE cast[r]]
  <1>3. /\ quest \in [Quests -> Quest] /\ cast \in [Quests -> SUBSET Cast]
        /\ person \in [Players -> Person] /\ pfile \in [Players -> Merits]
        /\ qfile \in [Players -> File \cup {None}]
    BY <1>1, StateFields, WorldFields
  <1>4. /\ S.person = [person EXCEPT ![p] = w] /\ S.quest = Q /\ S.cast = C /\ S.pfile = pfile
        /\ S.qfile = qfile /\ S.wild = wild
        /\ S = [quest |-> S.quest, cast |-> S.cast, person |-> S.person,
                pfile |-> S.pfile, qfile |-> S.qfile, wild |-> S.wild]
    <2> DEFINE v == [[person[p] EXCEPT !.stage = "login"] EXCEPT !.inquest = q]
               U == [World EXCEPT !.person[p].stage = "login", !.person[p].inquest = q]
               V == [World EXCEPT !.person[p].stage = "login", !.person[p].inquest = q,
                                  !.person[p].merits = pfile[p]]
    <2>1. U = [World EXCEPT !.person = [person EXCEPT ![p] = v]]
      BY <1>3 DEF World, Person
    <2> HIDE DEF U, v
    <2>2. /\ U.person = [person EXCEPT ![p] = v] /\ U.quest = quest /\ U.cast = cast
          /\ U.pfile = pfile /\ U.qfile = qfile /\ U.wild = wild /\ U.person[p] = v
          /\ U = [quest |-> U.quest, cast |-> U.cast, person |-> U.person,
                  pfile |-> U.pfile, qfile |-> U.qfile, wild |-> U.wild]
      BY <1>3, <2>1 DEF World
    <2>3. [v EXCEPT !.merits = pfile[p]] = w
      BY <1>3 DEF Person, v
    <2>4. V = [U EXCEPT !.person[p].merits = pfile[p]]
      BY DEF U
    <2> HIDE DEF V, w
    <2>5. V = [U EXCEPT !.person = [person EXCEPT ![p] = w]]
      BY <1>3, <2>2, <2>3, <2>4
    <2>6. /\ V.person = [person EXCEPT ![p] = w] /\ V.quest = quest /\ V.cast = cast
          /\ V.pfile = pfile /\ V.qfile = qfile /\ V.wild = wild
          /\ V = [quest |-> V.quest, cast |-> V.cast, person |-> V.person,
                  pfile |-> V.pfile, qfile |-> V.qfile, wild |-> V.wild]
      BY <2>2, <2>5
    <2>7. World.quest = quest /\ World.cast = cast
      BY WorldFields
    <2>8. S = [V EXCEPT !.quest = Q, !.cast = C]
      BY <2>7 DEF V
    <2> HIDE DEF S, Q, C
    <2> QED BY <2>6, <2>8
  <1>5. q = None \/ q \in Quests
    BY DEF Unused
  <1>6. w \in Person /\ w.stage = "login" /\ w.inquest = q /\ w.merits = pfile[p]
    BY <1>3, <1>5 DEF Person
  <1> HIDE DEF S, w
  <1>7. person[p].stage = "out" /\ PlayerFits(World, p, lost)
    BY <1>1 DEF Login, Fits
  <1>8. Of(World, p) = None
    <2>1. Of(World, p) # None =>
             /\ Of(World, p) \in Quests /\ World.quest[Of(World, p)].player = p
             /\ Of(World, p) \notin lost
      BY <1>1, <1>7, PersonFields DEF PlayerFits
    <2>2. Of(World, p) # None => World.person[p].stage # "out"
      BY <1>1, <2>1, QuestsFacts DEF Fits, QuestFits
    <2> QED BY <1>7, <2>2, WorldFields
  <1>9. Fair(pfile[p]) /\ Resumes(qfile[p]) /\ (pfile[p].done => qfile[p] = None)
    BY <1>7, WorldFields DEF PlayerFits
  <1>10. Holds(S, lost)
    <2>1. CASE qfile[p] = None
      <3>1. q = None /\ Q = quest /\ C = cast
        BY <1>3, <2>1, QuestsFacts
      <3>2. S.person \in [Players -> Person]
        BY <1>3, <1>4, <1>6
      <3>3. S \in States
        BY <1>1, <1>3, <1>4, <3>1, <3>2, WorldFields DEF States
      <3>4. S.person[p] = w /\ Of(S, p) = None
            /\ \A r \in Players \ {p} : S.person[r] = person[r]
        BY <1>3, <1>4, <1>6, <3>1 DEF Of
      <3>5. PlayerFits(S, p, lost)
        BY <1>4, <1>6, <1>9, <2>1, <3>4 DEF PlayerFits
      <3>6. /\ S.quest = World.quest /\ S.cast = World.cast /\ S.wild = World.wild
            /\ \A r \in Players \ {p} : /\ S.person[r] = World.person[r]
                                        /\ S.pfile[r] = World.pfile[r] /\ S.qfile[r] = World.qfile[r]
            /\ S.qfile[p] = None
        BY <1>4, <2>1, <3>1, <3>4, WorldFields
      <3> QED BY <1>1, <1>8, <3>3, <3>4, <3>5, <3>6, PlayerHolds
    <2>2. CASE qfile[p] # None
      <3> DEFINE x == Loaded(p, qfile[p])
      <3>1. q \in Quests /\ quest[q].player = None
        BY <2>2, WorldFields DEF Unused, On
      <3>2. x \in Quest /\ x.player = p /\ x.mobs = qfile[p].mobs /\ Going(x)
        BY <1>3, <1>9, <2>2, LoadedFacts
      <3>3. x.mobs \subseteq Cast
        BY <1>1, <2>2, <3>2, WorldFields DEF Mobbed
      <3> HIDE DEF x
      <3>4. S.quest = [World.quest EXCEPT ![q] = x] /\ S.cast = [World.cast EXCEPT ![q] = x.mobs]
            /\ S.person = [World.person EXCEPT ![p] = w]
            /\ S.pfile = World.pfile /\ S.qfile = World.qfile /\ S.wild = World.wild
        BY <1>3, <1>4, <3>1, <3>2, WorldFields DEF x
      <3>5. S \in States
        <4>1. S.person \in [Players -> Person]
          BY <1>3, <1>4, <1>6
        <4>2. S.quest \in [Quests -> Quest] /\ S.cast \in [Quests -> SUBSET Cast]
          <5>1. World.quest \in [Quests -> Quest] /\ World.cast \in [Quests -> SUBSET Cast]
            BY <1>1, StateFields DEF Holds
          <5> HIDE DEF S
          <5> QED BY <5>1, <3>2, <3>3, <3>4
        <4> QED BY <1>1, <1>3, <1>4, <4>1, <4>2, WorldFields, StateFields DEF States
      <3>6. ~ pfile[p].done
        BY <1>9, <2>2
      <3> QED BY <1>1, <1>6, <1>8, <1>9, <3>1, <3>2, <3>3, <3>4, <3>5, <3>6, AdoptHolds, WorldFields
    <2> QED BY <2>1, <2>2
  <1>11. ASSUME NEW T \in {S} \cup {Triggered(S, p, d, kept) : d \in Finds \cup {None}}, Becomes(T)
         PROVE  IInv'
    <2>1. Holds(T, lost)
      BY <1>10, TriggeredHolds
    <2> QED BY <2>1, <1>11, HoldsNow, HoldsNext DEF Login
  <1> QED BY <1>2, <1>11 DEF S

-----------------------------------------------------------------------------
(* quest_update. *)

LEMMA UpdatedHolds ==
  ASSUME NEW S, NEW L, Holds(S, L), NEW q \in Quests, S.quest[q].player # None, NEW late \in BOOLEAN
  PROVE  /\ Holds(Updated(S, q, late), L)
         /\ \A r \in Quests : r # q => Updated(S, q, late).quest[r] = S.quest[r]
  <1> DEFINE x == S.quest[q]
             p == x.player
             End(failed) == IF Of(S, p) = q THEN Stopped(S, p, failed) ELSE [S EXCEPT !.wild = TRUE]
             Good(T) == Holds(T, L) /\ \A r \in Quests : r # q => T.quest[r] = S.quest[r]
  <1>1. S \in States /\ Mobbed(S) /\ x \in Quest /\ p \in Players /\ S.cast[q] \in SUBSET Cast
    BY StateFields, QuestFields DEF Holds
  <1>2. x.curr \in Nat /\ N \in Nat /\ x.curr <= N
    BY <1>1, QuestFields, QuestsFacts, ChapterFacts
  <1>3. Good(S)
    OBVIOUS
  <1>4. ASSUME NEW failed \in BOOLEAN PROVE Good(End(failed))
    <2>1. CASE Of(S, p) = q
      <3>1. Goes(S, Stopped(S, p, failed), p, q, L)
        BY <1>1, <2>1, ReadyWhen, StoppedOn
      <3>2. Holds(Stopped(S, p, failed), L)
        BY <1>1, <2>1, <3>1, HoldsAfter
      <3> QED BY <2>1, <3>1, <3>2 DEF Goes, Alike
    <2>2. CASE Of(S, p) # q
      <3> DEFINE T == [S EXCEPT !.wild = TRUE]
      <3>1. /\ T \in States /\ T.wild = TRUE /\ T.quest = S.quest /\ T.qfile = S.qfile
        BY <1>1 DEF States
      <3> HIDE DEF T
      <3>2. Good(T)
        BY <1>1, <3>1 DEF Holds, Mobbed
      <3> QED BY <2>2, <3>2 DEF T
    <2> QED BY <2>1, <2>2
  <1>5. x.curr < N => Good(Begun(S, q, x.curr + 1))
    <2>1. SUFFICES ASSUME x.curr < N PROVE Good(Begun(S, q, x.curr + 1))
      OBVIOUS
    <2> DEFINE n == x.curr + 1
    <2>2. n \in Chapters /\ \A c \in Chapters : c >= n => c > x.curr
      BY <1>2, <2>1 DEF Chapters
    <2> HIDE DEF n
    <2>3. PICK y \in Quest, k \in SUBSET Cast :
             Put(S, Begun(S, q, n), q, y, k) /\ Begins(y, k, x, S.cast[q], n)
      BY <1>1, <2>2, BegunFacts
    <2>4. /\ y.player = p /\ y.mobs \subseteq Cast /\ (Going(x) => Going(y))
          /\ (S.cast[q] = x.mobs => k = y.mobs)
      BY <1>1, <2>2, <2>3 DEF Begins, Going, Mobbed
    <2>5. ~ S.wild => S.cast[q] = x.mobs
      BY DEF Holds, Fits, QuestFits
    <2>6. Holds(Begun(S, q, n), L)
      BY <2>3, <2>4, <2>5, QuestHolds
    <2>7. \A r \in Quests : r # q => Begun(S, q, n).quest[r] = S.quest[r]
      BY <1>1, <2>3, StateFields DEF Put
    <2> QED BY <2>6, <2>7 DEF n
  <1> HIDE DEF Good
  <1>6. Good(End(TRUE)) /\ Good(End(FALSE))
    BY <1>4
  <1>7. CASE late /\ ~ x.finished
    <2>1. Updated(S, q, late) = End(TRUE)
      BY <1>7, Zenon DEF Updated
    <2> QED BY <1>6, <2>1 DEF Good
  <1>8. CASE ~ (late /\ ~ x.finished) /\ x.curr \notin x.done
    <2>1. Updated(S, q, late) = S
      BY <1>8, Zenon DEF Updated
    <2> QED BY <1>3, <2>1 DEF Good
  <1>9. CASE ~ (late /\ ~ x.finished) /\ x.curr \in x.done /\ x.curr < N
    <2>1. x.curr # N
      BY <1>2, <1>9
    <2>2. Updated(S, q, late) = Begun(S, q, x.curr + 1)
      BY <1>9, <2>1, Zenon DEF Updated
    <2> QED BY <1>5, <1>9, <2>2 DEF Good
  <1>10. CASE ~ (late /\ ~ x.finished) /\ x.curr \in x.done /\ x.curr = N
    <2>1. ~ (x.curr < N) /\ N \in x.done
      BY <1>2, <1>10
    <2>2. Updated(S, q, late) = IF x.finished THEN S ELSE End(FALSE)
      BY <1>10, <2>1, Zenon DEF Updated
    <2> QED BY <1>3, <1>6, <2>2 DEF Good
  <1> QED BY <1>2, <1>7, <1>8, <1>9, <1>10

Pick(s) == CHOOSE q \in s : TRUE
Update1(g, late, s) == Updated(g[s \ {Pick(s)}], Pick(s), Pick(s) \in late)

\* g folds the updates of the quests of Q.
Updates(g, S, late, Q) == g = [s \in SUBSET Q |-> IF s = {} THEN S ELSE Update1(g, late, s)]
UpdatesTo(g, S, late, Q, n) ==
    \A s \in SUBSET Q : Cardinality(s) <= n => g[s] = IF s = {} THEN S ELSE Update1(g, late, s)

LEMMA Picked ==
  ASSUME NEW Q, IsFiniteSet(Q), NEW s \in SUBSET Q, s # {}
  PROVE  /\ Pick(s) \in s /\ s \ {Pick(s)} \in SUBSET Q
         /\ Cardinality(s) \in Nat /\ Cardinality(s \ {Pick(s)}) = Cardinality(s) - 1
  <1>1. Pick(s) \in s
    BY DEF Pick
  <1>2. IsFiniteSet(s)
    BY FS_Subset
  <1> QED BY <1>1, <1>2, FS_RemoveElement, FS_CardinalityType

\* The fold is well defined.
LEMMA UpdatesExist ==
  ASSUME NEW S, NEW late, NEW Q, IsFiniteSet(Q)
  PROVE  \E g : Updates(g, S, late, Q)
  <1> DEFINE Bad == {n \in Nat : ~ \E g : UpdatesTo(g, S, late, Q, n)}
  <1>1. \A s \in SUBSET Q : Cardinality(s) \in Nat /\ (Cardinality(s) <= 0 => s = {})
    <2>1. TAKE s \in SUBSET Q
    <2>2. IsFiniteSet(s) /\ Cardinality(s) \in Nat
      BY FS_Subset, FS_CardinalityType
    <2> QED BY <2>2, FS_EmptySet
  <1>2. Bad = {}
    <2>1. SUFFICES ASSUME Bad # {} PROVE FALSE
      OBVIOUS
    <2>2. PICK n \in Bad : \A m \in Bad : n <= m
      <3>1. Bad \subseteq Nat
        OBVIOUS
      <3> HIDE DEF Bad
      <3> QED BY <2>1, <3>1, LeastNat
    <2>3. n \in Nat /\ ~ \E g : UpdatesTo(g, S, late, Q, n)
      OBVIOUS
    <2>4. CASE n = 0
      <3> DEFINE g == [s \in SUBSET Q |-> S]
      <3>1. UpdatesTo(g, S, late, Q, n)
        BY <1>1, <2>4 DEF UpdatesTo
      <3> QED BY <2>3, <3>1
    <2>5. CASE n # 0
      <3>1. n - 1 \in Nat /\ n - 1 < n
        BY <2>3, <2>5
      <3>2. n - 1 \in Bad => n <= n - 1
        <4> HIDE DEF Bad
        <4> QED BY <2>2
      <3>3. \E g : UpdatesTo(g, S, late, Q, n - 1)
        <4>1. n - 1 \notin Bad
          <5> HIDE DEF Bad
          <5> QED BY <2>3, <3>1, <3>2
        <4> QED BY <3>1, <4>1
      <3>4. PICK g : UpdatesTo(g, S, late, Q, n - 1)
        BY <3>3
      <3> HIDE DEF Bad
      <3> DEFINE h == [s \in SUBSET Q |-> IF Cardinality(s) <= n - 1 THEN g[s]
                                          ELSE Update1(g, late, s)]
      <3>5. ASSUME NEW s \in SUBSET Q, Cardinality(s) <= n
            PROVE  h[s] = IF s = {} THEN S ELSE Update1(h, late, s)
        <4>1. CASE s = {}
          <5>1. Cardinality(s) <= n - 1
            BY <4>1, <3>1, FS_EmptySet
          <5> QED BY <4>1, <3>4, <5>1 DEF UpdatesTo
        <4>2. CASE s # {}
          <5> DEFINE t == s \ {Pick(s)}
          <5>1. t \in SUBSET Q /\ Cardinality(t) = Cardinality(s) - 1
            BY <4>2, Picked
          <5>2. Cardinality(t) <= n - 1
            BY <1>1, <2>3, <3>5, <5>1
          <5> HIDE DEF t
          <5>3. h[t] = g[t]
            BY <5>1, <5>2
          <5>4. Update1(h, late, s) = Update1(g, late, s)
            BY <5>3 DEF Update1, t
          <5>5. h[s] = Update1(g, late, s)
            BY <3>4, <4>2 DEF UpdatesTo
          <5> QED BY <4>2, <5>4, <5>5
        <4> QED BY <4>1, <4>2
      <3> HIDE DEF h
      <3>6. UpdatesTo(h, S, late, Q, n)
        BY <3>5 DEF UpdatesTo
      <3> QED BY <2>3, <3>6
    <2> QED BY <2>4, <2>5
  <1>3. Cardinality(Q) \in Nat /\ \A s \in SUBSET Q : Cardinality(s) <= Cardinality(Q)
    BY FS_CardinalityType, FS_Subset
  <1>4. PICK g : UpdatesTo(g, S, late, Q, Cardinality(Q))
    BY <1>2, <1>3
  <1> DEFINE h == [s \in SUBSET Q |-> g[s]]
  <1>5. ASSUME NEW s \in SUBSET Q PROVE h[s] = IF s = {} THEN S ELSE Update1(h, late, s)
    <2>1. h[s \ {Pick(s)}] = g[s \ {Pick(s)}]
      OBVIOUS
    <2>2. Update1(h, late, s) = Update1(g, late, s)
      BY <2>1 DEF Update1
    <2> QED BY <1>3, <1>4, <2>2 DEF UpdatesTo
  <1>6. h = [s \in SUBSET Q |-> h[s]]
    OBVIOUS
  <1> HIDE DEF h
  <1>7. [s \in SUBSET Q |-> h[s]] = [s \in SUBSET Q |-> IF s = {} THEN S ELSE Update1(h, late, s)]
    BY <1>5
  <1> QED BY <1>6, <1>7 DEF Updates

LEMMA UpdateKeeps ==
  ASSUME IInv, NEW late \in SUBSET On(World), Update(late)
  PROVE  IInv'
  <1> DEFINE Q == On(World)
             g == CHOOSE h : Updates(h, World, late, Q)
  <1>1. Q \in SUBSET Quests /\ IsFiniteSet(Q) /\ \A q \in Q : World.quest[q].player # None
    BY QuestsFacts, FS_Subset DEF On
  <1>2. Updates(g, World, late, Q)
    <2>1. \E h : Updates(h, World, late, Q)
      BY <1>1, UpdatesExist
    <2> HIDE DEF Updates, Q
    <2> QED BY <2>1
  <1>3. FoldSet(LAMBDA q, S : Updated(S, q, q \in late), World, Q) = g[Q]
    BY DEF FoldSet, MapThenFoldSet, Updates, Update1, Pick
  <1>4. Becomes(g[Q])
    BY <1>3 DEF Update
  <1> HIDE DEF g, Q
  <1>5. ASSUME NEW s \in SUBSET Q PROVE g[s] = IF s = {} THEN World ELSE Update1(g, late, s)
    <2> DEFINE k == [t \in SUBSET Q |-> IF t = {} THEN World ELSE Update1(g, late, t)]
    <2>1. g = k
      BY <1>2 DEF Updates
    <2>2. k[s] = IF s = {} THEN World ELSE Update1(g, late, s)
      OBVIOUS
    <2> HIDE DEF k
    <2> QED BY <2>1, <2>2
  <1> DEFINE Good(s) == /\ Holds(g[s], lost)
                        /\ \A q \in Quests \ s : g[s].quest[q] = World.quest[q]
             Bad == {n \in Nat : \E s \in SUBSET Q : Cardinality(s) = n /\ ~ Good(s)}
  <1>6. Bad = {}
    <2>1. SUFFICES ASSUME Bad # {} PROVE FALSE
      OBVIOUS
    <2>2. PICK n \in Bad : \A m \in Bad : n <= m
      <3>1. Bad \subseteq Nat
        OBVIOUS
      <3> HIDE DEF Bad
      <3> QED BY <2>1, <3>1, LeastNat
    <2>3. PICK s \in SUBSET Q : Cardinality(s) = n /\ ~ Good(s)
      OBVIOUS
    <2>4. n \in Nat
      OBVIOUS
    <2>5. CASE s = {}
      <3>1. g[s] = World
        BY <1>5, <2>5
      <3> QED BY <2>3, <3>1, HoldsNow
    <2>6. CASE s # {}
      <3> DEFINE q == Pick(s)
                 t == s \ {q}
                 S == g[t]
      <3>1. q \in s /\ t \in SUBSET Q /\ Cardinality(t) = n - 1 /\ n - 1 \in Nat /\ n - 1 < n
        <4>1. /\ q \in s /\ t \in SUBSET Q /\ Cardinality(s) \in Nat
              /\ Cardinality(t) = Cardinality(s) - 1
          BY <1>1, <2>6, Picked
        <4>2. IsFiniteSet(t)
          BY <1>1, <4>1, FS_Subset
        <4>3. Cardinality(t) \in Nat
          BY <4>2, FS_CardinalityType
        <4> HIDE DEF q, t
        <4> QED BY <2>3, <4>1, <4>3
      <3> HIDE DEF q, t
      <3>2. Good(t)
        <4>1. n - 1 \in Bad => n <= n - 1
          <5> HIDE DEF Bad
          <5> QED BY <2>2
        <4>2. n - 1 \notin Bad
          <5> HIDE DEF Bad
          <5> QED BY <2>4, <3>1, <4>1
        <4> QED BY <3>1, <4>2
      <3>3. q \in Quests /\ S.quest[q].player # None
        <4>1. q \in Q /\ q \in Quests \ t
          BY <1>1, <3>1 DEF t
        <4> QED BY <1>1, <3>2, <4>1
      <3> DEFINE b == q \in late
      <3>4. g[s] = Updated(S, q, b)
        BY <1>5, <2>6 DEF Update1, q, t
      <3>5. b \in BOOLEAN
        OBVIOUS
      <3> HIDE DEF S, Bad, b
      <3>6. Holds(S, lost)
        BY <3>2 DEF S
      <3>7. /\ Holds(g[s], lost)
            /\ \A r \in Quests : r # q => g[s].quest[r] = S.quest[r]
        BY <3>3, <3>4, <3>5, <3>6, UpdatedHolds
      <3>8. \A r \in Quests \ s : g[s].quest[r] = World.quest[r]
        <4>1. \A r \in Quests \ s : r # q /\ r \in Quests \ t
          BY <3>1 DEF t
        <4> QED BY <3>2, <3>7, <4>1 DEF S
      <3> QED BY <2>3, <3>7, <3>8
    <2> QED BY <2>5, <2>6
  <1>7. Good(Q)
    <2>1. Q \in SUBSET Q /\ Cardinality(Q) \in Nat
      BY <1>1, FS_CardinalityType
    <2> QED BY <1>6, <2>1
  <1> QED BY <1>4, <1>7, HoldsNow, HoldsNext DEF Update

-----------------------------------------------------------------------------
(* The theorems. *)

LEMMA InitHolds == Init => IInv
  <1> SUFFICES ASSUME Init PROVE IInv
    OBVIOUS
  <1>1. /\ quest = [q \in Quests |-> Blank] /\ cast = [q \in Quests |-> {}]
        /\ person = [p \in Players |-> [stage |-> "in", at |-> Home, inquest |-> None,
                                        merits |-> Newcomer]]
        /\ pfile = [p \in Players |-> Newcomer] /\ qfile = [p \in Players |-> None]
        /\ lost = {} /\ wild = FALSE /\ questor = TRUE
    BY DEF Init
  <1>2. /\ World.quest = quest /\ World.cast = cast /\ World.person = person
        /\ World.pfile = pfile /\ World.qfile = qfile /\ World.wild = wild
    BY WorldFields
  <1>3. World \in States
    <2>1. quest \in [Quests -> Quest] /\ cast \in [Quests -> SUBSET Cast]
      BY <1>1, BlankFacts
    <2>2. [stage |-> "in", at |-> Home, inquest |-> None, merits |-> Newcomer] \in Person
      BY BlankFacts DEF Person, Places
    <2>3. person \in [Players -> Person]
      BY <1>1, <2>2
    <2>4. /\ pfile \in [Players -> Merits] /\ qfile \in [Players -> File \cup {None}]
          /\ wild \in BOOLEAN
      BY <1>1, BlankFacts
    <2> QED BY <2>1, <2>3, <2>4 DEF World, States
  <1>4. Mobbed(World)
    BY <1>1, <1>2, BlankFacts DEF Mobbed
  <1>5. Fair(Newcomer) /\ ~ Newcomer.done /\ Resumes(None)
    BY BlankFacts DEF Fair, Resumes
  <1>6. ASSUME NEW p \in Players PROVE PlayerFits(World, p, lost)
    <2>1. /\ Of(World, p) = None /\ World.person[p].merits = Newcomer
          /\ World.pfile[p] = Newcomer /\ World.qfile[p] = None
      BY <1>1, <1>2 DEF Of
    <2> QED BY <1>5, <2>1 DEF PlayerFits
  <1>7. ASSUME NEW q \in Quests PROVE QuestFits(World, q, lost)
    BY <1>1, <1>2, BlankFacts DEF QuestFits
  <1> QED BY <1>1, <1>3, <1>4, <1>6, <1>7 DEF IInv, Fits

LEMMA NextHolds == IInv /\ [Next]_vars => IInv'
  <1> SUFFICES ASSUME IInv, [Next]_vars PROVE IInv'
    OBVIOUS
  <1>1. CASE UNCHANGED vars
    <2>1. World' = World
      BY <1>1 DEF World, vars
    <2> QED BY <1>1, <2>1 DEF IInv, vars
  <1>2. CASE Next
    <2>1. ~ wild
      BY <1>2 DEF Next
    <2>2. ASSUME NEW p \in Players,
                 \/ Ask(p) \/ GiveUp(p) \/ Stop(p) \/ Save(p) \/ Quit(p) \/ Die(p)
                 \/ Enter(p) \/ HangUp(p) \/ PayCrash(p) \/ SaveCrash(p)
          PROVE  IInv'
      BY <2>1, <2>2, AskKeeps, GiveUpKeeps, StopKeeps, SaveKeeps, QuitKeeps, DieKeeps,
         EnterKeeps, HangUpKeeps, PayCrashKeeps, SaveCrashKeeps
    <2>3. ASSUME NEW p \in Players, NEW kept \in BOOLEAN,
                 \/ Login(p, kept)
                 \/ \E place \in Places : Walk(p, place, kept)
                 \/ \E d \in Deeds : Do(p, d, kept)
                 \/ \E c \in Cast : Kill(p, c, kept)
          PROVE  IInv'
      BY <2>1, <2>3, LoginKeeps, WalkKeeps, DoKeeps, KillKeeps
    <2>4. ASSUME \/ \E late \in SUBSET On(World) : Update(late)
                 \/ \E q \in Quests, c \in Cast : MobDies(q, c)
                 \/ QuestorDies \/ QuestorBack \/ Crash
          PROVE  IInv'
      BY <2>1, <2>4, UpdateKeeps, MobDiesKeeps, QuestorDiesKeeps, QuestorBackKeeps, CrashKeeps
    <2> QED BY <1>2, <2>2, <2>3, <2>4 DEF Next
  <1> QED BY <1>1, <1>2

LEMMA Invariance == Spec => []IInv
  BY InitHolds, NextHolds, PTL DEF Spec

\* Whatever quests are made of, an address of QUEST_DATA is free or one quest, and
\* files, players and mobs stay within what quest.h says of them.
THEOREM QuestsTypeCorrect == Spec => []TypeOK
  <1>1. IInv => TypeOK
    BY WorldFields DEF IInv, States, TypeOK
  <1> QED BY <1>1, Invariance, PTL

\* quest_cleanup and extract_char leave nothing that points to what is gone, and
\* quest_update finds the player of every quest but of those whose player hung up
\* at the login, for any number of players and quests.
THEOREM QuestsAllHeld == Spec => []QuestsHeld
  <1>1. IInv => QuestsHeld
    <2> SUFFICES ASSUME IInv, ~ wild PROVE QuestsHeld
      BY DEF QuestsHeld
    <2>1. Fits(World, lost)
      BY HoldsNow, WorldFields DEF Holds
    <2>2. ASSUME NEW p \in Players, Of(World, p) # None
          PROVE  quest[Of(World, p)].player = p /\ Of(World, p) \notin lost
      BY <2>1, <2>2, WorldFields DEF Fits, PlayerFits
    <2>3. ASSUME NEW q \in On(World) \ lost
          PROVE  Of(World, quest[q].player) = q /\ person[quest[q].player].stage # "out"
      BY <2>1, WorldFields DEF Fits, QuestFits, On
    <2>4. ASSUME NEW q \in Quests
          PROVE  cast[q] = quest[q].mobs /\ (cast[q] # {} => q \in On(World))
      BY <2>1, WorldFields DEF Fits, QuestFits, On
    <2> QED BY <2>2, <2>3, <2>4 DEF QuestsHeld, OneQuestEach
  <1> QED BY <1>1, Invariance, PTL

\* Nobody is paid twice for a quest: quest_cleanup, the unlinking of the quest's
\* file and the saving of the player leave no way back to it, also if the process
\* dies between any two of them.
THEOREM QuestsOverWhenPaid == Spec => []OverWhenPaid
  <1>1. IInv => OverWhenPaid
    <2> SUFFICES ASSUME IInv, ~ wild, NEW p \in Players
                 PROVE  LET m == person[p].merits IN
                        /\ m.paid <= 1 /\ (m.paid = 1 => m.done)
                        /\ person[p].stage # "out" /\ m.done => Of(World, p) = None
                        /\ pfile[p].done => qfile[p] = None
      BY DEF OverWhenPaid
    <2>1. PlayerFits(World, p, lost)
      BY HoldsNow, WorldFields DEF Holds, Fits
    <2> QED BY <2>1, WorldFields DEF PlayerFits, Fair
  <1> QED BY <1>1, Invariance, PTL

\* A quest that is not finished waits for a deed or is about to go on, whatever its
\* chapters ask for; all but one that came back from a file at a chapter without
\* events.
THEOREM QuestsSomethingToDo == Spec => []SomethingToDo
  <1>1. IInv => SomethingToDo
    <2> SUFFICES ASSUME IInv, ~ wild, NEW q \in On(World), ~ quest[q].finished
                 PROVE  LET x == quest[q] IN
                        \/ x.curr \in x.done \/ x.left[x.curr] # {} \/ ~ OneSuffices(x.curr)
                        \/ x.bare /\ Events[x.curr] = {}
      BY DEF SomethingToDo
    <2>1. Going(quest[q])
      BY HoldsNow, WorldFields DEF Holds, Fits, QuestFits, On
    <2> QED BY <2>1 DEF Going
  <1> QED BY <1>1, Invariance, PTL
=============================================================================
