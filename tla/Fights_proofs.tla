----------------------------- MODULE Fights_proofs -----------------------------
(***************************************************************************)
(* Proofs about Fights, for any players, mobs and rooms, whoever can stun   *)
(* or rescue, and whatever max_fight is; and, in the second part, about     *)
(* GameLoop, the loop that calls violence_update, for any connections,      *)
(* sockets and buffers.                                                     *)
(***************************************************************************)
EXTENDS Fights, GameLoop, FiniteSetTheorems, SequenceTheorems, WellFoundedInduction, TLAPS

-----------------------------------------------------------------------------
(* The inductive invariant. *)

Typed(S) == S \in [Chars -> Char]
Roomed(S) == \A c \in Chars : S[c].stage = "in" <=> S[c].room # None

\* Nobody is left dead, a mob has points or is dead, who lies without points
\* fights nobody, and who has points lies only if he was stunned.
Hale(c, r) ==
    /\ r.hit # "dead"
    /\ c \in Mobs => r.hit = "well"
    /\ r.hit # "well" => r.position = r.hit /\ r.fighting = None
    /\ r.hit = "well" =>
          \/ r.position \in {"fighting", "standing"}
          \/ r.position = "stunned" /\ r.still

\* All of the game but v are hale, and none but he is fought without points.
\* A handler that wounds v has to see to it that he is no exception any more.
HaleBut(S, v) ==
    /\ \A c \in In(S) : c # v => Hale(c, S[c])
    /\ \A f, c \in In(S) : S[f].fighting = c /\ c # v => S[c].hit = "well"

Good(S) == Typed(S) /\ Roomed(S) /\ HaleBut(S, None)

IInv ==
    /\ Good(char)
    /\ round \in Round
    /\ round.at # None => round.victim \in Chars
    /\ ~ Between => round.rest \subseteq In(char)

LEMMA FightsFacts == None \notin Chars /\ None \notin Rooms /\ Players \cap Mobs = {} /\ IsFiniteSet(Chars)
  <1>1. IsFiniteSet(Players \cup Mobs)
    BY FightsAssumption, FS_Union
  <1> QED BY <1>1, FightsAssumption DEF Chars

LEMMA InvType == IInv => TypeOK
  BY DEF IInv, Good, Typed, Roomed, TypeOK

LEMMA InvFallen == IInv => FallenAreOut
  <1> SUFFICES ASSUME IInv, NEW v \in In(char)
               PROVE  /\ char[v].position # "dead"
                      /\ char[v].position \in Down /\ ~ char[v].still =>
                            char[v].fighting = None /\ Fighting(char, v) = {}
    BY DEF FallenAreOut
  <1>1. v \in Chars /\ v # None
    BY FightsFacts DEF In
  <1>2. Hale(v, char[v])
    BY <1>1 DEF IInv, Good, HaleBut
  <1>3. char[v].hit # "well" => Fighting(char, v) = {}
    BY <1>1 DEF IInv, Good, HaleBut, Fighting
  <1> QED BY <1>2, <1>3 DEF Hale, Down, Bands

-----------------------------------------------------------------------------
(* What the functions do to a character. *)

\* Nothing but the count of his attackers, or his position and whom he fights
Same(r, t) ==
    /\ t.stage = r.stage /\ t.room = r.room /\ t.hit = r.hit /\ t.still = r.still
    /\ t.fighting = r.fighting /\ t.position = r.position

\* He fights nobody any more, and lies only if he has to.
Eased(x, r, t) ==
    /\ t.stage = r.stage /\ t.room = r.room /\ t.hit = r.hit /\ t.still = r.still
    /\ t.fighting = None
    /\ t.hit # "well" => t.position = (IF x \in Mobs THEN "dead" ELSE t.hit)
    /\ t.hit = "well" => t.position = (IF t.still THEN "stunned" ELSE "standing")

Loosened(S, T) == Typed(T) /\ \A x \in Chars : Same(S[x], T[x]) \/ Eased(x, S[x], T[x])

LEMMA CharShape ==
  ASSUME NEW r \in Char
  PROVE  r = [stage |-> r.stage, room |-> r.room, fighting |-> r.fighting, num |-> r.num,
              hit |-> r.hit, position |-> r.position, still |-> r.still]
  BY DEF Char

LEMMA UpdatePosType ==
  ASSUME NEW S, Typed(S), NEW c \in Chars
  PROVE  LET T == UpdatePos(S, c) IN
         /\ Typed(T)
         /\ \A x \in Chars : x # c => T[x] = S[x]
         /\ T[c].stage = S[c].stage /\ T[c].room = S[c].room /\ T[c].hit = S[c].hit
         /\ T[c].still = S[c].still /\ T[c].fighting = S[c].fighting
         /\ S[c].hit # "well" => T[c].position = (IF c \in Mobs THEN "dead" ELSE S[c].hit)
         /\ S[c].hit = "well" =>
               T[c].position = IF S[c].still THEN "stunned"
                               ELSE IF S[c].position \in Down THEN "standing" ELSE S[c].position
  <1> DEFINE T == UpdatePos(S, c)
             p == IF S[c].hit # "well" THEN (IF c \in Mobs THEN "dead" ELSE S[c].hit)
                  ELSE IF S[c].still THEN "stunned"
                  ELSE IF S[c].position \in Down THEN "standing" ELSE S[c].position
  <1>1. T = [S EXCEPT ![c].position = p]
    BY DEF UpdatePos, Typed, Char
  <1>2. S[c] \in Char /\ p \in Positions
    BY DEF Typed, Char, Positions, Down, Bands
  <1>3. T[c] = [S[c] EXCEPT !.position = p] /\ \A x \in Chars : x # c => T[x] = S[x]
    BY <1>1 DEF Typed
  <1>4. T[c] \in Char
    BY <1>2, <1>3 DEF Char
  <1>5. Typed(T)
    BY <1>1, <1>3, <1>4 DEF Typed
  <1> HIDE DEF T
  <1>6. /\ T[c].stage = S[c].stage /\ T[c].room = S[c].room /\ T[c].hit = S[c].hit
        /\ T[c].still = S[c].still /\ T[c].fighting = S[c].fighting /\ T[c].position = p
    BY <1>2, <1>3 DEF Char
  <1>7. QED BY <1>3, <1>5, <1>6 DEF T

LEMMA FreeFightType ==
  ASSUME NEW S, Typed(S), NEW c \in Chars
  PROVE  LET T == FreeFight(S, c) IN
         /\ Typed(T)
         /\ \A x \in Chars : x # c => Same(S[x], T[x])
         /\ T[c].stage = S[c].stage /\ T[c].room = S[c].room /\ T[c].hit = S[c].hit
         /\ T[c].still = S[c].still /\ T[c].fighting = None /\ T[c].position = "standing"
  <1> DEFINE w == S[c].fighting
             U == IF w = None THEN S
                  ELSE IF S[w].stage = "in" THEN [S EXCEPT ![w].num = @ - 1] ELSE S
             T == FreeFight(S, c)
  <1>1. T = [U EXCEPT ![c].fighting = None, ![c].position = "standing"]
    BY DEF FreeFight
  <1>2. w \in Chars \cup {None}
    BY DEF Typed, Char
  <1>3. Typed(U) /\ \A x \in Chars : Same(S[x], U[x])
    BY <1>2 DEF Typed, Same, Char
  <1> HIDE DEF U
  <1>5. T[c] = [U[c] EXCEPT !.fighting = None, !.position = "standing"]
    BY <1>1, <1>3 DEF Typed
  <1>7. U[c] \in Char /\ None \in Chars \cup {None} /\ "standing" \in Positions
    BY <1>3 DEF Typed, Positions
  <1>8. T[c] \in Char
    BY <1>5, <1>7 DEF Char
  <1>4. Typed(T) /\ \A x \in Chars : x # c => T[x] = U[x]
    BY <1>1, <1>3, <1>8 DEF Typed
  <1> HIDE DEF T
  <1>6. /\ T[c].stage = U[c].stage /\ T[c].room = U[c].room /\ T[c].hit = U[c].hit
        /\ T[c].still = U[c].still /\ T[c].fighting = None /\ T[c].position = "standing"
    BY <1>3, <1>5 DEF Typed, Char
  <1> QED BY <1>3, <1>4, <1>6 DEF Same, T

LEMMA LeaveType ==
  ASSUME NEW S, Typed(S), NEW c \in Chars
  PROVE  LET T == Leave(S, c) IN
         /\ Loosened(S, T)
         /\ Eased(c, S[c], T[c])
         /\ \A x \in Chars : x # c => Same(S[x], T[x])
  <1> DEFINE U == FreeFight(S, c)
  <1>1. /\ Typed(U)
        /\ \A x \in Chars : x # c => Same(S[x], U[x])
        /\ U[c].stage = S[c].stage /\ U[c].room = S[c].room /\ U[c].hit = S[c].hit
        /\ U[c].still = S[c].still /\ U[c].fighting = None /\ U[c].position = "standing"
    BY FreeFightType
  <1> HIDE DEF U
  <1> DEFINE T == UpdatePos(U, c)
  <1>2. /\ Typed(T)
        /\ \A x \in Chars : x # c => T[x] = U[x]
        /\ T[c].stage = U[c].stage /\ T[c].room = U[c].room /\ T[c].hit = U[c].hit
        /\ T[c].still = U[c].still /\ T[c].fighting = U[c].fighting
        /\ U[c].hit # "well" => T[c].position = (IF c \in Mobs THEN "dead" ELSE U[c].hit)
        /\ U[c].hit = "well" =>
               T[c].position = IF U[c].still THEN "stunned"
                               ELSE IF U[c].position \in Down THEN "standing" ELSE U[c].position
    BY <1>1, UpdatePosType
  <1>3. T = Leave(S, c)
    BY DEF Leave, U
  <1> HIDE DEF T
  <1>4. Eased(c, S[c], T[c])
    BY <1>1, <1>2 DEF Eased, Down, Bands
  <1>5. \A x \in Chars : x # c => Same(S[x], T[x])
    BY <1>1, <1>2
  <1> QED BY <1>2, <1>3, <1>4, <1>5 DEF Loosened


LEMMA AbandonType ==
  ASSUME NEW S, Typed(S), NEW c \in Chars
  PROVE  LET T == Abandon(S, c) IN
         /\ Loosened(S, T)
         /\ \A x \in Fighting(S, c) : Eased(x, S[x], T[x])
         /\ \A x \in Chars : x \notin Fighting(S, c) => Same(S[x], T[x])
  <1> DEFINE all == Fighting(S, c)
             Alone(f) == UpdatePos([S EXCEPT ![f].fighting = None, ![f].position = "standing"], f)[f]
             Parted(f) == IF f \in all THEN Alone(f) ELSE S[f]
             T == [f \in Chars |->
                     [Parted(f) EXCEPT !.num =
                         IF f = c /\ S[c].stage = "in" THEN @ - Cardinality(all) ELSE @]]
  <1>1. T = Abandon(S, c)
    BY DEF Abandon
  <1>2. Cardinality(all) \in Int
    <2>1. all \subseteq Chars
      BY DEF Fighting, In
    <2>2. IsFiniteSet(all)
      BY <2>1, FightsFacts, FS_Subset
    <2> QED BY <2>2, FS_CardinalityType
  <1>3. \A f \in Chars : Alone(f) \in Char /\ Eased(f, S[f], Alone(f))
    <2> SUFFICES ASSUME NEW f \in Chars PROVE Alone(f) \in Char /\ Eased(f, S[f], Alone(f))
      OBVIOUS
    <2> DEFINE U == [S EXCEPT ![f].fighting = None, ![f].position = "standing"]
               V == UpdatePos(U, f)
    <2>1. U[f] = [S[f] EXCEPT !.fighting = None, !.position = "standing"]
      BY DEF Typed
    <2>2. S[f] \in Char /\ "standing" \in Positions
      BY DEF Typed, Positions
    <2>3. /\ U[f] \in Char /\ U[f].fighting = None /\ U[f].position = "standing"
          /\ U[f].stage = S[f].stage /\ U[f].room = S[f].room /\ U[f].hit = S[f].hit
          /\ U[f].still = S[f].still
      <3> HIDE DEF U
      <3>1. U[f] \in Char
        BY <2>1, <2>2 DEF Char
      <3> QED BY <3>1, <2>1, <2>2 DEF Char
    <2>4. Typed(U)
      BY <2>3 DEF Typed
    <2> HIDE DEF U
    <2>5. /\ Typed(V)
          /\ V[f].stage = U[f].stage /\ V[f].room = U[f].room /\ V[f].hit = U[f].hit
          /\ V[f].still = U[f].still /\ V[f].fighting = U[f].fighting
          /\ U[f].hit # "well" => V[f].position = (IF f \in Mobs THEN "dead" ELSE U[f].hit)
          /\ U[f].hit = "well" =>
                 V[f].position = IF U[f].still THEN "stunned"
                                 ELSE IF U[f].position \in Down THEN "standing" ELSE U[f].position
      BY <2>4, UpdatePosType
    <2> HIDE DEF V
    <2>6. V[f] \in Char /\ Eased(f, S[f], V[f])
      BY <2>3, <2>5 DEF Eased, Typed, Down, Bands
    <2> QED BY <2>6 DEF U, V
  <1> HIDE DEF Alone, all
  <1>4. \A f \in Chars : Parted(f) \in Char /\ T[f] \in Char /\ Same(Parted(f), T[f])
    <2> SUFFICES ASSUME NEW f \in Chars
                 PROVE  Parted(f) \in Char /\ T[f] \in Char /\ Same(Parted(f), T[f])
      OBVIOUS
    <2>1. Parted(f) \in Char
      BY <1>3 DEF Typed
    <2> DEFINE n == IF f = c /\ S[c].stage = "in" THEN Parted(f).num - Cardinality(all)
                    ELSE Parted(f).num
    <2>2. T[f] = [Parted(f) EXCEPT !.num = n]
      OBVIOUS
    <2>3. n \in Int
      BY <1>2, <2>1 DEF Char
    <2> HIDE DEF n, Parted
    <2> QED BY <2>1, <2>2, <2>3 DEF Char, Same
  <1>5. \A x \in all : Eased(x, S[x], T[x])
    <2> SUFFICES ASSUME NEW x \in all PROVE Eased(x, S[x], T[x])
      OBVIOUS
    <2>1. x \in Chars
      BY DEF all, Fighting, In
    <2>2. Same(Alone(x), T[x]) /\ Eased(x, S[x], Alone(x))
      BY <1>3, <1>4, <2>1
    <2> HIDE DEF T
    <2> QED BY <2>2 DEF Same, Eased
  <1>6. \A x \in Chars : x \notin all => Same(S[x], T[x])
    BY <1>4
  <1>7. Typed(T)
    BY <1>4 DEF Typed
  <1> HIDE DEF T
  <1> QED BY <1>1, <1>5, <1>6, <1>7 DEF all, Loosened

\* Who is stopped fights nobody and is fought by nobody.
LEMMA StopType ==
  ASSUME NEW S, Typed(S), NEW c \in Chars
  PROVE  LET T == Stop(S, c) IN
         Loosened(S, T) /\ Eased(c, S[c], T[c]) /\ Fighting(T, c) = {}
  <1> DEFINE U == Leave(S, c)
             T == Abandon(U, c)
  <1>1. Loosened(S, U) /\ Eased(c, S[c], U[c]) /\ \A x \in Chars : x # c => Same(S[x], U[x])
    BY LeaveType
  <1> HIDE DEF U
  <1>2. Typed(U)
    BY <1>1 DEF Loosened
  <1>3. /\ Loosened(U, T)
        /\ \A x \in Fighting(U, c) : Eased(x, U[x], T[x])
        /\ \A x \in Chars : x \notin Fighting(U, c) => Same(U[x], T[x])
    BY <1>2, AbandonType
  <1>4. T = Stop(S, c)
    BY DEF Stop, U
  <1> HIDE DEF T
  <1>5. Typed(T)
    BY <1>3 DEF Loosened
  <1>6. Eased(c, S[c], T[c])
    BY <1>1, <1>3 DEF Loosened, Same, Eased
  <1>7. \A x \in Chars : Same(S[x], T[x]) \/ Eased(x, S[x], T[x])
    <2> SUFFICES ASSUME NEW x \in Chars, x # c PROVE Same(S[x], T[x]) \/ Eased(x, S[x], T[x])
      BY <1>6
    <2>1. Same(S[x], U[x]) /\ (Same(U[x], T[x]) \/ Eased(x, U[x], T[x]))
      BY <1>1, <1>3 DEF Loosened
    <2> QED BY <2>1 DEF Same, Eased
  <1>8. Fighting(T, c) = {}
    <2> SUFFICES ASSUME NEW x \in Fighting(T, c) PROVE FALSE
      OBVIOUS
    <2>1. x \in Chars /\ T[x].stage = "in" /\ T[x].fighting = c /\ c # None
      BY FightsFacts DEF Fighting, In
    <2>2. CASE x \in Fighting(U, c)
      BY <1>3, <2>1, <2>2 DEF Eased
    <2>3. CASE x \notin Fighting(U, c)
      BY <1>3, <2>1, <2>3 DEF Same, Fighting, In
    <2> QED BY <2>2, <2>3
  <1> QED BY <1>4, <1>5, <1>6, <1>7, <1>8 DEF Loosened

-----------------------------------------------------------------------------
(* What they do to the invariant. *)

LEMMA LoosenedKeeps ==
  ASSUME NEW S, NEW T, Loosened(S, T), NEW v, HaleBut(S, v)
  PROVE  HaleBut(T, v) /\ (Roomed(S) => Roomed(T)) /\ In(T) = In(S)
  <1>1. In(T) = In(S)
    BY DEF Loosened, Same, Eased, In
  <1>2. ASSUME NEW c \in In(T), c # v PROVE Hale(c, T[c])
    <2>1. c \in Chars /\ Hale(c, S[c])
      BY <1>1, <1>2 DEF HaleBut, In
    <2>2. CASE Same(S[c], T[c])
      BY <2>1, <2>2 DEF Same, Hale
    <2>3. CASE Eased(c, S[c], T[c])
      <3>1. T[c].hit = S[c].hit /\ T[c].hit # "dead" /\ (c \in Mobs => T[c].hit = "well")
        BY <2>1, <2>3 DEF Eased, Hale
      <3> QED BY <2>3, <3>1 DEF Eased, Hale
    <2> QED BY <2>1, <2>2, <2>3 DEF Loosened
  <1>3. ASSUME NEW f \in In(T), NEW c \in In(T), T[f].fighting = c, c # v PROVE T[c].hit = "well"
    <2>1. f \in Chars /\ c \in Chars /\ c # None
      BY FightsFacts DEF In
    <2>2. S[f].fighting = c /\ T[c].hit = S[c].hit
      BY <1>3, <2>1 DEF Loosened, Same, Eased
    <2> QED BY <1>1, <1>3, <2>2 DEF HaleBut
  <1>4. Roomed(S) => Roomed(T)
    BY DEF Roomed, Loosened, Same, Eased
  <1> QED BY <1>1, <1>2, <1>3, <1>4 DEF HaleBut

\* A handler that loosens fights keeps all.
LEMMA LoosenedGood == ASSUME NEW S, NEW T, Good(S), Loosened(S, T) PROVE Good(T)
  BY LoosenedKeeps DEF Good, Loosened

LEMMA StopGood ==
  ASSUME NEW S, Typed(S), NEW c \in Chars, NEW v, HaleBut(S, v)
  PROVE  LET T == Stop(S, c) IN Typed(T) /\ (Roomed(S) => Roomed(T)) /\ HaleBut(T, v)
  <1> DEFINE T == Stop(S, c)
  <1>1. Loosened(S, T)
    BY StopType
  <1> HIDE DEF T
  <1>2. Typed(T) /\ (Roomed(S) => Roomed(T)) /\ HaleBut(T, v)
    BY <1>1, LoosenedKeeps DEF Loosened
  <1> QED BY <1>2 DEF T

LEMMA ExtractGood ==
  ASSUME NEW S, Typed(S), Roomed(S), NEW c \in Chars, NEW v, HaleBut(S, v)
  PROVE  LET T == Extract(S, c) IN Typed(T) /\ Roomed(T) /\ HaleBut(T, v) /\ c \notin In(T)
  <1> DEFINE Q == [S EXCEPT ![c].stage = "queued"]
             U == IF S[c].fighting # None THEN Stop(Q, c) ELSE Q
             T == [U EXCEPT ![c].room = None]
  <1>1. Q[c] = [S[c] EXCEPT !.stage = "queued"] /\ \A x \in Chars : x # c => Q[x] = S[x]
    BY DEF Typed
  <1>2. S[c] \in Char
    BY DEF Typed
  <1>3. Q[c] \in Char
    <2> HIDE DEF Q
    <2> QED BY <1>1, <1>2 DEF Char
  <1>4. Typed(Q)
    BY <1>3 DEF Typed
  <1>5. Q[c].stage = "queued"
    <2> HIDE DEF Q
    <2> QED BY <1>1, <1>2 DEF Char
  <1> HIDE DEF Q
  <1>6. In(Q) = In(S) \ {c}
    BY <1>1, <1>5 DEF In
  <1>7. HaleBut(Q, v)
    <2>1. \A x \in In(Q) : Q[x] = S[x]
      BY <1>1, <1>6 DEF In
    <2> QED BY <1>6, <2>1 DEF HaleBut
  <1>8. Typed(U) /\ HaleBut(U, v) /\ \A x \in Chars : U[x].stage = Q[x].stage /\ U[x].room = Q[x].room
    <2>1. CASE S[c].fighting # None
      <3>1. Loosened(Q, U)
        BY <1>4, <2>1, StopType
      <3> HIDE DEF U
      <3> QED BY <1>7, <3>1, LoosenedKeeps DEF Loosened, Same, Eased
    <2>2. CASE S[c].fighting = None
      BY <1>4, <1>7, <2>2
    <2> QED BY <2>1, <2>2
  <1> HIDE DEF U
  <1>9. T[c] = [U[c] EXCEPT !.room = None] /\ \A x \in Chars : x # c => T[x] = U[x]
    BY <1>8 DEF Typed
  <1>10. U[c] \in Char
    BY <1>8 DEF Typed
  <1>11. Typed(T)
    <2>1. T[c] \in Char
      <3> HIDE DEF T
      <3> QED BY <1>9, <1>10 DEF Char
    <2> QED BY <1>8, <2>1 DEF Typed
  <1>12. T = Extract(S, c)
    BY DEF Extract, T, U, Q
  <1> HIDE DEF T
  <1>13. T[c].stage = "queued" /\ T[c].room = None
    <2>1. T[c].stage = U[c].stage /\ T[c].room = None
      BY <1>9, <1>10 DEF Char
    <2> QED BY <2>1, <1>5, <1>8
  <1>14. In(T) = In(Q) /\ \A x \in In(T) : T[x] = U[x]
    BY <1>5, <1>8, <1>9, <1>13 DEF In
  <1>15. HaleBut(T, v)
    <2>1. In(U) = In(Q)
      BY <1>8 DEF In
    <2> QED BY <1>8, <1>14, <2>1 DEF HaleBut
  <1>16. Roomed(T)
    <2> SUFFICES ASSUME NEW x \in Chars, x # c PROVE T[x].stage = "in" <=> T[x].room # None
      BY <1>13 DEF Roomed
    <2>1. T[x].stage = S[x].stage /\ T[x].room = S[x].room
      BY <1>1, <1>8, <1>9
    <2> QED BY <2>1 DEF Roomed
  <1>17. c \notin In(T)
    BY <1>13 DEF In
  <1> QED BY <1>11, <1>12, <1>15, <1>16, <1>17

\* Once the exception is out of the game or lies as he should there is none.
LEMMA NoException ==
  ASSUME NEW S, NEW v \in Chars, HaleBut(S, v),
         v \in In(S) => Hale(v, S[v]) /\ (S[v].hit # "well" => Fighting(S, v) = {})
  PROVE  HaleBut(S, None)
  BY DEF HaleBut, Fighting

\* Two who have points take up a fight.
LEMMA SetFightingGood ==
  ASSUME NEW S, Typed(S), NEW c \in Chars, NEW d \in Chars, HaleBut(S, None),
         c \in In(S) => S[c].hit = "well", d \in In(S) => S[d].hit = "well"
  PROVE  LET T == SetFighting(S, c, d) IN
         /\ Typed(T) /\ (Roomed(S) => Roomed(T)) /\ HaleBut(T, None) /\ In(T) = In(S)
         /\ \A x \in Chars : /\ T[x].hit = S[x].hit /\ T[x].stage = S[x].stage
                             /\ T[x].room = S[x].room /\ T[x].still = S[x].still
  <1> DEFINE A == [S EXCEPT ![c].num = 1, ![c].fighting = d, ![c].position = "fighting"]
             B == [A EXCEPT ![d].num = @ + 1]
  <1>1. CASE SetFighting(S, c, d) = S
    BY <1>1
  <1>2. CASE SetFighting(S, c, d) = B
    <2>1. /\ A[c] = [S[c] EXCEPT !.num = 1, !.fighting = d, !.position = "fighting"]
          /\ \A x \in Chars : x # c => A[x] = S[x]
      BY DEF Typed
    <2>2. S[c] \in Char /\ "fighting" \in Positions /\ d \in Chars \cup {None}
      BY DEF Typed, Positions
    <2>3. A[c] \in Char
      <3> HIDE DEF A
      <3>1. PICK r \in Char : r = S[c]
        BY <2>2
      <3>2. A[c] = [stage |-> r.stage, room |-> r.room, fighting |-> d, num |-> 1, hit |-> r.hit,
                    position |-> "fighting", still |-> r.still]
        BY <2>1, <3>1, CharShape
      <3> QED BY <2>2, <3>2 DEF Char
    <2>4. Typed(A)
      BY <2>3 DEF Typed
    <2> HIDE DEF A
    <2>5. /\ A[c].fighting = d /\ A[c].position = "fighting" /\ A[c].stage = S[c].stage
          /\ A[c].room = S[c].room /\ A[c].hit = S[c].hit /\ A[c].still = S[c].still
      BY <2>1, <2>2 DEF Char
    <2>6. Typed(B) /\ \A x \in Chars : Same(A[x], B[x])
      BY <2>4 DEF Typed, Char, Same
    <2> HIDE DEF B
    <2>7. \A x \in Chars : /\ B[x].hit = S[x].hit /\ B[x].stage = S[x].stage
                           /\ B[x].room = S[x].room /\ B[x].still = S[x].still
      <3> TAKE x \in Chars
      <3>1. /\ A[x].hit = S[x].hit /\ A[x].stage = S[x].stage
            /\ A[x].room = S[x].room /\ A[x].still = S[x].still
        BY <2>1, <2>5
      <3>2. Same(A[x], B[x])
        BY <2>6
      <3> QED BY <3>1, <3>2 DEF Same
    <2>8. In(B) = In(S)
      BY <2>7 DEF In
    <2>9. B[c].position = "fighting" /\ B[c].fighting = d
          /\ \A x \in Chars : x # c => Same(S[x], B[x])
      <3>1. Same(A[c], B[c])
        BY <2>6
      <3>2. \A x \in Chars : x # c => Same(S[x], B[x])
        BY <2>1, <2>6
      <3> QED BY <2>5, <3>1, <3>2 DEF Same
    <2>10. ASSUME NEW x \in In(B) PROVE Hale(x, B[x])
      <3>1. x \in Chars /\ x \in In(S) /\ Hale(x, S[x])
        BY <2>8, FightsFacts DEF HaleBut, In
      <3>2. CASE x = c
        <4>1. B[c].hit = "well" /\ Hale(c, S[c])
          BY <2>7, <3>1, <3>2
        <4> QED BY <2>9, <3>2, <4>1 DEF Hale
      <3>3. CASE x # c
        BY <2>9, <3>1, <3>3 DEF Hale, Same
      <3> QED BY <3>2, <3>3
    <2>11. ASSUME NEW f \in In(B), NEW x \in In(B), B[f].fighting = x PROVE B[x].hit = "well"
      <3>1. x \in Chars /\ f \in Chars /\ x # None /\ x \in In(S) /\ f \in In(S)
        BY <2>8, FightsFacts DEF In
      <3>2. CASE f = c
        BY <2>7, <2>9, <2>11, <3>1, <3>2
      <3>3. CASE f # c
        BY <2>7, <2>9, <2>11, <3>1, <3>3 DEF HaleBut, Same
      <3> QED BY <3>2, <3>3
    <2>12. Roomed(S) => Roomed(B)
      BY <2>7 DEF Roomed
    <2> QED BY <1>2, <2>6, <2>7, <2>8, <2>10, <2>11, <2>12 DEF HaleBut
  <1> QED BY <1>1, <1>2 DEF SetFighting

LEMMA WellWhenUp == ASSUME NEW S, Good(S), NEW c \in In(S), S[c].position \notin Down
                    PROVE  S[c].hit = "well"
  <1>1. c \in Chars /\ c # None /\ S[c] \in Char
    BY FightsFacts DEF In, Good, Typed
  <1>2. Hale(c, S[c]) /\ S[c].hit \in Bands
    BY <1>1 DEF Good, HaleBut, Char
  <1> QED BY <1>2 DEF Hale, Down

LEMMA MeetGood ==
  ASSUME NEW S, Good(S), NEW c \in In(S), NEW v \in In(S), S[c].hit = "well"
  PROVE  LET T == Meet(S, c, v) IN
         /\ Good(T)
         /\ \A x \in Chars : T[x].hit = S[x].hit /\ T[x].stage = S[x].stage
  <1>1. CASE c = v \/ S[v].position \in Down
    BY <1>1 DEF Meet
  <1>2. CASE ~ (c = v \/ S[v].position \in Down)
    <2> DEFINE A == SetFighting(S, v, c)
               B == IF A[v].fighting = None THEN A ELSE [A EXCEPT ![v].position = "fighting"]
               T == SetFighting(B, c, v)
    <2>1. c \in Chars /\ v \in Chars /\ S[v].hit = "well"
      BY <1>2, WellWhenUp DEF In
    <2>2. /\ Typed(A) /\ Roomed(A) /\ HaleBut(A, None) /\ In(A) = In(S)
          /\ \A x \in Chars : A[x].hit = S[x].hit /\ A[x].stage = S[x].stage
      BY <2>1, SetFightingGood DEF Good
    <2>3. T = Meet(S, c, v)
      BY <1>2 DEF Meet
    <2> HIDE DEF A
    <2>4. /\ Typed(B) /\ Roomed(B) /\ HaleBut(B, None)
          /\ \A x \in Chars : B[x].hit = A[x].hit /\ B[x].stage = A[x].stage
      <3>1. CASE A[v].fighting = None
        BY <2>2, <3>1
      <3>2. CASE A[v].fighting # None
        <4>1. /\ B[v] = [A[v] EXCEPT !.position = "fighting"]
              /\ \A x \in Chars : x # v => B[x] = A[x]
          <5>1. B = [A EXCEPT ![v].position = "fighting"]
            BY <3>2
          <5> HIDE DEF B
          <5> QED BY <5>1, <2>1, <2>2 DEF Typed
        <4>2. A[v] \in Char /\ "fighting" \in Positions
          BY <2>1, <2>2 DEF Typed, Positions
        <4>3. Typed(B)
          <5>1. B[v] \in Char
            <6> HIDE DEF B
            <6> QED BY <4>1, <4>2 DEF Char
          <5>2. B = [A EXCEPT ![v].position = "fighting"]
            BY <3>2
          <5> HIDE DEF B
          <5> QED BY <5>1, <5>2, <2>2, <4>1 DEF Typed
        <4> HIDE DEF B
        <4>4. /\ B[v].position = "fighting" /\ B[v].stage = A[v].stage /\ B[v].room = A[v].room
              /\ B[v].hit = A[v].hit /\ B[v].still = A[v].still /\ B[v].fighting = A[v].fighting
          BY <4>1, <4>2 DEF Char
        <4>5. A[v].hit = "well"
          BY <2>1, <2>2
        <4>6. \A x \in Chars : /\ B[x].stage = A[x].stage /\ B[x].hit = A[x].hit
                               /\ B[x].fighting = A[x].fighting /\ B[x].room = A[x].room
          BY <4>1, <4>4
        <4>7. In(B) = In(A) /\ \A x \in In(B) : x \in Chars
          BY <4>6 DEF In
        <4>8. Roomed(B)
          BY <2>2, <4>6 DEF Roomed
        <4>9. ASSUME NEW x \in In(B) PROVE Hale(x, B[x])
          <5>1. Hale(x, A[x]) /\ x \in Chars
            BY <2>2, <4>7, FightsFacts DEF HaleBut
          <5>2. CASE x = v
            BY <4>4, <4>5, <5>1, <5>2 DEF Hale
          <5>3. CASE x # v
            BY <4>1, <5>1, <5>3
          <5> QED BY <5>2, <5>3
        <4>10. \A x, y \in In(B) : B[x].fighting = y /\ y # None => B[y].hit = "well"
          BY <2>2, <4>6, <4>7 DEF HaleBut
        <4> QED BY <4>3, <4>6, <4>8, <4>9, <4>10 DEF HaleBut
      <3> QED BY <3>1, <3>2
    <2> HIDE DEF B
    <2>5. B[c].hit = "well" /\ B[v].hit = "well"
      BY <2>1, <2>2, <2>4
    <2>6. /\ Typed(T) /\ Roomed(T) /\ HaleBut(T, None)
          /\ \A x \in Chars : T[x].hit = B[x].hit /\ T[x].stage = B[x].stage
      BY <2>1, <2>4, <2>5, SetFightingGood
    <2> HIDE DEF T
    <2>7. Good(T) /\ \A x \in Chars : T[x].hit = S[x].hit /\ T[x].stage = S[x].stage
      BY <2>2, <2>4, <2>6 DEF Good
    <2> QED BY <2>3, <2>7
  <1> QED BY <1>1, <1>2

LEMMA WoundType ==
  ASSUME NEW S, Good(S), NEW v \in Chars, NEW h \in Bands
  PROVE  LET T == Wound(S, v, h) IN
         /\ Typed(T) /\ Roomed(T) /\ HaleBut(T, v) /\ In(T) = In(S)
         /\ \A x \in Chars : x # v => T[x] = S[x]
         /\ T[v].hit = h /\ T[v].still = S[v].still /\ T[v].fighting = S[v].fighting
         /\ h # "well" => T[v].position = (IF v \in Mobs THEN "dead" ELSE h)
         /\ h = "well" =>
               T[v].position = IF S[v].still THEN "stunned"
                               ELSE IF S[v].position \in Down THEN "standing" ELSE S[v].position
  <1> DEFINE U == [S EXCEPT ![v].hit = h]
             T == UpdatePos(U, v)
  <1>1. U[v] = [S[v] EXCEPT !.hit = h] /\ (\A x \in Chars : x # v => U[x] = S[x])
        /\ S[v] \in Char
    BY DEF Good, Typed
  <1>2. U[v] \in Char
    <2> HIDE DEF U
    <2> QED BY <1>1 DEF Char
  <1>3. Typed(U)
    BY <1>2 DEF Typed, Good
  <1>4. T = Wound(S, v, h)
    BY DEF Wound
  <1> HIDE DEF U
  <1>5. /\ U[v].hit = h /\ U[v].still = S[v].still /\ U[v].fighting = S[v].fighting
        /\ U[v].stage = S[v].stage /\ U[v].room = S[v].room /\ U[v].position = S[v].position
    BY <1>1 DEF Char
  <1>6. /\ Typed(T)
        /\ \A x \in Chars : x # v => T[x] = U[x]
        /\ T[v].stage = U[v].stage /\ T[v].room = U[v].room /\ T[v].hit = U[v].hit
        /\ T[v].still = U[v].still /\ T[v].fighting = U[v].fighting
        /\ U[v].hit # "well" => T[v].position = (IF v \in Mobs THEN "dead" ELSE U[v].hit)
        /\ U[v].hit = "well" =>
               T[v].position = IF U[v].still THEN "stunned"
                               ELSE IF U[v].position \in Down THEN "standing" ELSE U[v].position
    BY <1>3, UpdatePosType
  <1> HIDE DEF T
  <1>7. /\ \A x \in Chars : x # v => T[x] = S[x]
        /\ T[v].stage = S[v].stage /\ T[v].room = S[v].room /\ T[v].fighting = S[v].fighting
    BY <1>1, <1>5, <1>6
  <1>8. In(T) = In(S)
    BY <1>7 DEF In
  <1>9. Roomed(T)
    BY <1>7 DEF Roomed, Good
  <1>10. HaleBut(T, v)
    <2>1. \A x \in In(T) : x \in Chars /\ x \in In(S) /\ x # None
      BY <1>8, FightsFacts DEF In
    <2>2. \A x \in In(T) : x # v => Hale(x, T[x])
      BY <1>7, <2>1 DEF Good, HaleBut
    <2>3. \A x \in In(T) : T[x].fighting = S[x].fighting
      BY <1>7, <2>1
    <2>4. \A x, y \in In(T) : T[x].fighting = y /\ y # v => T[y].hit = "well"
      BY <1>7, <2>1, <2>3 DEF Good, HaleBut
    <2> QED BY <2>2, <2>4 DEF HaleBut
  <1> QED BY <1>4, <1>5, <1>6, <1>7, <1>8, <1>9, <1>10

\* Whoever falls is an exception no more.
LEMMA FallGood ==
  ASSUME NEW S, Good(S), NEW v \in In(S), NEW h \in Bands, v \in Mobs => h \in {"well", "dead"}
  PROVE  LET T == Fall(Wound(S, v, h), v) IN Good(T)
  <1> DEFINE W == Wound(S, v, h)
             T == Fall(W, v)
  <1> SUFFICES Good(T)
    OBVIOUS
  <1>1. v \in Chars /\ v # None /\ v \in In(S) /\ S[v] \in Char
    BY FightsFacts DEF In, Good, Typed
  <1>2. /\ Typed(W) /\ Roomed(W) /\ HaleBut(W, v) /\ In(W) = In(S)
        /\ \A x \in Chars : x # v => W[x] = S[x]
        /\ W[v].hit = h /\ W[v].still = S[v].still /\ W[v].fighting = S[v].fighting
        /\ h # "well" => W[v].position = (IF v \in Mobs THEN "dead" ELSE h)
        /\ h = "well" =>
               W[v].position = IF S[v].still THEN "stunned"
                               ELSE IF S[v].position \in Down THEN "standing" ELSE S[v].position
    BY <1>1, WoundType
  <1> HIDE DEF W
  <1> DEFINE P == Stop(W, v)
  <1>3. Loosened(W, P) /\ Eased(v, W[v], P[v]) /\ Fighting(P, v) = {}
    BY <1>1, <1>2, StopType
  <1>4. Typed(P) /\ Roomed(P) /\ HaleBut(P, v)
    BY <1>2, <1>3, LoosenedKeeps DEF Loosened
  <1> HIDE DEF P
  <1>5. CASE W[v].position = "dead"
    <2> DEFINE E == Extract(P, v)
    <2>1. Typed(E) /\ Roomed(E) /\ HaleBut(E, v) /\ v \notin In(E)
      BY <1>1, <1>4, ExtractGood
    <2>2. T = E
      BY <1>5 DEF Fall, RawKill, P
    <2> HIDE DEF E, T
    <2>3. HaleBut(E, None)
      BY <1>1, <2>1, NoException
    <2> QED BY <2>1, <2>2, <2>3 DEF Good
  <1>6. CASE W[v].position # "dead" /\ ((W[v].position \in Down /\ ~ W[v].still)
                                          \/ (v \in Players /\ W[v].hit # "well"))
    <2>1. T = P
      BY <1>6 DEF Fall, P
    <2>2. v \in Mobs => h = "well"
      BY <1>2, <1>6
    <2>3. Hale(v, P[v])
      BY <1>2, <1>3, <1>6, <2>2 DEF Eased, Hale
    <2> HIDE DEF T
    <2>4. HaleBut(P, None)
      BY <1>1, <1>3, <1>4, <2>3, NoException
    <2> QED BY <1>4, <2>1, <2>4 DEF Good
  <1>7. CASE W[v].position # "dead" /\ ~ ((W[v].position \in Down /\ ~ W[v].still)
                                             \/ (v \in Players /\ W[v].hit # "well"))
    <2>1. T = W
      BY <1>7 DEF Fall
    <2>2. h = "well"
      BY <1>1, <1>2, <1>7 DEF Chars
    <2>3. W[v].position \in {"fighting", "standing"} \/ (W[v].position = "stunned" /\ W[v].still)
      BY <1>1, <1>2, <2>2 DEF Char, Positions
    <2>4. v \in Mobs => W[v].hit = "well"
      BY <1>2, <2>2
    <2>5. Hale(v, W[v])
      BY <1>2, <2>2, <2>3 DEF Hale
    <2> HIDE DEF T
    <2>6. HaleBut(W, None)
      BY <1>1, <1>2, <2>2, <2>5, NoException
    <2> QED BY <1>2, <2>1, <2>6 DEF Good
  <1> QED BY <1>5, <1>6, <1>7

LEMMA MoveGood ==
  ASSUME NEW S, Good(S), NEW c \in In(S), NEW r \in Rooms
  PROVE  LET T == [S EXCEPT ![c].room = r] IN
         Good(T) /\ \A x \in Chars : T[x].stage = S[x].stage
  <1> DEFINE T == [S EXCEPT ![c].room = r]
  <1>1. /\ T[c] = [S[c] EXCEPT !.room = r] /\ \A x \in Chars : x # c => T[x] = S[x]
        /\ S[c] \in Char /\ c \in Chars /\ c # None /\ r # None
    BY FightsFacts DEF Good, Typed, In
  <1>2. T[c] \in Char
    <2> HIDE DEF T
    <2> QED BY <1>1 DEF Char
  <1>3. Typed(T)
    BY <1>2 DEF Good, Typed
  <1> HIDE DEF T
  <1>4. /\ T[c].stage = S[c].stage /\ T[c].hit = S[c].hit /\ T[c].position = S[c].position
        /\ T[c].fighting = S[c].fighting /\ T[c].still = S[c].still /\ T[c].room = r
    BY <1>1 DEF Char
  <1>5. In(T) = In(S) /\ c \in In(S) /\ S[c].stage = "in"
    BY <1>1, <1>4 DEF In
  <1>6. Roomed(T)
    BY <1>1, <1>4, <1>5 DEF Good, Roomed
  <1>7. \A x \in In(T) : x \in Chars /\ x \in In(S) /\ x # None
    BY <1>5, FightsFacts DEF In
  <1>8. \A x \in In(T) : Hale(x, T[x])
    <2> SUFFICES ASSUME NEW x \in In(T) PROVE Hale(x, T[x])
      OBVIOUS
    <2>1. Hale(x, S[x])
      BY <1>7 DEF Good, HaleBut
    <2>2. CASE x = c
      BY <1>4, <2>1, <2>2 DEF Hale
    <2>3. CASE x # c
      BY <1>1, <1>7, <2>1, <2>3
    <2> QED BY <2>2, <2>3
  <1>9. \A x \in In(T) : T[x].fighting = S[x].fighting /\ T[x].hit = S[x].hit
    BY <1>1, <1>4, <1>7
  <1>10. \A x, y \in In(T) : T[x].fighting = y => T[y].hit = "well"
    BY <1>7, <1>9 DEF Good, HaleBut
  <1>11. Good(T) /\ \A x \in Chars : T[x].stage = S[x].stage
    BY <1>1, <1>3, <1>4, <1>6, <1>8, <1>10 DEF Good, HaleBut
  <1> QED BY <1>11 DEF T

LEMMA FleeGood ==
  ASSUME NEW S, Good(S), NEW c \in In(S), NEW r \in Rooms
  PROVE  LET T == Flee(S, c, r) IN Good(T) /\ In(T) = In(S)
  <1> DEFINE U == [S EXCEPT ![c].room = r]
             T == Stop(U, c)
  <1>1. Good(U) /\ (\A x \in Chars : U[x].stage = S[x].stage) /\ c \in Chars
    BY MoveGood DEF In
  <1> HIDE DEF U
  <1>2. Loosened(U, T)
    BY <1>1, StopType DEF Good
  <1> HIDE DEF T
  <1>3. Good(T)
    BY <1>1, <1>2, LoosenedGood
  <1>4. In(T) = In(S)
    BY <1>1, <1>2 DEF In, Loosened, Same, Eased
  <1> QED BY <1>3, <1>4 DEF Flee, T, U

LEMMA ExtractGoodAll ==
  ASSUME NEW S, Good(S), NEW c \in Chars
  PROVE  LET T == Extract(S, c) IN Good(T)
  BY ExtractGood DEF Good

LEMMA SequelGood ==
  ASSUME NEW S, Good(S), NEW v \in Chars, NEW how, NEW r \in Rooms
  PROVE  LET T == Sequel(S, v, how, r) IN Good(T)
  <1> DEFINE U == Flee(S, v, r)
  <1>1. CASE S[v].stage # "in" \/ how = "stay"
    BY <1>1 DEF Sequel
  <1>2. CASE ~ (S[v].stage # "in" \/ how = "stay")
    <2>1. v \in In(S)
      BY <1>2 DEF In
    <2>2. Good(U)
      BY <2>1, FleeGood
    <2>3. Sequel(S, v, how, r) = IF how = "flee" THEN U ELSE QuitIn(U, v)
      BY <1>2 DEF Sequel
    <2> HIDE DEF U
    <2>4. Good(QuitIn(U, v))
      BY <2>2, ExtractGoodAll DEF QuitIn
    <2> QED BY <2>2, <2>3, <2>4
  <1> QED BY <1>1, <1>2

\* A hit of one who has points, at whomever
LEMMA HitsGood ==
  ASSUME NEW S, Good(S), NEW c \in In(S), S[c].hit = "well", NEW v \in Chars,
         NEW T \in Hits(S, c, v)
  PROVE  Good(T)
  <1>1. CASE Misses(S, c, v)
    BY <1>1 DEF Hits
  <1>2. CASE ~ Misses(S, c, v)
    <2> DEFINE M == Meet(S, c, v)
    <2>1. v \in In(S)
      BY <1>2 DEF Misses, Good, Roomed, In
    <2>2. Good(M) /\ \A x \in Chars : M[x].hit = S[x].hit /\ M[x].stage = S[x].stage
      BY <2>1, MeetGood
    <2>3. PICK h \in Worse(v, S[v].hit), how \in {"stay", "flee", "leave"}, r \in Rooms :
             T = Sequel(Fall(Wound(M, v, h), v), v, how, r)
      BY <1>2 DEF Hits
    <2> HIDE DEF M
    <2>4. v \in In(M)
      BY <2>1, <2>2 DEF In
    <2>5. h \in Bands /\ (v \in Mobs => h \in {"well", "dead"})
      <3>1. Hale(v, S[v]) /\ S[v].hit \in Bands
        BY <2>1, FightsFacts DEF Good, HaleBut, Typed, Char
      <3> QED BY <2>3, <3>1 DEF Worse, Bands, Down, Hale
    <2> DEFINE F == Fall(Wound(M, v, h), v)
    <2>6. Good(F)
      BY <2>2, <2>4, <2>5, FallGood
    <2> HIDE DEF F
    <2>7. Good(Sequel(F, v, how, r))
      BY <2>6, SequelGood
    <2> QED BY <2>3, <2>7 DEF F
  <1> QED BY <1>1, <1>2

LEMMA LeaveGood == ASSUME NEW S, Good(S), NEW c \in Chars
                   PROVE  LET T == Leave(S, c) IN Good(T) /\ Loosened(S, T)
  <1> DEFINE T == Leave(S, c)
  <1>1. Loosened(S, T)
    BY LeaveType DEF Good
  <1> HIDE DEF T
  <1>2. Good(T)
    BY <1>1, LoosenedGood
  <1> QED BY <1>1, <1>2 DEF T

LEMMA StopAllGood == ASSUME NEW S, Good(S), NEW c \in Chars
                     PROVE  LET T == Stop(S, c) IN Good(T) /\ In(T) = In(S)
  <1> DEFINE T == Stop(S, c)
  <1>1. Loosened(S, T)
    BY StopType DEF Good
  <1> HIDE DEF T
  <1>2. Good(T) /\ In(T) = In(S)
    BY <1>1, LoosenedGood DEF Loosened, Same, Eased, In
  <1> QED BY <1>2 DEF T

\* A stun begins or wears off.
LEMMA StillGood ==
  ASSUME NEW S, Good(S), NEW v \in Chars, NEW b \in BOOLEAN
  PROVE  LET T == UpdatePos([S EXCEPT ![v].still = b], v) IN Good(T) /\ In(T) = In(S)
  <1> DEFINE U == [S EXCEPT ![v].still = b]
             T == UpdatePos(U, v)
  <1>1. U[v] = [S[v] EXCEPT !.still = b] /\ (\A x \in Chars : x # v => U[x] = S[x])
        /\ S[v] \in Char
    BY DEF Good, Typed
  <1>2. U[v] \in Char
    <2> HIDE DEF U
    <2> QED BY <1>1 DEF Char
  <1>3. Typed(U)
    BY <1>2 DEF Typed, Good
  <1> HIDE DEF U
  <1>5. /\ U[v].hit = S[v].hit /\ U[v].still = b /\ U[v].fighting = S[v].fighting
        /\ U[v].stage = S[v].stage /\ U[v].room = S[v].room /\ U[v].position = S[v].position
    BY <1>1 DEF Char
  <1>6. /\ Typed(T)
        /\ \A x \in Chars : x # v => T[x] = U[x]
        /\ T[v].stage = U[v].stage /\ T[v].room = U[v].room /\ T[v].hit = U[v].hit
        /\ T[v].still = U[v].still /\ T[v].fighting = U[v].fighting
        /\ U[v].hit # "well" => T[v].position = (IF v \in Mobs THEN "dead" ELSE U[v].hit)
        /\ U[v].hit = "well" =>
               T[v].position = IF U[v].still THEN "stunned"
                               ELSE IF U[v].position \in Down THEN "standing" ELSE U[v].position
    BY <1>3, UpdatePosType
  <1> HIDE DEF T
  <1>7. /\ \A x \in Chars : x # v => T[x] = S[x]
        /\ T[v].stage = S[v].stage /\ T[v].room = S[v].room /\ T[v].fighting = S[v].fighting
        /\ T[v].hit = S[v].hit
    BY <1>1, <1>5, <1>6
  <1>8. In(T) = In(S)
    BY <1>7 DEF In
  <1>9. Roomed(T)
    BY <1>7 DEF Roomed, Good
  <1>10. \A x \in In(T) : x \in Chars /\ x \in In(S) /\ x # None
    BY <1>8, FightsFacts DEF In
  <1>11. ASSUME NEW x \in In(T) PROVE Hale(x, T[x])
    <2>1. Hale(x, S[x])
      BY <1>10 DEF Good, HaleBut
    <2>2. CASE x = v
      <3>1. S[v].position \in Positions
        BY <1>1 DEF Char
      <3> QED BY <1>5, <1>6, <2>1, <2>2, <3>1 DEF Hale, Positions
    <2>3. CASE x # v
      BY <1>7, <1>10, <2>1, <2>3
    <2> QED BY <2>2, <2>3
  <1>12. \A x \in In(T) : T[x].fighting = S[x].fighting /\ T[x].hit = S[x].hit
    BY <1>7, <1>10
  <1>13. \A x, y \in In(T) : T[x].fighting = y => T[y].hit = "well"
    BY <1>10, <1>12 DEF Good, HaleBut
  <1>14. Good(T)
    BY <1>6, <1>9, <1>11, <1>13 DEF Good, HaleBut
  <1> QED BY <1>8, <1>14 DEF T, U

-----------------------------------------------------------------------------
(* The commands. *)

LEMMA ArriveGood == ASSUME IInv, NEW c \in Chars, NEW r \in Rooms, Arrive(c, r) PROVE Good(char')
  <1>1. /\ char' = [char EXCEPT ![c] = Fresh(r)] /\ Fighting(char, c) = {}
        /\ Typed(char) /\ Roomed(char) /\ HaleBut(char, None)
    BY DEF Arrive, IInv, Good
  <1>2. Fresh(r) \in Char /\ r # None /\ c # None
    BY FightsFacts DEF Fresh, Char, Bands, Positions
  <1>3. Typed(char')
    BY <1>1, <1>2 DEF Typed
  <1>4. char'[c] = Fresh(r) /\ \A x \in Chars : x # c => char'[x] = char[x]
    BY <1>1 DEF Typed
  <1>5. Roomed(char')
    BY <1>1, <1>2, <1>4 DEF Roomed, Fresh
  <1>6. \A x \in In(char') : x \in Chars /\ x # None /\ (x # c => x \in In(char))
    BY <1>4, FightsFacts DEF In
  <1>7. ASSUME NEW x \in In(char') PROVE Hale(x, char'[x])
    <2>1. CASE x = c
      BY <1>4, <2>1 DEF Hale, Fresh
    <2>2. CASE x # c
      BY <1>1, <1>4, <1>6, <2>2 DEF HaleBut
    <2> QED BY <2>1, <2>2
  <1>8. ASSUME NEW x \in In(char'), NEW y \in In(char'), char'[x].fighting = y
        PROVE  char'[y].hit = "well"
    <2>1. x # c /\ x \in In(char) /\ char[x].fighting = y
      BY <1>4, <1>6, <1>8 DEF Fresh
    <2>2. CASE y = c
      BY <1>4, <2>2 DEF Fresh
    <2>3. CASE y # c
      BY <1>1, <1>4, <1>6, <2>1, <2>3 DEF HaleBut
    <2> QED BY <2>2, <2>3
  <1> QED BY <1>3, <1>5, <1>7, <1>8 DEF Good, HaleBut

LEMMA StrikeGood ==
  ASSUME IInv, NEW c \in Chars, NEW v \in Chars, Strike(c, v) \/ Circle(c, v)
  PROVE  Good(char')
  <1>1. Good(char) /\ c \in In(char) /\ char[c].position \notin Down /\ char' \in Hits(char, c, v)
    BY DEF IInv, Strike, Circle, MayCircle, There, In, Awake
  <1> QED BY <1>1, WellWhenUp, HitsGood

LEMMA WalksGood ==
  ASSUME IInv, NEW c \in Chars, NEW r \in Rooms, Run(c, r) \/ Walk(c, r) \/ Transfer(c, r)
  PROVE  Good(char')
  <1>1. Good(char) /\ c \in In(char)
    BY DEF IInv, Run, Walk, Transfer, There, In
  <1>2. CASE Run(c, r)
    BY <1>1, <1>2, FleeGood DEF Run
  <1>3. CASE Walk(c, r)
    BY <1>1, <1>3, MoveGood DEF Walk
  <1>4. CASE Transfer(c, r)
    <2> DEFINE S == IF char[c].fighting # None THEN Stop(char, c) ELSE char
    <2>1. Good(S) /\ c \in In(S)
      BY <1>1, StopAllGood
    <2>2. char' = [S EXCEPT ![c].room = r]
      BY <1>4 DEF Transfer
    <2> HIDE DEF S
    <2> QED BY <2>1, <2>2, MoveGood
  <1> QED BY <1>2, <1>3, <1>4

LEMMA GoneGood == ASSUME IInv, NEW c \in Chars, Quit(c) \/ Purge(c) PROVE Good(char')
  <1>1. Good(char) /\ char' = Extract(char, c)
    BY DEF IInv, Quit, Purge
  <1> QED BY <1>1, ExtractGoodAll

LEMMA StunGood == ASSUME IInv, NEW c \in Chars, NEW first \in BOOLEAN, Stun(c, first)
                  PROVE  Good(char')
  <1> DEFINE v == char[c].fighting
             S == IF first THEN Stop(char, v) ELSE char
  <1>1. Good(char) /\ v \in Chars
    BY DEF IInv, Stun, Good, Typed, Char
  <1>2. Good(S)
    BY <1>1, StopAllGood
  <1>3. char' = UpdatePos([S EXCEPT ![v].still = TRUE], v)
    BY DEF Stun
  <1> HIDE DEF S, v
  <1> QED BY <1>1, <1>2, <1>3, StillGood

LEMMA RescueGood == ASSUME IInv, NEW c \in Chars, NEW v \in Chars, Rescue(c, v) PROVE Good(char')
  <1> DEFINE f == char[v].fighting
             A == Leave(char, f)
             B == Leave(A, v)
             D == IF B[c].fighting # None THEN Leave(B, c) ELSE B
             E == SetFighting(D, c, f)
             G == SetFighting(E, f, c)
  <1>1. Good(char) /\ f \in Chars /\ c \in In(char) /\ v \in In(char) /\ char[c].position \notin Down
    BY DEF IInv, Rescue, Good, Typed, Char, There, In, Awake
  <1>2. char[c].hit = "well"
    BY <1>1, WellWhenUp
  <1>3. f \in In(char) => char[f].hit = "well"
    BY <1>1, FightsFacts DEF Good, HaleBut
  <1>4. char' = G
    BY DEF Rescue
  <1> HIDE DEF f
  <1>5. Good(A) /\ Loosened(char, A)
    BY <1>1, LeaveGood
  <1> HIDE DEF A
  <1>6. Good(B) /\ Loosened(A, B)
    BY <1>5, LeaveGood
  <1> HIDE DEF B
  <1>7. Good(D) /\ \A x \in Chars : D[x].stage = B[x].stage /\ D[x].hit = B[x].hit
    BY <1>6, LeaveGood DEF Loosened, Same, Eased
  <1> HIDE DEF D
  <1>8. \A x \in Chars : D[x].stage = char[x].stage /\ D[x].hit = char[x].hit
    BY <1>5, <1>6, <1>7 DEF Loosened, Same, Eased
  <1>9. (c \in In(D) => D[c].hit = "well") /\ (f \in In(D) => D[f].hit = "well")
    BY <1>1, <1>2, <1>3, <1>8 DEF In
  <1>10. /\ Typed(E) /\ Roomed(E) /\ HaleBut(E, None) /\ In(E) = In(D)
         /\ \A x \in Chars : E[x].hit = D[x].hit
    BY <1>1, <1>7, <1>9, SetFightingGood DEF Good
  <1> HIDE DEF E
  <1>11. (c \in In(E) => E[c].hit = "well") /\ (f \in In(E) => E[f].hit = "well")
    BY <1>1, <1>9, <1>10
  <1>12. Typed(G) /\ Roomed(G) /\ HaleBut(G, None)
    BY <1>1, <1>10, <1>11, SetFightingGood
  <1> QED BY <1>4, <1>12 DEF Good

LEMMA BandsKept ==
  ASSUME NEW S, Good(S), NEW v \in In(S), NEW h \in Worse(v, S[v].hit)
  PROVE  h \in Bands /\ (v \in Mobs => h \in {"well", "dead"})
  <1>1. Hale(v, S[v]) /\ S[v].hit \in Bands
    BY FightsFacts DEF Good, HaleBut, Typed, Char, In
  <1> QED BY <1>1 DEF Worse, Bands, Down, Hale

LEMMA RecoverGood == ASSUME IInv, NEW c \in Chars, Recover(c) \/ Bleed(c) PROVE Good(char')
  <1>1. Good(char) /\ c \in In(char) /\ c # None
    BY FightsFacts DEF IInv, Recover, Bleed, There, In
  <1>2. CASE Recover(c)
    <2>1. PICK h \in Bands \ Worse(c, char[c].hit) : char' = Wound(char, c, h)
      BY <1>2 DEF Recover
    <2> DEFINE T == Wound(char, c, h)
    <2>2. /\ Typed(T) /\ Roomed(T) /\ HaleBut(T, c) /\ In(T) = In(char)
          /\ \A x \in Chars : x # c => T[x] = char[x]
          /\ T[c].hit = h /\ T[c].still = char[c].still /\ T[c].fighting = char[c].fighting
          /\ h # "well" => T[c].position = (IF c \in Mobs THEN "dead" ELSE h)
          /\ h = "well" =>
                 T[c].position = IF char[c].still THEN "stunned"
                                 ELSE IF char[c].position \in Down THEN "standing"
                                 ELSE char[c].position
      BY <1>1, WoundType
    <2> HIDE DEF T
    <2>3. Hale(c, char[c]) /\ char[c].hit # "well" /\ char[c].hit \in Bands
      BY <1>1, <1>2 DEF Good, HaleBut, Recover, Typed, Char
    <2>4. char[c].position \in Down /\ char[c].fighting = None /\ c \notin Mobs
      BY <2>3 DEF Hale, Down
    <2>5. h # "dead"
      BY <2>1, <2>3, <2>4 DEF Worse, Bands, Down
    <2>6. Hale(c, T[c])
      BY <2>2, <2>4, <2>5 DEF Hale
    <2>7. Fighting(T, c) = {}
      <3>1. \A x \in In(char) : char[x].fighting # c
        BY <1>1, <2>3 DEF Good, HaleBut
      <3>2. \A x \in In(T) : T[x].fighting # c
        BY <2>2, <3>1 DEF In
      <3> QED BY <3>2 DEF Fighting
    <2>8. HaleBut(T, None)
      BY <2>2, <2>6, <2>7, NoException
    <2>9. Good(T)
      BY <2>2, <2>8 DEF Good
    <2> QED BY <2>1, <2>9 DEF T
  <1>3. CASE Bleed(c)
    <2>1. PICK h \in Worse(c, char[c].hit) : char' = Fall(Wound(char, c, h), c)
      BY <1>3 DEF Bleed
    <2>2. h \in Bands /\ (c \in Mobs => h \in {"well", "dead"})
      BY <1>1, <2>1, BandsKept
    <2> QED BY <1>1, <2>1, <2>2, FallGood
  <1> QED BY <1>2, <1>3

-----------------------------------------------------------------------------
(* The update. *)

\* Those still to be visited are in the game.
RoundOK ==
    /\ round' \in Round
    /\ round'.at # None => round'.victim \in Chars
    /\ round'.on # "no" => round'.rest \subseteq In(char')

LEMMA StepInv == ASSUME Good(char'), RoundOK PROVE IInv'
  BY DEF IInv, RoundOK, Between

LEMMA OnwardOK == ASSUME NEW c, Onward(c) PROVE RoundOK
  <1>1. In(char') \subseteq Chars
    BY DEF In
  <1> QED BY <1>1 DEF Onward, RoundOK, Round, Idle

LEMMA HelpersOK ==
  ASSUME NEW c \in Chars, Good(char'), char'[c].fighting # None, HelpersOf(c)
  PROVE  RoundOK
  <1>1. In(char') \subseteq Chars /\ char'[c].fighting \in Chars
    BY DEF In, Good, Typed, Char
  <1> QED BY <1>1 DEF HelpersOf, RoundOK, Round

LEMMA RoundOfGood ==
  ASSUME NEW S, Good(S), NEW c \in In(S), NEW T \in RoundOf(S, c)
  PROVE  Good(T)
  <1> DEFINE v == S[c].fighting
  <1>1. c \in Chars /\ v \in Chars \cup {None}
    BY DEF In, Good, Typed, Char
  <1>2. CASE v = None \/ S[c].still
    BY <1>2 DEF RoundOf
  <1>3. CASE ~ (v = None \/ S[c].still) /\ c \in Mobs /\ v \in Players /\ S[v].hit # "well"
    <2>1. T = Stop(S, c)
      BY <1>3 DEF RoundOf
    <2> QED BY <1>1, <2>1, StopAllGood
  <1>4. CASE /\ ~ (v = None \/ S[c].still) /\ ~ (c \in Mobs /\ v \in Players /\ S[v].hit # "well")
             /\ Awake(S, c) /\ S[c].room = S[v].room
    <2>1. T \in Hits(S, c, v)
      BY <1>4 DEF RoundOf
    <2>2. S[c].hit = "well"
      BY <1>4, WellWhenUp DEF Awake
    <2>3. v \in Chars
      BY <1>1, <1>4
    <2> HIDE DEF v
    <2> QED BY <2>1, <2>2, <2>3, HitsGood
  <1>5. CASE /\ ~ (v = None \/ S[c].still) /\ ~ (c \in Mobs /\ v \in Players /\ S[v].hit # "well")
             /\ ~ (Awake(S, c) /\ S[c].room = S[v].room)
    <2>1. T = Leave(S, c)
      BY <1>5 DEF RoundOf
    <2> QED BY <1>1, <2>1, LeaveGood
  <1> QED BY <1>2, <1>3, <1>4, <1>5

LEMMA VisitInv == ASSUME IInv, NEW c \in Chars, Visit(c) PROVE IInv'
  <1>1. Good(char) /\ c \in In(char)
    BY DEF IInv, Visit
  <1> DEFINE W == UpdatePos([char EXCEPT ![c].still = FALSE], c)
  <1>2. PICK S \in {char} \cup (IF char[c].still THEN {W} ELSE {}) : char' \in RoundOf(S, c)
    BY DEF Visit
  <1>3. c \in Chars /\ Good(W) /\ In(W) = In(char)
    BY <1>1, StillGood
  <1> HIDE DEF W
  <1>4. Good(S) /\ c \in In(S)
    BY <1>1, <1>2, <1>3
  <1>5. Good(char')
    BY <1>2, <1>4, RoundOfGood
  <1>6. RoundOK
    <2>1. Onward(c) \/ (char'[c].fighting # None /\ HelpersOf(c))
      BY DEF Visit
    <2> QED BY <1>5, <2>1, OnwardOK, HelpersOK
  <1> QED BY <1>5, <1>6, StepInv

LEMMA HelpInv == ASSUME IInv, NEW h \in Chars, Help(h) PROVE IInv'
  <1>1. Good(char) /\ h \in In(char) /\ char[h].position \notin Down
    BY DEF IInv, Help, There, In, Awake
  <1>2. PICK v \in Chars : char' \in Hits(char, h, v)
    BY DEF Help, IInv, Chars
  <1>3. Good(char')
    BY <1>1, <1>2, WellWhenUp, HitsGood
  <1>4. RoundOK
    <2>1. round' = [round EXCEPT !.helpers = @ \ {h}, !.rest = @ \cap In(char')]
      BY DEF Help
    <2>2. round \in Round /\ round.at \in Chars /\ round.victim \in Chars
      BY DEF Help, IInv, Round
    <2>3. PICK r \in Round : r = round
      BY <2>2
    <2>4. r = [on |-> r.on, rest |-> r.rest, at |-> r.at, victim |-> r.victim, helpers |-> r.helpers]
      BY DEF Round
    <2>5. round' = [on |-> r.on, rest |-> r.rest \cap In(char'), at |-> r.at, victim |-> r.victim,
                    helpers |-> r.helpers \ {h}]
      BY <2>1, <2>3, <2>4
    <2> QED BY <2>2, <2>3, <2>5 DEF RoundOK, Round
  <1> QED BY <1>3, <1>4, StepInv

LEMMA BoundsInv ==
  ASSUME IInv, (\E violence \in BOOLEAN : BeginUpdate(violence)) \/ EndVisit
  PROVE  IInv'
  <1>1. Good(char')
    BY DEF IInv, BeginUpdate, EndVisit
  <1>2. ASSUME NEW violence \in BOOLEAN, BeginUpdate(violence) PROVE RoundOK
    <2>1. In(char) = In(char') /\ In(char) \subseteq Chars
      BY <1>2 DEF BeginUpdate, In
    <2> QED BY <1>2, <2>1 DEF BeginUpdate, RoundOK, Round, Idle
  <1>3. EndVisit => RoundOK
    BY OnwardOK DEF EndVisit
  <1> QED BY <1>1, <1>2, <1>3, StepInv

LEMMA AbsentGone == Absent \in Char /\ Absent.stage = "gone" /\ Absent.room = None
  <1>1. Fresh(None) \in Char /\ Fresh(None).room = None
    BY DEF Fresh, Char, Bands, Positions
  <1>2. Absent = [Fresh(None) EXCEPT !.stage = "gone"]
    BY DEF Absent
  <1> QED BY <1>1, <1>2 DEF Char

LEMMA EndInv == ASSUME IInv, EndUpdate PROVE IInv'
  <1>1. /\ Typed(char) /\ Roomed(char) /\ HaleBut(char, None)
        /\ char' = [c \in Chars |-> IF char[c].stage = "queued" THEN Absent ELSE char[c]]
        /\ round' = Idle
    BY DEF IInv, Good, EndUpdate
  <1>2. Absent \in Char /\ Absent.stage = "gone" /\ Absent.room = None
    BY AbsentGone
  <1>4. Typed(char')
    BY <1>1, <1>2 DEF Typed
  <1>5. \A c \in Chars : char'[c] = IF char[c].stage = "queued" THEN Absent ELSE char[c]
    BY <1>1
  <1>6. Roomed(char')
    BY <1>1, <1>2, <1>5 DEF Roomed
  <1>7. In(char') = In(char) /\ \A c \in In(char') : char'[c] = char[c]
    BY <1>2, <1>5 DEF In
  <1>8. HaleBut(char', None)
    BY <1>1, <1>7 DEF HaleBut
  <1>9. RoundOK
    BY <1>1 DEF RoundOK, Round, Idle
  <1> QED BY <1>4, <1>6, <1>8, <1>9, StepInv DEF Good

-----------------------------------------------------------------------------
(* The round of violence. *)

\* Whom c fights is before him, or c is stunned, or the other was extracted in
\* this very update.
Faces(S, c) ==
    LET v == S[c].fighting IN
    v # None => S[c].still \/ S[v].stage = "queued" \/ S[c].room = S[v].room

\* All who were visited and are still in the game face their opponents; who is
\* being visited is not visited again.
RInv ==
    /\ round.on = "violence" => \A c \in In(char) \ round.rest : Faces(char, c)
    /\ round.on = "quiet" => round.rest = {} /\ round.at = None
    /\ round.at # None => round.at \notin round.rest

\* Nobody of the game loses sight of his opponent, and nobody comes into it.
Keeps(S, T) == \A x \in In(T) : x \in In(S) /\ (Faces(S, x) => Faces(T, x))

LEMMA KeepsSelf == ASSUME NEW S PROVE Keeps(S, S)
  BY DEF Keeps

LEMMA KeepsOn == ASSUME NEW S, NEW T, NEW U, Keeps(S, T), Keeps(T, U) PROVE Keeps(S, U)
  BY DEF Keeps

\* Who stands where he stood and fights whom he fought
Stays(S, T) ==
    \A x \in Chars : /\ T[x].stage = S[x].stage /\ T[x].room = S[x].room
                     /\ T[x].still = S[x].still
                     /\ T[x].fighting = S[x].fighting \/ T[x].fighting = None

LEMMA StaysKeeps == ASSUME NEW S, Typed(S), NEW T, Stays(S, T) PROVE Keeps(S, T)
  <1> SUFFICES ASSUME NEW x \in In(T) PROVE x \in In(S) /\ (Faces(S, x) => Faces(T, x))
    BY DEF Keeps
  <1>1. x \in Chars /\ x \in In(S)
    BY DEF In, Stays
  <1>2. S[x].fighting \in Chars \cup {None}
    BY <1>1 DEF Typed, Char
  <1> QED BY <1>1, <1>2 DEF Faces, Stays

LEMMA LoosenedStays == ASSUME NEW S, NEW T, Loosened(S, T) PROVE Stays(S, T)
  BY DEF Loosened, Same, Eased, Stays

LEMMA StopKeeps == ASSUME NEW S, Typed(S), NEW c \in Chars
                   PROVE  LET T == Stop(S, c) IN Keeps(S, T)
  <1> DEFINE T == Stop(S, c)
  <1>1. Loosened(S, T)
    BY StopType
  <1> HIDE DEF T
  <1>2. Keeps(S, T)
    BY <1>1, LoosenedStays, StaysKeeps
  <1> QED BY <1>2 DEF T

LEMMA ExtractKeeps == ASSUME NEW S, Typed(S), NEW c \in Chars
                      PROVE  LET T == Extract(S, c) IN Keeps(S, T)
  <1> DEFINE Q == [S EXCEPT ![c].stage = "queued"]
             U == IF S[c].fighting # None THEN Stop(Q, c) ELSE Q
             T == [U EXCEPT ![c].room = None]
  <1>1. /\ Q[c] = [S[c] EXCEPT !.stage = "queued"] /\ \A x \in Chars : x # c => Q[x] = S[x]
        /\ S[c] \in Char
    BY DEF Typed
  <1>2. Q[c] \in Char /\ Q[c].stage = "queued"
    <2> HIDE DEF Q
    <2> QED BY <1>1 DEF Char
  <1>3. Typed(Q)
    BY <1>2 DEF Typed
  <1> HIDE DEF Q
  <1>4. Keeps(S, Q)
    <2> SUFFICES ASSUME NEW x \in In(Q) PROVE x \in In(S) /\ (Faces(S, x) => Faces(Q, x))
      BY DEF Keeps
    <2>1. x \in Chars /\ x # c /\ Q[x] = S[x] /\ x \in In(S)
      BY <1>1, <1>2 DEF In
    <2>2. S[x].fighting \in Chars \cup {None}
      BY <2>1 DEF Typed, Char
    <2> QED BY <1>1, <1>2, <2>1, <2>2 DEF Faces
  <1>5. Typed(U) /\ Stays(Q, U)
    <2>1. CASE S[c].fighting # None
      <3>1. Loosened(Q, U)
        BY <1>3, <2>1, StopType
      <3> HIDE DEF U
      <3> QED BY <3>1, LoosenedStays DEF Loosened
    <2>2. CASE S[c].fighting = None
      BY <1>3, <2>2 DEF Stays
    <2> QED BY <2>1, <2>2
  <1>6. Keeps(Q, U) /\ U[c].stage = "queued"
    BY <1>2, <1>3, <1>5, StaysKeeps DEF Stays
  <1> HIDE DEF U
  <1>7. T[c] = [U[c] EXCEPT !.room = None] /\ (\A x \in Chars : x # c => T[x] = U[x]) /\ U[c] \in Char
    BY <1>5 DEF Typed
  <1>8. T = Extract(S, c)
    BY DEF Extract, T, U, Q
  <1> HIDE DEF T
  <1>9. T[c].stage = "queued"
    BY <1>6, <1>7 DEF Char
  <1>10. Keeps(U, T)
    <2> SUFFICES ASSUME NEW x \in In(T) PROVE x \in In(U) /\ (Faces(U, x) => Faces(T, x))
      BY DEF Keeps
    <2>1. x \in Chars /\ x # c /\ T[x] = U[x] /\ x \in In(U)
      BY <1>7, <1>9 DEF In
    <2>2. U[x].fighting \in Chars \cup {None}
      BY <1>5, <2>1 DEF Typed, Char
    <2> QED BY <1>7, <1>9, <2>1, <2>2 DEF Faces
  <1>11. Keeps(S, T)
    BY <1>4, <1>6, <1>10, KeepsOn
  <1> QED BY <1>8, <1>11

\* Two who take up a fight are in one room.
LEMMA SetFightingKeeps ==
  ASSUME NEW S, Typed(S), NEW c \in Chars, NEW d \in Chars, S[c].room = S[d].room
  PROVE  LET T == SetFighting(S, c, d) IN
         Typed(T) /\ Keeps(S, T) /\ \A x \in Chars : T[x].room = S[x].room
  <1> DEFINE T == SetFighting(S, c, d)
             A == [S EXCEPT ![c].num = 1, ![c].fighting = d, ![c].position = "fighting"]
             B == [A EXCEPT ![d].num = @ + 1]
  <1>1. /\ Typed(T)
        /\ \A x \in Chars : /\ T[x].stage = S[x].stage /\ T[x].room = S[x].room
                            /\ T[x].still = S[x].still
                            /\ T[x].fighting = S[x].fighting \/ (x = c /\ T[x].fighting = d)
    <2>1. CASE T = S
      BY <2>1
    <2>2. CASE T = B
      <3>1. /\ A[c] = [S[c] EXCEPT !.num = 1, !.fighting = d, !.position = "fighting"]
            /\ (\A x \in Chars : x # c => A[x] = S[x]) /\ S[c] \in Char
        BY DEF Typed
      <3>2. A[c] \in Char
        <4> HIDE DEF A
        <4>1. PICK r \in Char : r = S[c]
          BY <3>1
        <4>2. A[c] = [stage |-> r.stage, room |-> r.room, fighting |-> d, num |-> 1,
                      hit |-> r.hit, position |-> "fighting", still |-> r.still]
          BY <3>1, <4>1, CharShape
        <4> QED BY <4>2 DEF Char, Positions
      <3>3. Typed(A)
        BY <3>2 DEF Typed
      <3> HIDE DEF A
      <3>4. /\ A[c].stage = S[c].stage /\ A[c].room = S[c].room /\ A[c].still = S[c].still
            /\ A[c].fighting = d
        BY <3>1 DEF Char
      <3>5. Typed(B) /\ \A x \in Chars : Same(A[x], B[x])
        BY <3>3 DEF Typed, Char, Same
      <3> HIDE DEF B, T
      <3>6. ASSUME NEW x \in Chars
            PROVE  /\ T[x].stage = S[x].stage /\ T[x].room = S[x].room
                   /\ T[x].still = S[x].still
                   /\ T[x].fighting = S[x].fighting \/ (x = c /\ T[x].fighting = d)
        <4>1. Same(A[x], T[x])
          BY <2>2, <3>5
        <4>2. CASE x = c
          BY <3>4, <4>1, <4>2 DEF Same
        <4>3. CASE x # c
          BY <3>1, <4>1, <4>3 DEF Same
        <4> QED BY <4>2, <4>3
      <3> QED BY <2>2, <3>5, <3>6
    <2> QED BY <2>1, <2>2 DEF SetFighting
  <1>2. T = SetFighting(S, c, d)
    OBVIOUS
  <1> HIDE DEF T
  <1>3. Keeps(S, T)
    <2> SUFFICES ASSUME NEW x \in In(T) PROVE x \in In(S) /\ (Faces(S, x) => Faces(T, x))
      BY DEF Keeps
    <2>1. x \in Chars /\ x \in In(S)
      BY <1>1 DEF In
    <2>2. S[x].fighting \in Chars \cup {None}
      BY <2>1 DEF Typed, Char
    <2>3. CASE T[x].fighting = S[x].fighting
      BY <1>1, <2>1, <2>2, <2>3 DEF Faces
    <2>4. CASE x = c /\ T[x].fighting = d
      BY <1>1, <2>1, <2>4 DEF Faces
    <2> QED BY <1>1, <2>1, <2>3, <2>4
  <1> QED BY <1>1, <1>2, <1>3

LEMMA MeetKeeps ==
  ASSUME NEW S, Typed(S), NEW c \in Chars, NEW v \in Chars, S[c].room = S[v].room
  PROVE  LET T == Meet(S, c, v) IN Keeps(S, T)
  <1>1. CASE c = v \/ S[v].position \in Down
    BY <1>1, KeepsSelf DEF Meet
  <1>2. CASE ~ (c = v \/ S[v].position \in Down)
    <2> DEFINE A == SetFighting(S, v, c)
               B == IF A[v].fighting = None THEN A ELSE [A EXCEPT ![v].position = "fighting"]
               T == SetFighting(B, c, v)
    <2>1. Typed(A) /\ Keeps(S, A) /\ \A x \in Chars : A[x].room = S[x].room
      BY SetFightingKeeps
    <2>2. T = Meet(S, c, v)
      BY <1>2 DEF Meet
    <2> HIDE DEF A
    <2>3. Typed(B) /\ Stays(A, B)
      <3>1. CASE A[v].fighting = None
        BY <2>1, <3>1 DEF Stays
      <3>2. CASE A[v].fighting # None
        BY <2>1, <3>2 DEF Typed, Char, Positions, Stays
      <3> QED BY <3>1, <3>2
    <2> HIDE DEF B
    <2>4. Keeps(A, B) /\ B[c].room = B[v].room
      BY <2>1, <2>3, StaysKeeps DEF Stays
    <2>5. Keeps(B, T)
      BY <2>3, <2>4, SetFightingKeeps
    <2> HIDE DEF T
    <2>6. Keeps(S, T)
      BY <2>1, <2>4, <2>5, KeepsOn
    <2> QED BY <2>2, <2>6
  <1> QED BY <1>1, <1>2

LEMMA WoundKeeps == ASSUME NEW S, Good(S), NEW v \in Chars, NEW h \in Bands
                    PROVE  LET T == Wound(S, v, h) IN Typed(T) /\ Keeps(S, T)
  <1> DEFINE U == [S EXCEPT ![v].hit = h]
             T == UpdatePos(U, v)
  <1>1. Typed(U) /\ Stays(S, U)
    BY DEF Good, Typed, Char, Stays
  <1>2. T = Wound(S, v, h)
    BY DEF Wound
  <1> HIDE DEF U
  <1>3. /\ Typed(T) /\ \A x \in Chars : x # v => T[x] = U[x]
        /\ T[v].stage = U[v].stage /\ T[v].room = U[v].room
        /\ T[v].still = U[v].still /\ T[v].fighting = U[v].fighting
    BY <1>1, UpdatePosType
  <1> HIDE DEF T
  <1>4. Stays(S, T)
    BY <1>1, <1>3 DEF Stays
  <1>5. Keeps(S, T)
    BY <1>4, StaysKeeps DEF Good
  <1> QED BY <1>2, <1>3, <1>5

LEMMA FallKeeps == ASSUME NEW S, Typed(S), NEW v \in Chars
                   PROVE  LET T == Fall(S, v) IN Keeps(S, T)
  <1> DEFINE P == Stop(S, v)
             E == Extract(P, v)
  <1>1. Typed(P) /\ Keeps(S, P)
    BY StopType, StopKeeps DEF Loosened
  <1> HIDE DEF P
  <1>2. Keeps(P, E)
    BY <1>1, ExtractKeeps
  <1> HIDE DEF E
  <1>3. Keeps(S, E) /\ Keeps(S, S)
    BY <1>1, <1>2, KeepsOn, KeepsSelf
  <1>4. Fall(S, v) \in {S, P, E}
    BY DEF Fall, RawKill, P, E
  <1> QED BY <1>1, <1>3, <1>4

\* Who runs leaves a room in which nobody fights him any more.
LEMMA FleeKeeps == ASSUME NEW S, Good(S), NEW c \in In(S), NEW r \in Rooms
                   PROVE  LET T == Flee(S, c, r) IN Keeps(S, T)
  <1> DEFINE U == [S EXCEPT ![c].room = r]
             T == Stop(U, c)
  <1>1. c \in Chars /\ c # None
    BY FightsFacts DEF In
  <1>2. Typed(U) /\ \A x \in Chars : U[x].stage = S[x].stage
    BY <1>1, MoveGood DEF Good
  <1>3. \A x \in Chars : U[x].still = S[x].still /\ U[x].fighting = S[x].fighting
                           /\ (x # c => U[x].room = S[x].room)
    BY <1>1 DEF Good, Typed, Char
  <1> HIDE DEF U
  <1>4. Loosened(U, T) /\ Eased(c, U[c], T[c]) /\ Fighting(T, c) = {}
    BY <1>1, <1>2, StopType
  <1> HIDE DEF T
  <1>5. Keeps(S, T)
    <2> SUFFICES ASSUME NEW x \in In(T) PROVE x \in In(S) /\ (Faces(S, x) => Faces(T, x))
      BY DEF Keeps
    <2>1. Stays(U, T)
      BY <1>4, LoosenedStays
    <2>2. x \in Chars /\ x \in In(S)
      BY <1>2, <2>1 DEF In, Stays
    <2>3. T[x].fighting # c /\ T[c].fighting = None
      BY <1>4, <2>2 DEF Fighting, Eased
    <2>4. S[x].fighting \in Chars \cup {None}
      BY <2>2 DEF Good, Typed, Char
    <2> DEFINE w == T[x].fighting
    <2>5. ASSUME w # None, Faces(S, x)
          PROVE  T[x].still \/ T[w].stage = "queued" \/ T[x].room = T[w].room
      <3>1. x # c /\ w # c /\ w = S[x].fighting /\ w \in Chars
        BY <1>3, <2>1, <2>2, <2>3, <2>4, <2>5 DEF Stays
      <3>2. S[x].still \/ S[w].stage = "queued" \/ S[x].room = S[w].room
        BY <2>5, <3>1 DEF Faces
      <3> HIDE DEF w
      <3> QED BY <1>2, <1>3, <2>1, <2>2, <3>1, <3>2 DEF Stays
    <2> QED BY <2>2, <2>5 DEF Faces
  <1> QED BY <1>5, KeepsSelf DEF Flee, T, U

LEMMA SequelKeeps ==
  ASSUME NEW S, Good(S), NEW v \in Chars, NEW how, NEW r \in Rooms
  PROVE  LET T == Sequel(S, v, how, r) IN Keeps(S, T)
  <1> DEFINE U == Flee(S, v, r)
  <1>1. CASE S[v].stage # "in" \/ how = "stay"
    BY <1>1, KeepsSelf DEF Sequel
  <1>2. CASE ~ (S[v].stage # "in" \/ how = "stay")
    <2>1. v \in In(S)
      BY <1>2 DEF In
    <2>2. Good(U) /\ Keeps(S, U)
      BY <2>1, FleeGood, FleeKeeps
    <2>3. Sequel(S, v, how, r) = IF how = "flee" THEN U ELSE QuitIn(U, v)
      BY <1>2 DEF Sequel
    <2> HIDE DEF U
    <2> DEFINE Q == QuitIn(U, v)
    <2>4. Keeps(U, Q)
      BY <2>2, ExtractKeeps, KeepsSelf DEF QuitIn, Good
    <2> HIDE DEF Q
    <2>5. Keeps(S, Q)
      BY <2>2, <2>4, KeepsOn
    <2> QED BY <2>2, <2>3, <2>5 DEF Q
  <1> QED BY <1>1, <1>2

LEMMA HitsKeeps ==
  ASSUME NEW S, Good(S), NEW c \in In(S), S[c].hit = "well", NEW v \in Chars,
         NEW T \in Hits(S, c, v)
  PROVE  Keeps(S, T)
  <1>1. CASE Misses(S, c, v)
    BY <1>1, KeepsSelf DEF Hits
  <1>2. CASE ~ Misses(S, c, v)
    <2> DEFINE M == Meet(S, c, v)
    <2>1. v \in In(S) /\ c \in Chars /\ S[c].room = S[v].room
      BY <1>2 DEF Misses, Good, Roomed, In
    <2>2. Good(M) /\ (\A x \in Chars : M[x].stage = S[x].stage) /\ Keeps(S, M)
      BY <2>1, MeetGood, MeetKeeps DEF Good
    <2>3. PICK h \in Worse(v, S[v].hit), how \in {"stay", "flee", "leave"}, r \in Rooms :
             T = Sequel(Fall(Wound(M, v, h), v), v, how, r)
      BY <1>2 DEF Hits
    <2> HIDE DEF M
    <2>4. v \in In(M)
      BY <2>1, <2>2 DEF In
    <2>5. h \in Bands /\ (v \in Mobs => h \in {"well", "dead"})
      BY <2>1, <2>3, BandsKept
    <2> DEFINE W == Wound(M, v, h)
               F == Fall(W, v)
    <2>6. Good(F)
      BY <2>2, <2>4, <2>5, FallGood
    <2>7. Typed(W) /\ Keeps(M, W)
      BY <2>2, <2>5, WoundKeeps
    <2> HIDE DEF W
    <2>8. Keeps(W, F)
      BY <2>7, FallKeeps
    <2> HIDE DEF F
    <2>9. Keeps(F, T)
      BY <2>3, <2>6, SequelKeeps DEF F, W
    <2> QED BY <2>2, <2>7, <2>8, <2>9, KeepsOn
  <1> QED BY <1>1, <1>2

\* Who is visited in the round faces his opponent after it.
LEMMA RoundOfFaces ==
  ASSUME NEW S, Good(S), NEW c \in In(S), NEW T \in RoundOf(S, c)
  PROVE  Keeps(S, T) /\ (c \in In(T) => Faces(T, c))
  <1> DEFINE v == S[c].fighting
  <1>1. c \in Chars /\ v \in Chars \cup {None}
    BY DEF In, Good, Typed, Char
  <1>2. CASE v = None \/ S[c].still
    BY <1>2, KeepsSelf DEF RoundOf, Faces
  <1>3. CASE ~ (v = None \/ S[c].still) /\ c \in Mobs /\ v \in Players /\ S[v].hit # "well"
    <2>1. T = Stop(S, c)
      BY <1>3 DEF RoundOf
    <2>2. Eased(c, S[c], T[c]) /\ Keeps(S, T)
      BY <1>1, <2>1, StopType, StopKeeps DEF Good
    <2> QED BY <2>2 DEF Eased, Faces
  <1>4. CASE /\ ~ (v = None \/ S[c].still) /\ ~ (c \in Mobs /\ v \in Players /\ S[v].hit # "well")
             /\ Awake(S, c) /\ S[c].room = S[v].room
    <2>1. T \in Hits(S, c, v)
      BY <1>4 DEF RoundOf
    <2>2. S[c].hit = "well"
      BY <1>4, WellWhenUp DEF Awake
    <2>3. v \in Chars
      BY <1>1, <1>4
    <2>4. Faces(S, c)
      BY <1>4 DEF Faces
    <2> HIDE DEF v
    <2>5. Keeps(S, T)
      BY <2>1, <2>2, <2>3, HitsKeeps
    <2> QED BY <2>4, <2>5 DEF Keeps
  <1>5. CASE /\ ~ (v = None \/ S[c].still) /\ ~ (c \in Mobs /\ v \in Players /\ S[v].hit # "well")
             /\ ~ (Awake(S, c) /\ S[c].room = S[v].room)
    <2>1. T = Leave(S, c)
      BY <1>5 DEF RoundOf
    <2>2. Loosened(S, T) /\ Eased(c, S[c], T[c])
      BY <1>1, <2>1, LeaveType DEF Good
    <2>3. Keeps(S, T)
      BY <2>2, LoosenedStays, StaysKeeps DEF Good
    <2> QED BY <2>2, <2>3 DEF Eased, Faces
  <1> QED BY <1>2, <1>3, <1>4, <1>5

LEMMA VisitFaces == ASSUME IInv, RInv, NEW c \in Chars, Visit(c) PROVE RInv'
  <1>1. /\ Good(char) /\ c \in In(char) /\ round.on = "violence"
        /\ \A x \in In(char) \ round.rest : Faces(char, x)
        /\ c \in round.rest
    BY DEF IInv, RInv, Visit, Between, Round
  <1> DEFINE U == [char EXCEPT ![c].still = FALSE]
             W == UpdatePos(U, c)
  <1>2. PICK S \in {char} \cup (IF char[c].still THEN {W} ELSE {}) : char' \in RoundOf(S, c)
    BY DEF Visit
  <1>3. Good(W) /\ In(W) = In(char)
    BY <1>1, StillGood
  <1>4. \A x \in Chars : x # c => W[x] = char[x]
    <2>1. Typed(U) /\ \A x \in Chars : x # c => U[x] = char[x]
      BY <1>1 DEF Good, Typed, Char
    <2> HIDE DEF U
    <2> QED BY <2>1, UpdatePosType
  <1>5. W[c].stage = char[c].stage /\ W[c].room = char[c].room
    <2>1. Typed(U) /\ U[c].stage = char[c].stage /\ U[c].room = char[c].room
      BY <1>1 DEF Good, Typed, Char
    <2> HIDE DEF U
    <2> QED BY <2>1, UpdatePosType
  <1> HIDE DEF W
  <1>6. Good(S) /\ In(S) = In(char)
    BY <1>1, <1>2, <1>3
  <1>7. \A x \in In(char) : x # c /\ Faces(char, x) => Faces(S, x)
    <2> SUFFICES ASSUME NEW x \in In(char), x # c, Faces(char, x) PROVE Faces(W, x)
      BY <1>2
    <2>1. x \in Chars /\ char[x].fighting \in Chars \cup {None} /\ W[x] = char[x]
      BY <1>1, <1>4 DEF In, Good, Typed, Char
    <2> QED BY <1>4, <1>5, <2>1 DEF Faces
  <1>8. Keeps(S, char') /\ (c \in In(char') => Faces(char', c))
    BY <1>1, <1>2, <1>6, RoundOfFaces
  <1>9. \A x \in In(char') : x \in In(char) /\ (x = c \/ Faces(char, x) => Faces(char', x))
    BY <1>6, <1>7, <1>8 DEF Keeps
  <1>10. round' \in Round /\ round'.on = "violence" /\ round'.rest = (round.rest \ {c}) \cap In(char')
         /\ round'.at \in {None, c}
    <2>1. In(char') \subseteq Chars
      BY DEF In
    <2>2. CASE Onward(c)
      BY <2>1, <2>2 DEF Onward, Idle, Round
    <2>3. CASE char'[c].fighting # None /\ HelpersOf(c)
      <3>1. Good(char')
        BY <1>1, <1>2, <1>6, RoundOfGood
      <3>2. char'[c].fighting \in Chars
        BY <2>3, <3>1 DEF Good, Typed, Char
      <3> QED BY <2>1, <2>3, <3>2 DEF HelpersOf, Round
    <2> QED BY <2>2, <2>3 DEF Visit
  <1>11. \A x \in In(char') \ round'.rest : Faces(char', x)
    BY <1>1, <1>9, <1>10
  <1> QED BY <1>1, <1>10, <1>11 DEF RInv

LEMMA HelpFaces == ASSUME IInv, RInv, NEW h \in Chars, Help(h) PROVE RInv'
  <1>1. Good(char) /\ h \in In(char) /\ char[h].position \notin Down
    BY DEF IInv, Help, There, In, Awake
  <1>2. PICK v \in Chars : char' \in Hits(char, h, v)
    BY DEF Help, IInv, Chars
  <1>3. Keeps(char, char')
    BY <1>1, <1>2, WellWhenUp, HitsKeeps
  <1>4. /\ round'.on = round.on /\ round'.at = round.at
        /\ round'.rest = round.rest \cap In(char')
    BY DEF Help, IInv, Round
  <1> QED BY <1>3, <1>4 DEF RInv, Keeps

LEMMA BoundsFaces ==
  ASSUME IInv, RInv, (\E violence \in BOOLEAN : BeginUpdate(violence)) \/ EndVisit \/ EndUpdate
  PROVE  RInv'
  <1>1. ASSUME NEW violence \in BOOLEAN, BeginUpdate(violence) PROVE RInv'
    BY <1>1 DEF BeginUpdate, RInv, Idle
  <1>2. CASE EndVisit
    <2>1. /\ round.on = "violence" /\ round.at \notin round.rest /\ char' = char
          /\ round.rest \subseteq In(char)
      BY <1>2 DEF EndVisit, RInv, IInv, Round, Between
    <2>2. round'.on = "violence" /\ round'.at = None /\ round'.rest = round.rest
      BY <1>2, <2>1 DEF EndVisit, Onward, Idle
    <2>3. \A x \in In(char') \ round'.rest : Faces(char', x)
      BY <2>1, <2>2 DEF RInv
    <2> QED BY <2>2, <2>3 DEF RInv
  <1>3. CASE EndUpdate
    BY <1>3 DEF EndUpdate, RInv, Idle
  <1> QED BY <1>1, <1>2, <1>3

LEMMA NextFaces == ASSUME IInv, RInv, [Next]_vars PROVE RInv'
  <1>1. CASE UNCHANGED vars
    <2>1. char' = char /\ round' = round
      BY <1>1 DEF vars
    <2> QED BY <2>1 DEF RInv
  <1>2. CASE Update
    BY <1>2, VisitFaces, HelpFaces, BoundsFaces DEF Update
  <1>3. ASSUME NEW c \in Chars, Command(c) PROVE RInv'
    <2>1. round.on = "no" /\ round' = round
      BY <1>3 DEF Command, Arrive, Run, Walk, Transfer, Strike, Rescue, Circle, MayCircle, Stun,
             Quit, Purge, Recover, Bleed, Between
    <2> QED BY <2>1 DEF RInv
  <1> QED BY <1>1, <1>2, <1>3 DEF Next

-----------------------------------------------------------------------------
(* The theorems. *)

LEMMA InitInv == Init => IInv
  <1> SUFFICES ASSUME Init PROVE IInv
    OBVIOUS
  <1>3. Typed(char) /\ Roomed(char) /\ In(char) = {}
    BY AbsentGone DEF Init, Typed, Roomed, In
  <1> QED BY <1>3 DEF Init, IInv, Good, HaleBut, Round, Idle, Between

LEMMA CommandInv == ASSUME IInv, NEW c \in Chars, Command(c) PROVE IInv'
  <1>1. Between /\ UNCHANGED round
    BY DEF Command, Arrive, Run, Walk, Transfer, Strike, Rescue, Circle, MayCircle, Stun, Quit,
           Purge, Recover, Bleed
  <1>2. RoundOK
    BY <1>1 DEF RoundOK, IInv, Between
  <1>3. Good(char')
    <2>1. CASE \E r \in Rooms : Arrive(c, r) \/ Run(c, r) \/ Walk(c, r) \/ Transfer(c, r)
      BY <2>1, ArriveGood, WalksGood
    <2>2. CASE \E v \in Chars : Strike(c, v) \/ Rescue(c, v) \/ Circle(c, v)
      BY <2>2, StrikeGood, RescueGood
    <2>3. CASE \E first \in BOOLEAN : Stun(c, first)
      BY <2>3, StunGood
    <2>4. CASE Quit(c) \/ Purge(c) \/ Recover(c) \/ Bleed(c)
      BY <2>4, GoneGood, RecoverGood
    <2> QED BY <2>1, <2>2, <2>3, <2>4 DEF Command
  <1> QED BY <1>2, <1>3, StepInv

LEMMA NextInv == ASSUME IInv, [Next]_vars PROVE IInv'
  <1>1. CASE UNCHANGED vars
    BY <1>1 DEF IInv, vars, Good, Between
  <1>2. CASE Update
    BY <1>2, VisitInv, HelpInv, BoundsInv, EndInv DEF Update
  <1>3. CASE \E c \in Chars : Command(c)
    BY <1>3, CommandInv
  <1> QED BY <1>1, <1>2, <1>3 DEF Next

LEMMA FightsInvariant == Spec => []IInv
  BY InitInv, NextInv, PTL DEF Spec

\* Pointers, points and positions of the characters keep their types, whoever
\* is in a room is in the game and the reverse (fight.cpp, handler.cpp).
THEOREM FightsTypeCorrect == Spec => []TypeOK
  BY FightsInvariant, InvType, PTL

\* However many fight him, and whoever else falls, runs or quits in the same
\* round: the dead are out of the game, and who lies on the ground without
\* having been stunned fights nobody and is fought by nobody (damage,
\* raw_kill and stop_fighting of fight.cpp).
THEOREM FightsFallenAreOut == Spec => []FallenAreOut
  BY FightsInvariant, InvFallen, PTL

\* However the round went: when it is over, whoever fights and is not stunned
\* has his opponent in his room, or fought one who fell in this very update
\* (violence_update, do_flee, stop_fighting and extract_char).
THEOREM FightsRoundParts == Spec => RoundParts
  <1> DEFINE Parts == EndUpdate /\ round.on = "violence" =>
                         \A c \in In(char) :
                            LET v == char[c].fighting IN
                            v # None => char[c].still \/ char[v].stage = "queued"
                                          \/ char[c].room = char[v].room
  <1>1. RInv /\ [Next]_vars => [Parts]_vars
    BY DEF RInv, EndUpdate, Faces
  <1>2. Init => IInv /\ RInv
    BY InitInv DEF Init, RInv, Idle
  <1>3. IInv /\ RInv /\ [Next]_vars => (IInv /\ RInv)'
    BY NextInv, NextFaces
  <1> HIDE DEF Parts
  <1>4. Spec => [][Parts]_vars
    BY <1>1, <1>2, <1>3, PTL DEF Spec
  <1> QED BY <1>4 DEF RoundParts, Parts

-----------------------------------------------------------------------------
(* The loop, GameLoop. First lists: what is ahead in them, and what is left *)
(* when one is taken out.                                                   *)

LEMMA LeastOf ==
  ASSUME NEW M, M \subseteq Nat, M # {}
  PROVE  \E m \in M : \A k \in M : m <= k
  <1>1. \E m \in M : \A k \in M : ~ (<<k, m>> \in OpToRel(<, Nat))
    BY NatLessThanWellFounded, WFMin
  <1>2. \E m \in M : \A k \in M : ~ (k < m)
    <2>1. \A k, m \in M : k < m => <<k, m>> \in OpToRel(<, Nat)
      BY DEF OpToRel
    <2> QED BY <1>1, <2>1
  <1>3. PICK m \in M : \A k \in M : ~ (k < m)
    BY <1>2
  <1>4. \A k \in M : m \in Int /\ k \in Int
    OBVIOUS
  <1>5. \A k \in M : m <= k
    BY <1>3, <1>4
  <1> QED BY <1>5

\* How many chosen places there are up to each of them: 1, 2, ... in their order.
LEMMA PlacesUpTo ==
  ASSUME NEW n \in Nat, NEW K \in SUBSET (1..n)
  PROVE  /\ Cardinality(K) \in Nat
         /\ \A i \in K : Cardinality({j \in K : j <= i}) \in 1..Cardinality(K)
         /\ \A i, k \in K : i <= k <=> Cardinality({j \in K : j <= i}) <= Cardinality({j \in K : j <= k})
         /\ \A m \in 1..Cardinality(K) : \E i \in K : Cardinality({j \in K : j <= i}) = m
  <1> DEFINE Below(i) == {j \in K : j <= i}
             rank == [i \in K |-> Cardinality(Below(i))]
  <1>1. IsFiniteSet(K) /\ Cardinality(K) \in Nat
    <2>1. IsFiniteSet(1..n)
      BY FS_Interval
    <2>2. IsFiniteSet(K)
      BY <2>1, FS_Subset
    <2> QED BY <2>2, FS_CardinalityType
  <1>2. \A i \in K : IsFiniteSet(Below(i)) /\ Cardinality(Below(i)) \in 1..Cardinality(K)
    <2> SUFFICES ASSUME NEW i \in K
                 PROVE  IsFiniteSet(Below(i)) /\ Cardinality(Below(i)) \in 1..Cardinality(K)
      OBVIOUS
    <2>1. Below(i) \in SUBSET K /\ i \in Below(i)
      OBVIOUS
    <2> HIDE DEF Below
    <2>2. IsFiniteSet(Below(i)) /\ Cardinality(Below(i)) <= Cardinality(K)
      BY <1>1, <2>1, FS_Subset
    <2>3. Cardinality(Below(i)) \in Nat /\ Cardinality(Below(i)) # 0
      BY <2>1, <2>2, FS_EmptySet, FS_CardinalityType
    <2> QED BY <1>1, <2>2, <2>3
  <1>3. \A i, k \in K : i < k => Cardinality(Below(i)) < Cardinality(Below(k))
    <2> SUFFICES ASSUME NEW i \in K, NEW k \in K, i < k
                 PROVE  Cardinality(Below(i)) < Cardinality(Below(k))
      OBVIOUS
    <2>1. Below(i) \in SUBSET Below(k) /\ k \in Below(k) /\ k \notin Below(i)
      <3>1. i \in Int /\ k \in Int /\ \A j \in K : j \in Int
        OBVIOUS
      <3>2. \A j \in K : j <= i => j <= k
        BY <3>1
      <3>3. k <= k /\ ~ (k <= i)
        BY <3>1
      <3> QED BY <3>2, <3>3
    <2>2. IsFiniteSet(Below(k)) /\ Cardinality(Below(i)) \in Nat /\ Cardinality(Below(k)) \in Nat
      BY <1>1, <1>2
    <2> HIDE DEF Below
    <2>3. Cardinality(Below(i)) <= Cardinality(Below(k)) /\ Cardinality(Below(i)) # Cardinality(Below(k))
      BY <2>1, <2>2, FS_Subset
    <2> QED BY <2>2, <2>3
  <1>4. \A i, k \in K : i <= k <=> Cardinality(Below(i)) <= Cardinality(Below(k))
    <2> SUFFICES ASSUME NEW i \in K, NEW k \in K
                 PROVE  i <= k <=> Cardinality(Below(i)) <= Cardinality(Below(k))
      OBVIOUS
    <2>1. i \in Int /\ k \in Int /\ Cardinality(Below(i)) \in Nat /\ Cardinality(Below(k)) \in Nat
      <3>1. Cardinality(Below(i)) \in Nat /\ Cardinality(Below(k)) \in Nat
        BY <1>1, <1>2
      <3> QED BY <3>1
    <2>2. (i < k => Cardinality(Below(i)) < Cardinality(Below(k))) /\ (k < i => Cardinality(Below(k)) < Cardinality(Below(i)))
      BY <1>3
    <2> HIDE DEF Below
    <2> QED BY <2>1, <2>2
  <1>5. \A i, k \in K : Cardinality(Below(i)) = Cardinality(Below(k)) => i = k
    <2> SUFFICES ASSUME NEW i \in K, NEW k \in K, Cardinality(Below(i)) = Cardinality(Below(k)) PROVE i = k
      OBVIOUS
    <2>1. i \in Int /\ k \in Int /\ Cardinality(Below(i)) \in Nat /\ Cardinality(Below(k)) \in Nat
      <3>1. Cardinality(Below(i)) \in Nat /\ Cardinality(Below(k)) \in Nat
        BY <1>1, <1>2
      <3> QED BY <3>1
    <2> HIDE DEF Below
    <2> QED BY <1>4, <2>1
  <1> HIDE DEF Below
  <1>6. rank \in Injection(K, 1..Cardinality(K))
    BY <1>2, <1>5 DEF Injection, IsInjective
  <1>7. rank \in Surjection(K, 1..Cardinality(K))
    <2>1. IsFiniteSet(1..Cardinality(K)) /\ Cardinality(1..Cardinality(K)) = Cardinality(K)
      BY <1>1, FS_Interval
    <2> HIDE DEF rank
    <2> QED BY <1>6, <2>1, FS_Injection
  <1>8. \A m \in 1..Cardinality(K) : \E i \in K : Cardinality(Below(i)) = m
    BY <1>7 DEF Surjection
  <1> QED BY <1>1, <1>2, <1>4, <1>8 DEF Below

\* Whoever stands at a place is followed by those at the later ones.
LEMMA FromPlace ==
  ASSUME NEW X, NEW l \in Seq(X), IsInjective(l), NEW i \in DOMAIN l
  PROVE  From(l, l[i]) = {l[j] : j \in {j \in DOMAIN l : i <= j}}
  <1>1. Len(l) \in Nat /\ DOMAIN l = 1..Len(l)
    BY LenProperties
  <1>2. \A j \in DOMAIN l : (\E m \in 1..j : l[m] = l[i]) <=> i <= j
    <2> SUFFICES ASSUME NEW j \in DOMAIN l PROVE (\E m \in 1..j : l[m] = l[i]) <=> i <= j
      OBVIOUS
    <2>1. ASSUME NEW m \in 1..j, l[m] = l[i] PROVE i <= j
      <3>1. m \in DOMAIN l
        BY <1>1
      <3>2. m = i
        BY <2>1, <3>1 DEF IsInjective
      <3> QED BY <1>1, <3>2
    <2>2. i <= j => i \in 1..j
      BY <1>1
    <2> QED BY <2>1, <2>2
  <1> QED BY <1>2 DEF From

LEMMA WithoutList ==
  ASSUME NEW X, NEW l \in Seq(X), IsInjective(l), NEW C
  PROVE  /\ Without(l, C) \in Seq(X) /\ IsInjective(Without(l, C))
         /\ Range(Without(l, C)) = Range(l) \ C
         /\ \A d \in Range(l) \ C : From(Without(l, C), d) = From(l, d) \ C
  <1> DEFINE K == {i \in DOMAIN l : l[i] \notin C}
             Count(i) == Cardinality({j \in K : j <= i})
             Nth(k) == CHOOSE i \in K : Cardinality({j \in K : j <= i}) = k
             t == [k \in 1 .. Cardinality(K) |-> l[Nth(k)]]
             n == Cardinality(K)
  <1>1. t = Without(l, C)
    BY DEF Without
  <1>2. Len(l) \in Nat /\ DOMAIN l = 1..Len(l) /\ K \in SUBSET (1..Len(l)) /\ K \subseteq DOMAIN l
    BY LenProperties
  <1>3. /\ n \in Nat
        /\ \A i \in K : Count(i) \in 1..n
        /\ \A i, k \in K : i <= k <=> Count(i) <= Count(k)
        /\ \A m \in 1..n : \E i \in K : Count(i) = m
    <2> HIDE DEF K
    <2> QED BY <1>2, PlacesUpTo
  <1>4. \A k \in 1..n : Nth(k) \in K /\ Count(Nth(k)) = k
    <2> HIDE DEF K
    <2> QED BY <1>3
  <1>5. \A i \in K : Nth(Count(i)) = i
    <2> SUFFICES ASSUME NEW i \in K PROVE Nth(Count(i)) = i
      OBVIOUS
    <2>1. Count(i) \in 1..n
      BY <1>3
    <2>2. Nth(Count(i)) \in K /\ Count(Nth(Count(i))) = Count(i)
      BY <1>4, <2>1
    <2>3. Nth(Count(i)) \in Int /\ i \in Int /\ Count(i) \in Int
      <3> HIDE DEF Nth, Count, K
      <3> QED BY <1>2, <2>1, <2>2
    <2> DEFINE j == Nth(Count(i))
    <2> HIDE DEF Nth, Count, K, j
    <2>4. j \in K /\ Count(j) = Count(i) /\ j \in Int
      BY <2>2, <2>3 DEF j
    <2>5. j <= i /\ i <= j
      BY <1>3, <2>3, <2>4
    <2>6. j = i
      BY <2>3, <2>4, <2>5
    <2> QED BY <2>6 DEF j
  <1>6. \A k, m \in 1..n : k <= m <=> Nth(k) <= Nth(m)
    <2> HIDE DEF Nth, Count, K
    <2> QED BY <1>3, <1>4
  <1>7. t \in Seq(X) /\ DOMAIN t = 1..n /\ \A k \in 1..n : t[k] = l[Nth(k)]
    <2>1. \A k \in 1..n : l[Nth(k)] \in X
      <3>1. \A i \in K : l[i] \in X
        BY <1>2, ElementOfSeq
      <3> HIDE DEF K, Nth
      <3> QED BY <1>4, <3>1
    <2> HIDE DEF K, Nth
    <2> QED BY <1>3, <2>1, IsASeq, SeqDef
  <1> HIDE DEF t
  <1>8. IsInjective(t)
    <2> SUFFICES ASSUME NEW k \in 1..n, NEW m \in 1..n, t[k] = t[m] PROVE k = m
      BY <1>7 DEF IsInjective
    <2>1. Nth(k) \in DOMAIN l /\ Nth(m) \in DOMAIN l /\ l[Nth(k)] = l[Nth(m)]
      <3> HIDE DEF Nth, K
      <3> QED BY <1>2, <1>4, <1>7
    <2>2. Nth(k) = Nth(m)
      <3> HIDE DEF Nth
      <3> QED BY <2>1 DEF IsInjective
    <2> HIDE DEF Nth, Count
    <2> QED BY <1>4, <2>2
  <1>9. Range(t) = Range(l) \ C
    <2>1. \A k \in 1..n : t[k] \in Range(l) \ C
      <3>1. \A i \in K : l[i] \in Range(l) \ C
        BY DEF Range
      <3> HIDE DEF Nth, K
      <3> QED BY <1>4, <1>7, <3>1
    <2>2. ASSUME NEW x \in Range(l) \ C PROVE x \in Range(t)
      <3>1. PICK i \in K : x = l[i]
        BY DEF Range
      <3>2. Count(i) \in 1..n /\ t[Count(i)] = x
        <4> HIDE DEF Nth, K, Count
        <4> QED BY <1>3, <1>5, <1>7, <3>1
      <3> HIDE DEF Nth, K, Count
      <3> QED BY <1>7, <3>2 DEF Range
    <2> HIDE DEF K
    <2> QED BY <1>7, <2>1, <2>2 DEF Range
  <1>10. ASSUME NEW d \in Range(l) \ C PROVE From(t, d) = From(l, d) \ C
    <2>1. PICK i \in K : d = l[i]
      BY DEF Range
    <2>2. Count(i) \in 1..n /\ t[Count(i)] = d /\ i \in DOMAIN l
      <3> HIDE DEF Nth, K, Count
      <3> QED BY <1>2, <1>3, <1>5, <1>7, <2>1
    <2>3. From(t, d) = {t[m] : m \in {m \in 1..n : Count(i) <= m}}
      <3> HIDE DEF Nth, K, Count
      <3> QED BY <1>7, <1>8, <2>2, FromPlace
    <2>4. From(l, d) = {l[j] : j \in {j \in DOMAIN l : i <= j}}
      BY <2>1, <2>2, FromPlace
    <2>5. \A m \in 1..n : Count(i) <= m => Nth(m) \in K /\ i <= Nth(m) /\ t[m] = l[Nth(m)]
      <3> HIDE DEF Nth, K, Count
      <3> QED BY <1>3, <1>4, <1>5, <1>6, <1>7, <2>2
    <2>6. \A j \in K : i <= j => Count(j) \in 1..n /\ Count(i) <= Count(j) /\ t[Count(j)] = l[j]
      <3> HIDE DEF Nth, K, Count
      <3> QED BY <1>3, <1>5, <1>7, <2>1
    <2>7. \A x : x \in From(l, d) \ C <=> \E j \in K : i <= j /\ x = l[j]
      BY <2>4
    <2>8. \A x : x \in From(t, d) <=> \E m \in 1..n : Count(i) <= m /\ x = t[m]
      BY <2>3
    <2>9. \A x : x \in From(t, d) => x \in From(l, d) \ C
      <3> HIDE DEF Nth, K, Count
      <3> QED BY <2>5, <2>7, <2>8
    <2>10. \A x : x \in From(l, d) \ C => x \in From(t, d)
      <3> HIDE DEF Nth, K, Count
      <3> QED BY <2>6, <2>7, <2>8
    <2> HIDE DEF Nth, K, Count
    <2> QED BY <2>9, <2>10
  <1> QED BY <1>1, <1>7, <1>8, <1>9, <1>10


\* Nobody follows who is not there; who is there comes first of those from him.
LEMMA FromWhom ==
  ASSUME NEW X, NEW l \in Seq(X), NEW d
  PROVE  /\ From(l, d) \subseteq Range(l)
         /\ d \in Range(l) => d \in From(l, d)
         /\ d \notin Range(l) => From(l, d) = {}
  <1>1. Len(l) \in Nat /\ DOMAIN l = 1..Len(l)
    BY LenProperties
  <1>2. From(l, d) \subseteq Range(l)
    BY DEF From, Range
  <1>3. ASSUME d \in Range(l) PROVE d \in From(l, d)
    <2>1. PICK i \in DOMAIN l : d = l[i]
      BY <1>3 DEF Range
    <2>2. i \in 1..i
      BY <1>1
    <2> QED BY <2>1, <2>2 DEF From
  <1>4. ASSUME d \notin Range(l), NEW x \in From(l, d) PROVE FALSE
    <2>1. PICK i \in DOMAIN l : \E j \in 1..i : l[j] = d
      BY <1>4 DEF From
    <2>2. PICK j \in 1..i : l[j] = d
      BY <2>1
    <2>3. j \in DOMAIN l
      BY <1>1
    <2> QED BY <1>4, <2>2, <2>3 DEF Range
  <1> QED BY <1>2, <1>3, <1>4

\* Those from somebody who comes later are among those from who came before.
LEMMA FromLater ==
  ASSUME NEW X, NEW l \in Seq(X), IsInjective(l), NEW d, NEW e \in From(l, d)
  PROVE  /\ From(l, e) \subseteq From(l, d)
         /\ e # d => d \notin From(l, e)
  <1>1. Len(l) \in Nat /\ DOMAIN l = 1..Len(l)
    BY LenProperties
  <1>2. d \in Range(l) /\ e \in Range(l)
    BY FromWhom
  <1>3. PICK i \in DOMAIN l : d = l[i]
    BY <1>2 DEF Range
  <1>4. From(l, d) = {l[j] : j \in {j \in DOMAIN l : i <= j}}
    BY <1>3, FromPlace
  <1>5. PICK k \in DOMAIN l : i <= k /\ e = l[k]
    BY <1>4
  <1>6. From(l, e) = {l[j] : j \in {j \in DOMAIN l : k <= j}}
    BY <1>5, FromPlace
  <1>7. \A j \in DOMAIN l : k <= j => i <= j
    BY <1>1, <1>5
  <1>8. ASSUME e # d, d \in From(l, e) PROVE FALSE
    <2>1. PICK j \in DOMAIN l : k <= j /\ d = l[j]
      BY <1>6, <1>8
    <2>2. j = i
      BY <1>3, <2>1 DEF IsInjective
    <2>3. i = k
      BY <1>1, <1>5, <2>1, <2>2
    <2> QED BY <1>3, <1>5, <1>8, <2>3
  <1> QED BY <1>4, <1>6, <1>7, <1>8

\* There is a first one of those who are there.
LEMMA FirstOfLies ==
  ASSUME NEW X, NEW l \in Seq(X), IsInjective(l), NEW S, S \subseteq Range(l), S # {}
  PROVE  FirstOf(l, S) \in S /\ S \subseteq From(l, FirstOf(l, S))
  <1> DEFINE M == {i \in DOMAIN l : l[i] \in S}
  <1>1. Len(l) \in Nat /\ DOMAIN l = 1..Len(l)
    BY LenProperties
  <1>2. M \subseteq Nat /\ M # {}
    BY <1>1 DEF Range
  <1>3. PICK m \in M : \A k \in M : m <= k
    <2> HIDE DEF M
    <2> QED BY <1>2, LeastOf
  <1>4. l[m] \in S /\ m \in DOMAIN l
    OBVIOUS
  <1>5. From(l, l[m]) = {l[j] : j \in {j \in DOMAIN l : m <= j}}
    BY <1>4, FromPlace
  <1>6. S \subseteq From(l, l[m])
    <2> SUFFICES ASSUME NEW x \in S PROVE x \in From(l, l[m])
      OBVIOUS
    <2>1. PICK j \in DOMAIN l : x = l[j]
      BY DEF Range
    <2>2. m <= j
      BY <1>3, <2>1
    <2> QED BY <1>5, <2>1, <2>2
  <1>7. FirstOf(l, S) = CHOOSE d \in S : S \subseteq From(l, d)
    BY DEF FirstOf
  <1> QED BY <1>4, <1>6, <1>7

LEMMA NullFirst ==
  ASSUME NEW l \in Seq(Descs)
  PROVE  Null \notin Range(l) /\ From(l, Null) = {} /\ FirstOf(l, {}) = Null
  <1>1. Range(l) \subseteq Descs
    <2>1. \A i \in DOMAIN l : l[i] \in Descs
      BY LenProperties, ElementOfSeq
    <2> QED BY <2>1 DEF Range
  <1>2. Null \notin Range(l)
    BY <1>1, DescsAssumption
  <1> QED BY <1>2, FromWhom DEF FirstOf

\* Without C, the walk goes on to the first it had ahead who is left.
LEMMA WalkWithout ==
  ASSUME NEW l \in Seq(Descs), IsInjective(l), NEW n, NEW C, NEW x, x = FirstOf(l, From(l, n) \ C)
  PROVE  /\ x \in Range(Without(l, C)) \cup {Null}
         /\ From(Without(l, C), x) = From(l, n) \ C
  <1> DEFINE S == From(l, n) \ C
  <1>1. CASE S = {}
    <2>1. x = Null
      BY <1>1, NullFirst
    <2>2. Without(l, C) \in Seq(Descs)
      BY WithoutList
    <2>3. From(Without(l, C), Null) = {}
      BY <2>2, NullFirst
    <2> QED BY <1>1, <2>1, <2>3
  <1>2. CASE S # {}
    <2>1. S \subseteq Range(l)
      BY FromWhom
    <2> HIDE DEF S
    <2>2. x \in S /\ S \subseteq From(l, x)
      BY <1>2, <2>1, FirstOfLies DEF S
    <2>3. x \in From(l, n) /\ x \in Range(l) \ C
      BY <2>1, <2>2 DEF S
    <2>4. From(l, x) \subseteq From(l, n)
      BY <2>3, FromLater
    <2>5. From(Without(l, C), x) = From(l, x) \ C /\ x \in Range(Without(l, C))
      BY <2>3, WithoutList
    <2>6. From(l, x) \ C = S
      BY <2>2, <2>4 DEF S
    <2> QED BY <2>5, <2>6 DEF S
  <1> QED BY <1>1, <1>2

\* d->next leaves d behind.
LEMMA WalkAfter ==
  ASSUME NEW l \in Seq(Descs), IsInjective(l), NEW d \in Range(l)
  PROVE  /\ After(l, d) \in Range(l) \cup {Null}
         /\ From(l, After(l, d)) = From(l, d) \ {d}
  <1> DEFINE S == From(l, d) \ {d}
             x == FirstOf(l, S)
  <1>0. After(l, d) = x
    BY DEF After
  <1>1. CASE S = {}
    <2>1. x = Null
      BY <1>1, NullFirst
    <2> QED BY <1>0, <1>1, <2>1, NullFirst
  <1>2. CASE S # {}
    <2>1. S \subseteq Range(l)
      BY FromWhom
    <2> HIDE DEF S
    <2>2. x \in S /\ S \subseteq From(l, x)
      BY <1>2, <2>1, FirstOfLies
    <2> HIDE DEF x
    <2>3. x \in From(l, d) /\ x # d
      BY <2>2 DEF S
    <2>4. From(l, x) \subseteq From(l, d) /\ d \notin From(l, x)
      BY <2>3, FromLater
    <2>5. From(l, x) = S
      BY <2>2, <2>4 DEF S
    <2> QED BY <1>0, <2>1, <2>2, <2>5 DEF S
  <1> QED BY <1>1, <1>2

LEMMA WalkFirst ==
  ASSUME NEW l \in Seq(Descs), IsInjective(l)
  PROVE  First(l) \in Range(l) \cup {Null} /\ From(l, First(l)) = Range(l)
  <1>1. CASE Range(l) = {}
    BY <1>1, NullFirst DEF First
  <1>2. CASE Range(l) # {}
    <2>1. FirstOf(l, Range(l)) \in Range(l) /\ Range(l) \subseteq From(l, FirstOf(l, Range(l)))
      BY <1>2, FirstOfLies
    <2>2. From(l, First(l)) \subseteq Range(l)
      BY FromWhom
    <2> QED BY <2>1, <2>2 DEF First
  <1> QED BY <1>1, <1>2

LEMMA AppendList ==
  ASSUME NEW l \in Seq(Descs), IsInjective(l), NEW d \in Descs, d \notin Range(l)
  PROVE  /\ Append(l, d) \in Seq(Descs) /\ IsInjective(Append(l, d))
         /\ Range(Append(l, d)) = Range(l) \cup {d}
  <1> DEFINE t == Append(l, d)
  <1>1. Len(l) \in Nat /\ DOMAIN l = 1..Len(l)
    BY LenProperties
  <1>2. /\ t \in Seq(Descs) /\ Len(t) = Len(l) + 1 /\ DOMAIN t = 1 .. Len(l) + 1
        /\ \A i \in 1..Len(l) : t[i] = l[i]
        /\ t[Len(l) + 1] = d
    BY <1>1, AppendProperties, LenProperties
  <1> HIDE DEF t
  <1>3. \A i \in 1..Len(l) : l[i] \in Range(l) /\ t[i] # d
    BY <1>1, <1>2 DEF Range
  <1>4. \A i \in 1 .. Len(l) + 1 : i \in 1..Len(l) \/ i = Len(l) + 1
    BY <1>1
  <1>5. \A i, k \in 1 .. Len(l) + 1 : t[i] = t[k] => i = k
    <2> SUFFICES ASSUME NEW i \in 1 .. Len(l) + 1, NEW k \in 1 .. Len(l) + 1, t[i] = t[k] PROVE i = k
      OBVIOUS
    <2>1. CASE i \in 1..Len(l) /\ k \in 1..Len(l)
      BY <1>1, <1>2, <2>1 DEF IsInjective
    <2>2. CASE i = Len(l) + 1 \/ k = Len(l) + 1
      BY <1>2, <1>3, <1>4, <2>2
    <2> QED BY <1>4, <2>1, <2>2
  <1>6. Range(t) = Range(l) \cup {d}
    <2>1. \A x \in Range(t) : x \in Range(l) \cup {d}
      BY <1>2, <1>3, <1>4 DEF Range
    <2>2. Range(l) \subseteq Range(t)
      <3>1. \A i \in 1..Len(l) : i \in 1 .. Len(l) + 1
        BY <1>1
      <3> QED BY <1>1, <1>2, <3>1 DEF Range
    <2>3. d \in Range(t)
      <3>1. Len(l) + 1 \in 1 .. Len(l) + 1
        BY <1>1
      <3> QED BY <1>2, <3>1 DEF Range
    <2> QED BY <2>1, <2>2, <2>3
  <1> QED BY <1>2, <1>5, <1>6 DEF IsInjective, t


-----------------------------------------------------------------------------
(* Along the snoopers.                                                      *)

Links == [Descs -> Descs \cup {Null}]

LEMMA AlongClosed ==
  ASSUME NEW to \in Links, NEW d \in Descs \cup {Null}
  PROVE  /\ Along(d, to) \subseteq Descs
         /\ d # Null => d \in Along(d, to)
         /\ \A c \in Along(d, to) : to[c] \in Along(d, to) \cup {Null}
  <1>1. Along(d, to) \subseteq Descs
    BY DEF Along
  <1>2. ASSUME d # Null PROVE d \in Along(d, to)
    BY <1>2 DEF Along
  <1>3. ASSUME NEW c \in Along(d, to), to[c] # Null PROVE to[c] \in Along(d, to)
    <2>1. c \in Descs /\ to[c] \in Descs
      BY <1>1, <1>3 DEF Links
    <2>2. SUFFICES ASSUME NEW C \in SUBSET Descs, d = Null \/ d \in C, \A e \in C : to[e] \in C \cup {Null}
                   PROVE  to[c] \in C
      BY <2>1 DEF Along
    <2>3. c \in C
      BY <2>2 DEF Along
    <2> QED BY <1>3, <2>2, <2>3
  <1> QED BY <1>1, <1>2, <1>3

LEMMA AlongLeast ==
  ASSUME NEW to, NEW d, NEW C \in SUBSET Descs,
         d = Null \/ d \in C, \A c \in C : to[c] \in C \cup {Null}
  PROVE  Along(d, to) \subseteq C
  BY DEF Along

LEMMA AlongNobody ==
  ASSUME NEW to PROVE Along(Null, to) = {}
  <1> DEFINE C == {}
  <1>1. C \in SUBSET Descs /\ \A c \in C : to[c] \in C \cup {Null}
    OBVIOUS
  <1> HIDE DEF C
  <1>2. Along(Null, to) \subseteq C
    BY <1>1, AlongLeast
  <1> QED BY <1>2 DEF C

\* From d one comes to d and to where one comes from the next.
LEMMA AlongStep ==
  ASSUME NEW to \in Links, NEW d \in Descs
  PROVE  Along(d, to) \subseteq {d} \cup Along(to[d], to)
  <1> DEFINE C == {d} \cup Along(to[d], to)
  <1>1. to[d] \in Descs \cup {Null}
    BY DEF Links
  <1>2. C \in SUBSET Descs /\ d \in C
    BY <1>1, AlongClosed
  <1>3. \A c \in C : to[c] \in C \cup {Null}
    BY <1>1, AlongClosed
  <1> HIDE DEF C
  <1>4. Along(d, to) \subseteq C
    BY <1>2, <1>3, AlongLeast
  <1> QED BY <1>4 DEF C

\* Whoever one starts from, one comes to an end.
NoCircle(to) == \A C \in SUBSET Descs : (\A c \in C : to[c] \in C) => C = {}

\* Nobody is among those he has links to, however far.
LEMMA NobodyAhead ==
  ASSUME NEW to \in Links, NoCircle(to), NEW d \in Descs
  PROVE  d \notin Along(to[d], to)
  <1> SUFFICES ASSUME d \in Along(to[d], to) PROVE FALSE
    OBVIOUS
  <1> DEFINE B == {c \in Descs : d \in Along(to[c], to)}
  <1>1. d \in B /\ B \in SUBSET Descs
    OBVIOUS
  <1>2. ASSUME NEW c \in B PROVE to[c] \in B
    <2>1. c \in Descs /\ d \in Along(to[c], to)
      OBVIOUS
    <2>2. to[c] # Null
      BY <2>1, AlongNobody
    <2>3. to[c] \in Descs
      BY <2>1, <2>2 DEF Links
    <2>4. Along(to[c], to) \subseteq {to[c]} \cup Along(to[to[c]], to)
      BY <2>3, AlongStep
    <2>5. d = to[c] \/ d \in Along(to[to[c]], to)
      BY <2>1, <2>4
    <2>6. d \in Along(to[to[c]], to)
      BY <2>5
    <2> QED BY <2>3, <2>6
  <1> HIDE DEF B
  <1>3. B = {}
    BY <1>1, <1>2 DEF NoCircle
  <1> QED BY <1>1, <1>3

\* Links that are cut close no circle.
LEMMA CutLinks ==
  ASSUME NEW to, NoCircle(to), NEW to2,
         \A c \in Descs : to2[c] \in {to[c], Null}
  PROVE  NoCircle(to2)
  <1> SUFFICES ASSUME NEW C \in SUBSET Descs, \A c \in C : to2[c] \in C PROVE C = {}
    BY DEF NoCircle
  <1>1. \A c \in C : to2[c] # Null
    BY DescsAssumption
  <1>2. \A c \in C : to[c] \in C
    BY <1>1
  <1> QED BY <1>2 DEF NoCircle

\* Nor does one from somebody nobody comes to from there.
LEMMA NewLink ==
  ASSUME NEW to \in Links, NoCircle(to), NEW d \in Descs, NEW v \in Descs,
         v # d, v \notin Along(to[d], to),
         NEW to2, to2[v] = d, \A c \in Descs \ {v} : to2[c] = to[c]
  PROVE  NoCircle(to2)
  <1> SUFFICES ASSUME NEW C \in SUBSET Descs, \A c \in C : to2[c] \in C PROVE C = {}
    BY DEF NoCircle
  <1> DEFINE A == {d} \cup Along(to[d], to)
             B == C \cap A
  <1>1. to[d] \in Descs \cup {Null}
    BY DEF Links
  <1>2. v \notin A /\ d \in A
    OBVIOUS
  <1>3. \A c \in A : to[c] \in A \cup {Null}
    BY <1>1, AlongClosed
  <1> HIDE DEF A
  <1>4. \A c \in B : to2[c] = to[c] /\ to[c] \in C
    BY <1>2
  <1>5. \A c \in B : to[c] \in B
    BY <1>3, <1>4, DescsAssumption
  <1>6. B = {}
    <2>1. B \in SUBSET Descs
      OBVIOUS
    <2> HIDE DEF B
    <2> QED BY <1>5, <2>1 DEF NoCircle
  <1>7. d \notin C
    BY <1>2, <1>6
  <1>8. v \notin C
    BY <1>7
  <1>9. \A c \in C : to[c] \in C
    BY <1>8
  <1> QED BY <1>9 DEF NoCircle


-----------------------------------------------------------------------------
(* What every handler keeps.                                                *)

Descriptors ==
    [in : BOOLEAN, fd : Fds \cup {0}, auth : {"off", "write", "read"}, authfd : Fds \cup {0},
     tries : 0 .. MaxAtimes, playing : BOOLEAN, out : 0 .. Limit - 1, fcommand : BOOLEAN,
     snoop : Descs \cup {Null}]

LoopStates ==
    [desc : [Descs -> Descriptors], list : Seq(Descs), next : Descs \cup {Null},
     open : SUBSET Fds, wild : BOOLEAN]

\* The list holds who is there, once each, and the walk is at one of them.
Listed(s) ==
    /\ Range(s.list) = {d \in Descs : s.desc[d].in} /\ IsInjective(s.list)
    /\ s.next \in Range(s.list) \cup {Null}

\* Memory is cleared when it is freed; whoever snoops is there, not in a circle.
Snooped(s) ==
    /\ \A d \in Descs : ~ s.desc[d].in => s.desc[d] = Unused
    /\ \A d \in Descs : s.desc[d].snoop # Null => s.desc[s.desc[d].snoop].in
    /\ NoCircle([d \in Descs |-> s.desc[d].snoop])

\* What is open but L is the sockets of the descriptors, each of one of them.
Wired(s, L) ==
    /\ L \subseteq s.open
    /\ s.open \ L = UNION {SocketsOf(s, d) : d \in Descs}
    /\ \A d, e \in Descs : d # e => SocketsOf(s, d) \cap SocketsOf(s, e) = {}
    /\ \A d \in Descs :
        /\ s.desc[d].in => s.desc[d].fd \notin {0, s.desc[d].authfd}
        /\ s.desc[d].auth = "off" => s.desc[d].authfd = 0

Sound(s, L) == s \in LoopStates /\ Listed(s) /\ Snooped(s) /\ Wired(s, L)

\* Some are gone, and the walk has the others ahead that it had.
Sustains(s, t, L) ==
    /\ Sound(t, L)
    /\ Range(t.list) \subseteq Range(s.list)
    /\ From(t.list, t.next) = From(s.list, s.next) \cap Range(t.list)

LEMMA KeepsItself ==
  ASSUME NEW L, NEW s, Sound(s, L)
  PROVE  Sustains(s, s, L)
  <1>1. s.list \in Seq(Descs)
    BY DEF Sound, LoopStates
  <1>2. From(s.list, s.next) \subseteq Range(s.list)
    BY <1>1, FromWhom
  <1> QED BY <1>2 DEF Sustains

LEMMA SustainsOn ==
  ASSUME NEW L, NEW s, NEW t, NEW u, Sustains(s, t, L), Sustains(t, u, L)
  PROVE  Sustains(s, u, L)
  BY DEF Sustains

LEMMA StateFields ==
  ASSUME NEW s \in LoopStates
  PROVE  /\ s.desc \in [Descs -> Descriptors] /\ s.list \in Seq(Descs)
         /\ s.next \in Descs \cup {Null} /\ s.open \subseteq Fds /\ s.wild \in BOOLEAN
         /\ \A d \in Descs :
             /\ s.desc[d] \in Descriptors
             /\ s.desc[d].in \in BOOLEAN /\ s.desc[d].fd \in Fds \cup {0}
             /\ s.desc[d].auth \in {"off", "write", "read"} /\ s.desc[d].authfd \in Fds \cup {0}
             /\ s.desc[d].tries \in 0 .. MaxAtimes /\ s.desc[d].playing \in BOOLEAN
             /\ s.desc[d].out \in 0 .. Limit - 1 /\ s.desc[d].fcommand \in BOOLEAN
             /\ s.desc[d].snoop \in Descs \cup {Null}
  <1>1. /\ s.desc \in [Descs -> Descriptors] /\ s.list \in Seq(Descs)
        /\ s.next \in Descs \cup {Null} /\ s.open \subseteq Fds /\ s.wild \in BOOLEAN
    BY DEF LoopStates
  <1>2. \A d \in Descs : s.desc[d] \in Descriptors
    BY <1>1
  <1> QED BY <1>1, <1>2 DEF Descriptors

LEMMA UnusedTyped ==
  /\ Unused \in Descriptors
  /\ Unused.fd = 0 /\ Unused.authfd = 0 /\ ~ Unused.in /\ Unused.snoop = Null /\ Unused.auth = "off"
  <1>1. 0 \in 0 .. MaxAtimes /\ MaxAtimes \in 0 .. MaxAtimes /\ 0 \in 0 .. Limit - 1
    BY LimitAssumption
  <1> QED BY <1>1 DEF Unused, Descriptors

\* A socket that is open and not lost belongs to a descriptor, and conversely.
LEMMA WiredSockets ==
  ASSUME NEW L, NEW s, Wired(s, L)
  PROVE  /\ \A x \in s.open : x \in L \/ \E d \in Descs : x \in SocketsOf(s, d)
         /\ \A d \in Descs : \A x \in SocketsOf(s, d) : x \in s.open /\ x \notin L
  BY DEF Wired

\* A handler that opens, closes and unlinks nothing, and starts no snooping.
LEMMA TinkerKeeps ==
  ASSUME NEW L, NEW s, Sound(s, L), NEW t \in LoopStates,
         t.list = s.list, t.next = s.next, t.open = s.open,
         \A e \in Descs :
            /\ t.desc[e].in = s.desc[e].in
            /\ t.desc[e].fd = s.desc[e].fd /\ t.desc[e].authfd = s.desc[e].authfd
            /\ t.desc[e].auth = "off" => s.desc[e].auth = "off"
            /\ t.desc[e].snoop \in {s.desc[e].snoop, Null}
            /\ ~ s.desc[e].in => t.desc[e] = s.desc[e]
  PROVE  Sustains(s, t, L)
  <1>1. Listed(t)
    <2>1. {d \in Descs : t.desc[d].in} = {d \in Descs : s.desc[d].in}
      OBVIOUS
    <2> QED BY <2>1 DEF Sound, Listed
  <1>2. Snooped(t)
    <2>1. \A d \in Descs : s.desc[d].snoop \in Descs \cup {Null}
      BY StateFields DEF Sound
    <2>2. \A d \in Descs : ~ t.desc[d].in => t.desc[d] = Unused
      BY DEF Sound, Snooped
    <2>3. \A d \in Descs : t.desc[d].snoop # Null => t.desc[t.desc[d].snoop].in
      BY <2>1 DEF Sound, Snooped
    <2>4. NoCircle([d \in Descs |-> t.desc[d].snoop])
      <3> DEFINE f == [d \in Descs |-> s.desc[d].snoop]
                 g == [d \in Descs |-> t.desc[d].snoop]
      <3>1. NoCircle(f) /\ \A d \in Descs : g[d] \in {f[d], Null}
        BY DEF Sound, Snooped
      <3> HIDE DEF f, g
      <3> QED BY <3>1, CutLinks DEF g
    <2> QED BY <2>2, <2>3, <2>4 DEF Snooped
  <1>3. Wired(t, L)
    <2>1. \A d \in Descs : SocketsOf(t, d) = SocketsOf(s, d)
      BY DEF SocketsOf
    <2>2. UNION {SocketsOf(t, d) : d \in Descs} = UNION {SocketsOf(s, d) : d \in Descs}
      BY <2>1
    <2> QED BY <2>1, <2>2 DEF Sound, Wired
  <1>4. Sound(t, L)
    BY <1>1, <1>2, <1>3 DEF Sound
  <1>5. From(s.list, s.next) = From(s.list, s.next) \cap Range(s.list)
    BY KeepsItself DEF Sustains
  <1> QED BY <1>4, <1>5 DEF Sustains

LEMMA UnlinkFields ==
  ASSUME NEW s \in LoopStates, NEW C \in SUBSET Descs
  PROVE  LET t == Unlink(s, C)
         IN /\ t.next = FirstOf(s.list, From(s.list, s.next) \ C)
            /\ t.list = Without(s.list, C) /\ t.wild = s.wild
            /\ t.open = s.open \ UNION {SocketsOf(s, d) : d \in C}
            /\ t.desc \in [Descs -> Descriptors]
            /\ \A e \in Descs : t.desc[e] =
                  IF e \in C THEN Unused
                  ELSE IF s.desc[e].snoop \in C THEN [s.desc[e] EXCEPT !.snoop = Null]
                  ELSE s.desc[e]
            /\ t = [desc |-> t.desc, list |-> t.list, next |-> t.next, open |-> t.open, wild |-> t.wild]
  <1> DEFINE Nxt == FirstOf(s.list, From(s.list, s.next) \ C)
             Lst == Without(s.list, C)
             Opn == s.open \ UNION {SocketsOf(s, d) : d \in C}
             Dsc == [e \in Descs |->
                        IF e \in C THEN Unused
                        ELSE IF s.desc[e].snoop \in C THEN [s.desc[e] EXCEPT !.snoop = Null]
                        ELSE s.desc[e]]
  <1>1. Unlink(s, C) = [s EXCEPT !.next = Nxt, !.list = Lst, !.open = Opn, !.desc = Dsc]
    BY DEF Unlink
  <1>2. Dsc \in [Descs -> Descriptors]
    <2> SUFFICES ASSUME NEW e \in Descs PROVE Dsc[e] \in Descriptors
      OBVIOUS
    <2>1. s.desc[e] \in Descriptors
      BY StateFields
    <2>2. [s.desc[e] EXCEPT !.snoop = Null] \in Descriptors
      BY <2>1 DEF Descriptors
    <2> QED BY <2>1, <2>2, UnusedTyped
  <1>3. \A e \in Descs : Dsc[e] = IF e \in C THEN Unused
                  ELSE IF s.desc[e].snoop \in C THEN [s.desc[e] EXCEPT !.snoop = Null]
                  ELSE s.desc[e]
    OBVIOUS
  <1>4. s = [desc |-> s.desc, list |-> s.list, next |-> s.next, open |-> s.open, wild |-> s.wild]
    BY DEF LoopStates
  <1> HIDE DEF Nxt, Lst, Opn, Dsc
  <1>5. Unlink(s, C) = [desc |-> Dsc, list |-> Lst, next |-> Nxt, open |-> Opn, wild |-> s.wild]
    BY <1>1, <1>4
  <1> DEFINE t == Unlink(s, C)
  <1>6. t.desc = Dsc /\ t.list = Lst /\ t.next = Nxt /\ t.open = Opn /\ t.wild = s.wild
    BY <1>5
  <1>7. t = [desc |-> t.desc, list |-> t.list, next |-> t.next, open |-> t.open, wild |-> t.wild]
    BY <1>5, <1>6
  <1> HIDE DEF t
  <1>8. t.next = FirstOf(s.list, From(s.list, s.next) \ C) /\ t.list = Without(s.list, C)
        /\ t.open = s.open \ UNION {SocketsOf(s, d) : d \in C}
    BY <1>6 DEF Nxt, Lst, Opn
  <1>9. \A e \in Descs : t.desc[e] =
                  IF e \in C THEN Unused
                  ELSE IF s.desc[e].snoop \in C THEN [s.desc[e] EXCEPT !.snoop = Null]
                  ELSE s.desc[e]
    BY <1>3, <1>6
  <1> QED BY <1>2, <1>6, <1>7, <1>8, <1>9 DEF t


\* The end of close_socket, for however many: those are gone and only those,
\* with their sockets; the walk is not disturbed.
LEMMA UnlinkKeeps ==
  ASSUME NEW L, NEW s, Sound(s, L), NEW C \in SUBSET Descs
  PROVE  /\ Sustains(s, Unlink(s, C), L)
         /\ \A e \in Descs : Unlink(s, C).desc[e].in <=> s.desc[e].in /\ e \notin C
  <1> DEFINE t == Unlink(s, C)
             S(d) == SocketsOf(s, d)
             T(d) == SocketsOf(t, d)
  <1>0. s \in LoopStates /\ s.list \in Seq(Descs) /\ IsInjective(s.list)
    BY StateFields DEF Sound, Listed
  <1>1. /\ t.next = FirstOf(s.list, From(s.list, s.next) \ C)
        /\ t.list = Without(s.list, C) /\ t.wild = s.wild
        /\ t.open = s.open \ UNION {S(d) : d \in C}
        /\ t.desc \in [Descs -> Descriptors]
        /\ \A e \in Descs : t.desc[e] =
              IF e \in C THEN Unused
              ELSE IF s.desc[e].snoop \in C THEN [s.desc[e] EXCEPT !.snoop = Null]
              ELSE s.desc[e]
        /\ t = [desc |-> t.desc, list |-> t.list, next |-> t.next, open |-> t.open, wild |-> t.wild]
    BY <1>0, UnlinkFields
  <1> HIDE DEF t, S
  <1>2. \A e \in Descs : s.desc[e] \in Descriptors
    BY <1>0, StateFields
  <1>3. \A e \in Descs : e \in C =>
            /\ ~ t.desc[e].in /\ t.desc[e] = Unused /\ t.desc[e].fd = 0 /\ t.desc[e].authfd = 0
            /\ t.desc[e].snoop = Null /\ t.desc[e].auth = "off"
    BY <1>1, UnusedTyped
  <1>4. \A e \in Descs : e \notin C =>
            /\ t.desc[e].in = s.desc[e].in /\ t.desc[e].fd = s.desc[e].fd
            /\ t.desc[e].authfd = s.desc[e].authfd /\ t.desc[e].auth = s.desc[e].auth
            /\ t.desc[e].snoop = IF s.desc[e].snoop \in C THEN Null ELSE s.desc[e].snoop
    <2> SUFFICES ASSUME NEW e \in Descs, e \notin C
                 PROVE  /\ t.desc[e].in = s.desc[e].in /\ t.desc[e].fd = s.desc[e].fd
                        /\ t.desc[e].authfd = s.desc[e].authfd /\ t.desc[e].auth = s.desc[e].auth
                        /\ t.desc[e].snoop = IF s.desc[e].snoop \in C THEN Null ELSE s.desc[e].snoop
      OBVIOUS
    <2> DEFINE r == s.desc[e]
    <2>1. r \in Descriptors
      BY <1>2
    <2>2. t.desc[e] = IF r.snoop \in C THEN [r EXCEPT !.snoop = Null] ELSE r
      BY <1>1
    <2> HIDE DEF r
    <2>3. /\ t.desc[e].in = r.in /\ t.desc[e].fd = r.fd
          /\ t.desc[e].authfd = r.authfd /\ t.desc[e].auth = r.auth
          /\ t.desc[e].snoop = IF r.snoop \in C THEN Null ELSE r.snoop
      BY <2>1, <2>2 DEF Descriptors
    <2> QED BY <2>3 DEF r
  <1>5. \A e \in Descs : e \notin C => t.desc[e] = s.desc[e] \/ t.desc[e] = [s.desc[e] EXCEPT !.snoop = Null]
    BY <1>1
  <1>6. \A e \in Descs : s.desc[e].in \in BOOLEAN
    BY <1>0, StateFields
  <1>7. \A e \in Descs : t.desc[e].in <=> s.desc[e].in /\ e \notin C
    BY <1>3, <1>4, <1>6
  <1>8. /\ t.list \in Seq(Descs) /\ IsInjective(t.list) /\ Range(t.list) = Range(s.list) \ C
    BY <1>0, <1>1, WithoutList
  <1>9. t.next \in Range(t.list) \cup {Null} /\ From(t.list, t.next) = From(s.list, s.next) \ C
    <2> DEFINE x == t.next
               l == s.list
               n == s.next
    <2>1. x = FirstOf(l, From(l, n) \ C) /\ t.list = Without(l, C)
      BY <1>1
    <2>2. l \in Seq(Descs) /\ IsInjective(l)
      BY <1>0
    <2> HIDE DEF x, l, n
    <2>3. x \in Range(Without(l, C)) \cup {Null}
      BY <2>1, <2>2, WalkWithout
    <2>4. From(Without(l, C), x) = From(l, n) \ C
      BY <2>1, <2>2, WalkWithout
    <2> QED BY <2>1, <2>3, <2>4 DEF x, l, n
  <1>10. t.open \subseteq Fds
    BY <1>0, <1>1, StateFields
  <1>11. t \in LoopStates
    <2>1. Range(t.list) \subseteq Descs
      BY <1>8 DEF Sound, Listed
    <2>2. t.wild \in BOOLEAN
      BY <1>0, <1>1, StateFields
    <2> QED BY <1>1, <1>8, <1>9, <1>10, <2>1, <2>2 DEF LoopStates
  <1>12. Listed(t)
    <2>1. Range(t.list) = {d \in Descs : t.desc[d].in}
      BY <1>7, <1>8 DEF Sound, Listed
    <2> QED BY <1>8, <1>9, <2>1 DEF Listed
  <1>13. Snooped(t)
    <2>1. \A d \in Descs : s.desc[d].snoop \in Descs \cup {Null}
      BY <1>0, StateFields
    <2>2. ASSUME NEW d \in Descs, ~ t.desc[d].in PROVE t.desc[d] = Unused
      <3>1. CASE d \in C
        BY <1>3, <3>1
      <3>2. CASE d \notin C
        <4>1. s.desc[d] = Unused
          BY <1>7, <2>2, <3>2 DEF Sound, Snooped
        <4>2. s.desc[d].snoop \notin C
          BY <4>1, UnusedTyped, DescsAssumption
        <4> QED BY <1>1, <3>2, <4>1, <4>2
      <3> QED BY <3>1, <3>2
    <2>3. ASSUME NEW d \in Descs, t.desc[d].snoop # Null PROVE t.desc[t.desc[d].snoop].in
      <3>1. d \notin C
        BY <1>3, <2>3
      <3>2. t.desc[d].snoop = s.desc[d].snoop /\ s.desc[d].snoop \notin C
        BY <1>4, <2>3, <3>1
      <3>3. s.desc[d].snoop \in Descs /\ s.desc[s.desc[d].snoop].in
        BY <2>1, <2>3, <3>2 DEF Sound, Snooped
      <3> QED BY <1>7, <3>2, <3>3
    <2>4. NoCircle([d \in Descs |-> t.desc[d].snoop])
      <3> DEFINE f == [d \in Descs |-> s.desc[d].snoop]
                 g == [d \in Descs |-> t.desc[d].snoop]
      <3>1. NoCircle(f) /\ \A d \in Descs : g[d] \in {f[d], Null}
        BY <1>3, <1>4 DEF Sound, Snooped
      <3> HIDE DEF f, g
      <3> QED BY <3>1, CutLinks DEF g
    <2> QED BY <2>2, <2>3, <2>4 DEF Snooped
  <1>14. Wired(t, L)
    <2>1. \A d \in Descs : T(d) = IF d \in C THEN {} ELSE S(d)
      BY <1>3, <1>4 DEF SocketsOf, S
    <2>2. \A d, e \in Descs : d # e => S(d) \cap S(e) = {}
      BY DEF Sound, Wired, S
    <2>3. s.open \ L = UNION {S(d) : d \in Descs}
      BY DEF Sound, Wired, S
    <2> HIDE DEF T
    <2>4. L \subseteq t.open
      <3>1. L \subseteq s.open
        BY DEF Sound, Wired
      <3>2. ASSUME NEW x \in L, NEW d \in C, x \in S(d) PROVE FALSE
        BY <2>3, <3>2
      <3> QED BY <1>1, <3>1, <3>2
    <2>5. \A x : x \in t.open \ L <=> \E d \in Descs : x \in T(d)
      <3>1. ASSUME NEW x \in t.open \ L PROVE \E d \in Descs : x \in T(d)
        <4>1. x \in s.open \ L /\ \A d \in C : x \notin S(d)
          BY <1>1, <3>1
        <4>2. PICK d \in Descs : x \in S(d)
          BY <2>3, <4>1
        <4> QED BY <2>1, <4>1, <4>2
      <3>2. ASSUME NEW d \in Descs, NEW x \in T(d) PROVE x \in t.open \ L
        <4>1. d \notin C /\ x \in S(d)
          BY <2>1, <3>2
        <4>2. x \in s.open \ L
          BY <2>3, <4>1
        <4>3. \A e \in C : x \notin S(e)
          BY <2>2, <4>1
        <4> QED BY <1>1, <4>2, <4>3
      <3> QED BY <3>1, <3>2
    <2>6. \A d, e \in Descs : d # e => T(d) \cap T(e) = {}
      BY <2>1, <2>2
    <2>7. \A d \in Descs :
            /\ t.desc[d].in => t.desc[d].fd \notin {0, t.desc[d].authfd}
            /\ t.desc[d].auth = "off" => t.desc[d].authfd = 0
      <3>1. \A d \in Descs :
              /\ s.desc[d].in => s.desc[d].fd \notin {0, s.desc[d].authfd}
              /\ s.desc[d].auth = "off" => s.desc[d].authfd = 0
        BY DEF Sound, Wired
      <3> QED BY <1>3, <1>4, <3>1
    <2> QED BY <2>4, <2>5, <2>6, <2>7 DEF Wired, T
  <1>15. Sustains(s, t, L)
    <2>1. Sound(t, L)
      BY <1>11, <1>12, <1>13, <1>14 DEF Sound
    <2>2. From(s.list, s.next) \ C = From(s.list, s.next) \cap Range(t.list)
      <3>1. From(s.list, s.next) \subseteq Range(s.list)
        BY <1>0, FromWhom
      <3> QED BY <1>8, <3>1
    <2> QED BY <1>8, <1>9, <2>1, <2>2 DEF Sustains
  <1> QED BY <1>7, <1>15 DEF t


-----------------------------------------------------------------------------
(* The handlers.                                                            *)

LEMMA OneDescriptor ==
  ASSUME NEW s \in LoopStates, NEW d \in Descs, NEW r \in Descriptors
  PROVE  LET t == [s EXCEPT !.desc[d] = r]
         IN /\ t \in LoopStates /\ t.list = s.list /\ t.next = s.next /\ t.open = s.open
            /\ t.wild = s.wild
            /\ t.desc[d] = r /\ \A e \in Descs \ {d} : t.desc[e] = s.desc[e]
  <1> DEFINE t == [s EXCEPT !.desc[d] = r]
             f == [s.desc EXCEPT ![d] = r]
  <1>1. f \in [Descs -> Descriptors] /\ f[d] = r /\ \A e \in Descs \ {d} : f[e] = s.desc[e]
    BY StateFields
  <1>2. t = [s EXCEPT !.desc = f]
    OBVIOUS
  <1> HIDE DEF t, f
  <1>3. s = [desc |-> s.desc, list |-> s.list, next |-> s.next, open |-> s.open, wild |-> s.wild]
    BY DEF LoopStates
  <1>4. t = [desc |-> f, list |-> s.list, next |-> s.next, open |-> s.open, wild |-> s.wild]
    BY <1>2, <1>3
  <1>5. t \in LoopStates /\ t.desc = f /\ t.list = s.list /\ t.next = s.next /\ t.open = s.open
        /\ t.wild = s.wild
    BY <1>1, <1>4, StateFields DEF LoopStates
  <1> QED BY <1>1, <1>5 DEF t

LEMMA TinkerOne ==
  ASSUME NEW L, NEW s, Sound(s, L), NEW d \in Descs, NEW r \in Descriptors,
         r.in = s.desc[d].in, r.fd = s.desc[d].fd, r.authfd = s.desc[d].authfd,
         r.auth = "off" => s.desc[d].auth = "off",
         r.snoop \in {s.desc[d].snoop, Null},
         ~ s.desc[d].in => r = s.desc[d]
  PROVE  Sustains(s, [s EXCEPT !.desc[d] = r], L)
  <1> DEFINE t == [s EXCEPT !.desc[d] = r]
  <1>1. /\ t \in LoopStates /\ t.list = s.list /\ t.next = s.next /\ t.open = s.open
        /\ t.desc[d] = r /\ \A e \in Descs \ {d} : t.desc[e] = s.desc[e]
    BY OneDescriptor DEF Sound
  <1> HIDE DEF t
  <1>2. \A e \in Descs :
            /\ t.desc[e].in = s.desc[e].in
            /\ t.desc[e].fd = s.desc[e].fd /\ t.desc[e].authfd = s.desc[e].authfd
            /\ t.desc[e].auth = "off" => s.desc[e].auth = "off"
            /\ t.desc[e].snoop \in {s.desc[e].snoop, Null}
            /\ ~ s.desc[e].in => t.desc[e] = s.desc[e]
    BY <1>1
  <1>3. Sustains(s, t, L)
    BY <1>1, <1>2, TinkerKeeps
  <1> QED BY <1>3 DEF t

LEMMA ClearKeeps ==
  ASSUME NEW L, NEW s, Sound(s, L), NEW d \in Descs
  PROVE  Sustains(s, [s EXCEPT !.desc[d].out = 0], L)
  <1> DEFINE r == [s.desc[d] EXCEPT !.out = 0]
  <1>1. s.desc[d] \in Descriptors /\ 0 \in 0 .. Limit - 1
    BY StateFields, LimitAssumption DEF Sound
  <1>2. /\ r \in Descriptors /\ r.in = s.desc[d].in /\ r.fd = s.desc[d].fd
        /\ r.authfd = s.desc[d].authfd /\ r.auth = s.desc[d].auth /\ r.snoop = s.desc[d].snoop
    BY <1>1 DEF Descriptors
  <1>3. ~ s.desc[d].in => r = s.desc[d]
    BY DEF Sound, Snooped, Unused
  <1>4. [s EXCEPT !.desc[d].out = 0] = [s EXCEPT !.desc[d] = r]
    OBVIOUS
  <1> HIDE DEF r
  <1> QED BY <1>2, <1>3, <1>4, TinkerOne

LEMMA PlaysKeeps ==
  ASSUME NEW L, NEW s, Sound(s, L), NEW d \in Descs, s.desc[d].in
  PROVE  Sustains(s, [s EXCEPT !.desc[d].playing = TRUE], L)
  <1> DEFINE r == [s.desc[d] EXCEPT !.playing = TRUE]
  <1>1. s.desc[d] \in Descriptors
    BY StateFields DEF Sound
  <1>2. /\ r \in Descriptors /\ r.in = s.desc[d].in /\ r.fd = s.desc[d].fd
        /\ r.authfd = s.desc[d].authfd /\ r.auth = s.desc[d].auth /\ r.snoop = s.desc[d].snoop
    BY <1>1 DEF Descriptors
  <1>3. [s EXCEPT !.desc[d].playing = TRUE] = [s EXCEPT !.desc[d] = r]
    OBVIOUS
  <1> HIDE DEF r
  <1> QED BY <1>2, <1>3, TinkerOne

LEMMA CommandKeeps ==
  ASSUME NEW L, NEW s, Sound(s, L), NEW d \in Descs, s.desc[d].in, NEW b \in BOOLEAN
  PROVE  Sustains(s, [s EXCEPT !.desc[d].fcommand = b], L)
  <1> DEFINE r == [s.desc[d] EXCEPT !.fcommand = b]
  <1>1. s.desc[d] \in Descriptors
    BY StateFields DEF Sound
  <1>2. /\ r \in Descriptors /\ r.in = s.desc[d].in /\ r.fd = s.desc[d].fd
        /\ r.authfd = s.desc[d].authfd /\ r.auth = s.desc[d].auth /\ r.snoop = s.desc[d].snoop
    BY <1>1 DEF Descriptors
  <1>3. [s EXCEPT !.desc[d].fcommand = b] = [s EXCEPT !.desc[d] = r]
    OBVIOUS
  <1> HIDE DEF r
  <1> QED BY <1>2, <1>3, TinkerOne

LEMMA WildKeeps ==
  ASSUME NEW L, NEW s, Sound(s, L)
  PROVE  Sustains(s, [s EXCEPT !.wild = TRUE], L)
  <1> DEFINE t == [s EXCEPT !.wild = TRUE]
  <1>1. s \in LoopStates
    BY DEF Sound
  <1>2. t \in LoopStates /\ t.list = s.list /\ t.next = s.next /\ t.open = s.open /\ t.desc = s.desc
    BY <1>1 DEF LoopStates
  <1> HIDE DEF t
  <1>3. Sustains(s, t, L)
    BY <1>2, TinkerKeeps
  <1> QED BY <1>3 DEF t

LEMMA MaxOfTwo ==
  ASSUME NEW n \in Nat
  PROVE  Max({1, n}) = IF n = 0 THEN 1 ELSE n
  <1> DEFINE m == IF n = 0 THEN 1 ELSE n
  <1>1. m \in {1, n} /\ \A y \in {1, n} : m >= y
    OBVIOUS
  <1>2. \A x \in {1, n} : (\A y \in {1, n} : x >= y) => x = m
    OBVIOUS
  <1>3. Max({1, n}) = CHOOSE x \in {1, n} : \A y \in {1, n} : x >= y
    BY DEF Max
  <1> HIDE DEF m
  <1>4. Max({1, n}) = m
    BY <1>1, <1>2, <1>3
  <1> QED BY <1>4 DEF m

\* write_to_buffer, however many buffers run over.
LEMMA WriteKeeps ==
  ASSUME NEW L, NEW s, Sound(s, L), NEW d \in Descs \cup {Null}, d # Null => s.desc[d].in,
         NEW k \in Lengths
  PROVE  Sustains(s, WriteTo(s, d, k), L)
  <1> DEFINE Over(e) == s.desc[e].out + k >= Limit
             to == [e \in Descs |-> IF Over(e) THEN s.desc[e].snoop ELSE Null]
             told == Along(d, to)
             Heard(e) == IF e \in told THEN [s.desc[e] EXCEPT !.out = Max({1, @ + k})] ELSE s.desc[e]
             f == [e \in Descs |-> IF Over(e) THEN s.desc[e] ELSE Heard(e)]
             t == [s EXCEPT !.desc = f]
             C == {e \in told : Over(e)}
  <1>0. WriteTo(s, d, k) = Unlink(t, C)
    BY DEF WriteTo
  <1>1. s \in LoopStates /\ \A e \in Descs :
          s.desc[e] \in Descriptors /\ s.desc[e].out \in 0 .. Limit - 1 /\ s.desc[e].snoop \in Descs \cup {Null}
    BY StateFields DEF Sound
  <1>2. to \in Links /\ \A e \in Descs : to[e] \in {s.desc[e].snoop, Null}
    BY <1>1 DEF Links
  <1>3. told \subseteq {e \in Descs : s.desc[e].in}
    <2> DEFINE Here == {e \in Descs : s.desc[e].in}
    <2>1. Here \in SUBSET Descs /\ (d = Null \/ d \in Here)
      OBVIOUS
    <2>2. \A c \in Here : to[c] \in Here \cup {Null}
      BY <1>1, <1>2 DEF Sound, Snooped
    <2> HIDE DEF Here, to
    <2>3. Along(d, to) \subseteq Here
      BY <2>1, <2>2, AlongLeast
    <2> QED BY <2>3 DEF Here
  <1> HIDE DEF told, to
  <1>4. \A e \in Descs : ~ Over(e) =>
          LET r == [s.desc[e] EXCEPT !.out = Max({1, @ + k})]
          IN /\ r \in Descriptors /\ r.in = s.desc[e].in /\ r.fd = s.desc[e].fd
             /\ r.authfd = s.desc[e].authfd /\ r.auth = s.desc[e].auth /\ r.snoop = s.desc[e].snoop
    <2> SUFFICES ASSUME NEW e \in Descs, ~ Over(e)
                 PROVE  LET r == [s.desc[e] EXCEPT !.out = Max({1, @ + k})]
                        IN /\ r \in Descriptors /\ r.in = s.desc[e].in /\ r.fd = s.desc[e].fd
                           /\ r.authfd = s.desc[e].authfd /\ r.auth = s.desc[e].auth /\ r.snoop = s.desc[e].snoop
      OBVIOUS
    <2> DEFINE p == s.desc[e]
               m == Max({1, p.out + k})
    <2>1. p \in Descriptors /\ p.out \in 0 .. Limit - 1 /\ k \in {0, 1} /\ ~ (p.out + k >= Limit)
      BY <1>1 DEF Lengths
    <2> HIDE DEF p
    <2>2. p.out + k \in Nat /\ p.out + k < Limit
      BY <2>1, LimitAssumption
    <2>3. m = IF p.out + k = 0 THEN 1 ELSE p.out + k
      BY <2>2, MaxOfTwo
    <2> HIDE DEF m
    <2>4. m \in 0 .. Limit - 1
      BY <2>2, <2>3, LimitAssumption
    <2>5. LET r == [p EXCEPT !.out = m]
          IN /\ r \in Descriptors /\ r.in = p.in /\ r.fd = p.fd
             /\ r.authfd = p.authfd /\ r.auth = p.auth /\ r.snoop = p.snoop
      BY <2>1, <2>4 DEF Descriptors
    <2> QED BY <2>5 DEF p, m
  <1>5. \A e \in Descs : f[e] = s.desc[e] \/ (e \in told /\ ~ Over(e) /\ f[e] = [s.desc[e] EXCEPT !.out = Max({1, @ + k})])
    OBVIOUS
  <1>6. \A e \in Descs :
          /\ f[e] \in Descriptors /\ f[e].in = s.desc[e].in /\ f[e].fd = s.desc[e].fd
          /\ f[e].authfd = s.desc[e].authfd /\ f[e].auth = s.desc[e].auth /\ f[e].snoop = s.desc[e].snoop
          /\ ~ s.desc[e].in => f[e] = s.desc[e]
    <2> HIDE DEF f, Over
    <2> QED BY <1>1, <1>3, <1>4, <1>5
  <1>7. f \in [Descs -> Descriptors]
    <2>1. \A e \in Descs : f[e] \in Descriptors
      BY <1>6
    <2> DEFINE g(e) == IF Over(e) THEN s.desc[e] ELSE Heard(e)
    <2>2. f = [e \in Descs |-> g(e)] /\ \A e \in Descs : f[e] = g(e)
      OBVIOUS
    <2> HIDE DEF f, g
    <2> QED BY <2>1, <2>2
  <1>8. t \in LoopStates /\ t.list = s.list /\ t.next = s.next /\ t.open = s.open /\ t.desc = f
    <2> HIDE DEF f
    <2> QED BY <1>1, <1>7 DEF LoopStates
  <1>9. C \in SUBSET Descs
    BY <1>3
  <1> HIDE DEF t, f, C, Over
  <1>10. Sustains(s, t, L)
    BY <1>6, <1>8, TinkerKeeps
  <1>11. Sustains(t, Unlink(t, C), L)
    BY <1>9, <1>10, UnlinkKeeps DEF Sustains
  <1> QED BY <1>0, <1>10, <1>11, SustainsOn


\* flush_buffer: a copy to who snoops, the prompt before it.
LEMMA FlushKeeps ==
  ASSUME NEW L, NEW s, Sound(s, L), NEW d \in Descs, NEW own \in BOOLEAN, own => s.desc[d].in,
         NEW k \in Lengths
  PROVE  Sustains(s, Flush(s, d, own, k), L)
  <1> DEFINE t == IF own THEN WriteTo(s, d, k) ELSE s
             w == WriteTo(t, t.desc[d].snoop, k)
  <1>1. Sustains(s, t, L)
    BY KeepsItself, WriteKeeps, DescsAssumption
  <1>2. Flush(s, d, own, k) = IF ~ t.desc[d].in THEN [t EXCEPT !.wild = TRUE]
                              ELSE IF t.desc[d].out = 0 THEN t
                              ELSE [w EXCEPT !.desc[d].out = 0]
    BY DEF Flush
  <1> HIDE DEF t
  <1>3. Sound(t, L) /\ t.desc[d].snoop \in Descs \cup {Null}
        /\ (t.desc[d].snoop # Null => t.desc[t.desc[d].snoop].in)
    BY <1>1, StateFields DEF Sustains, Sound, Snooped
  <1>4. Sustains(t, [t EXCEPT !.wild = TRUE], L)
    BY <1>3, WildKeeps
  <1>5. Sustains(t, t, L)
    BY <1>3, KeepsItself
  <1>6. Sustains(t, w, L)
    BY <1>3, WriteKeeps
  <1> HIDE DEF w
  <1>7. Sustains(t, [w EXCEPT !.desc[d].out = 0], L)
    <2>1. Sustains(w, [w EXCEPT !.desc[d].out = 0], L)
      BY <1>6, ClearKeeps DEF Sustains
    <2> QED BY <1>6, <2>1, SustainsOn
  <1>8. Sustains(t, Flush(s, d, own, k), L)
    BY <1>2, <1>4, <1>5, <1>7
  <1> QED BY <1>1, <1>8, SustainsOn

\* close_socket, called for whoever and from wherever.
LEMMA CloseKeeps ==
  ASSUME NEW L, NEW s, Sound(s, L), NEW d \in Descs, NEW force \in BOOLEAN,
         NEW own \in BOOLEAN, own => s.desc[d].in, NEW k \in Lengths
  PROVE  Sustains(s, Close(s, d, force, own, k), L)
  <1> DEFINE t == IF force \/ s.desc[d].out = 0 THEN s ELSE Flush(s, d, own, k)
             w == WriteTo(t, t.desc[d].snoop, k)
  <1>1. Sustains(s, t, L)
    BY KeepsItself, FlushKeeps
  <1>2. Close(s, d, force, own, k) = IF t.wild THEN t ELSE Unlink(w, {d})
    BY DEF Close
  <1> HIDE DEF t
  <1>3. Sound(t, L) /\ t.desc[d].snoop \in Descs \cup {Null}
        /\ (t.desc[d].snoop # Null => t.desc[t.desc[d].snoop].in)
    BY <1>1, StateFields DEF Sustains, Sound, Snooped
  <1>4. Sustains(t, t, L)
    BY <1>3, KeepsItself
  <1>5. Sustains(t, w, L)
    BY <1>3, WriteKeeps
  <1> HIDE DEF w
  <1>6. Sustains(w, Unlink(w, {d}), L)
    <2>1. Sound(w, L)
      BY <1>5 DEF Sustains
    <2>2. {d} \in SUBSET Descs
      OBVIOUS
    <2> QED BY <2>1, <2>2, UnlinkKeeps
  <1>7. Sustains(t, Unlink(w, {d}), L)
    BY <1>5, <1>6, SustainsOn
  <1>8. Sustains(t, Close(s, d, force, own, k), L)
    BY <1>2, <1>4, <1>7
  <1> QED BY <1>1, <1>8, SustainsOn

LEMMA ClosingsKeep ==
  ASSUME NEW L, NEW s, Sound(s, L), NEW d \in Descs, NEW force \in BOOLEAN,
         NEW t \in Closings(s, d, force)
  PROVE  Sustains(s, t, L)
  <1>1. PICK own \in Condition(s, d), k \in Lengths : t = Close(s, d, force, own, k)
    BY DEF Closings
  <1>2. own \in BOOLEAN
    BY DEF Condition
  <1>3. own => s.desc[d].in
    <2>1. ~ s.desc[d].in => ~ s.desc[d].playing
      BY DEF Sound, Snooped, Unused
    <2> QED BY <2>1 DEF Condition
  <1> QED BY <1>1, <1>2, <1>3, CloseKeeps

LEMMA WritingsKeep ==
  ASSUME NEW L, NEW s, Sound(s, L), NEW d \in Descs, s.desc[d].in, NEW t \in Writings(s, d)
  PROVE  Sustains(s, t, L)
  BY WriteKeeps DEF Writings

LEMMA FewerTries ==
  ASSUME NEW n \in 0 .. MaxAtimes
  PROVE  Fewer(n) \in 0 .. MaxAtimes
  BY LimitAssumption DEF Fewer

LEMMA LowestFree ==
  ASSUME NEW s \in LoopStates, Free(s) # {}
  PROVE  Lowest(s) \in Fds /\ Lowest(s) \notin s.open /\ Lowest(s) # 0
  <1>1. Free(s) \subseteq Nat /\ 0 \notin Free(s)
    BY FdsAssumption DEF Free
  <1>2. PICK m \in Free(s) : \A n \in Free(s) : m <= n
    BY <1>1, LeastOf
  <1>3. Min(Free(s)) \in Free(s)
    BY <1>2 DEF Min
  <1> QED BY <1>1, <1>3 DEF Lowest, Free

Rewired(s, d, r, O) == [s EXCEPT !.desc[d] = r, !.open = O]

\* A descriptor gets another socket for its question, a free one, or none.
LEMMA RewireKeeps ==
  ASSUME NEW L, NEW s, Sound(s, L), NEW d \in Range(s.list), NEW r \in Descriptors,
         r.in = s.desc[d].in, r.fd = s.desc[d].fd, r.snoop = s.desc[d].snoop,
         r.authfd = 0 \/ r.authfd \notin s.open,
         r.auth = "off" => r.authfd = 0,
         NEW O, O = (s.open \ {s.desc[d].authfd}) \cup ({r.authfd} \ {0}),
         NEW t, t = Rewired(s, d, r, O)
  PROVE  Sustains(s, t, L) /\ t.desc[d] = r
  <1> DEFINE u == [s EXCEPT !.desc[d] = r]
             S(e) == SocketsOf(s, e)
             T(e) == SocketsOf(t, e)
  <1>0. s \in LoopStates /\ s.open \subseteq Fds
    BY StateFields DEF Sound
  <1>11. d \in Descs /\ s.desc[d].in
    BY DEF Sound, Listed
  <1> USE <1>11
  <1>1. /\ u \in LoopStates /\ u.list = s.list /\ u.next = s.next /\ u.open = s.open /\ u.wild = s.wild
        /\ u.desc[d] = r /\ \A e \in Descs \ {d} : u.desc[e] = s.desc[e]
    BY <1>0, <1>11, OneDescriptor
  <1>2. t = [u EXCEPT !.open = O]
    BY DEF Rewired
  <1> HIDE DEF u
  <1>3. O \subseteq Fds
    BY <1>0 DEF Descriptors
  <1>4. /\ t \in LoopStates /\ t.list = s.list /\ t.next = s.next /\ t.open = O
        /\ t.desc[d] = r /\ \A e \in Descs \ {d} : t.desc[e] = s.desc[e]
    <2>1. t.desc = u.desc /\ t.list = u.list /\ t.next = u.next /\ t.wild = u.wild /\ t.open = O
          /\ t = [desc |-> u.desc, list |-> u.list, next |-> u.next, open |-> O, wild |-> u.wild]
      BY <1>1, <1>2 DEF LoopStates
    <2>2. t \in LoopStates
      BY <1>1, <1>3, <2>1, StateFields DEF LoopStates
    <2> QED BY <1>1, <2>1, <2>2
  <1>6. \A e \in Descs : t.desc[e].in = s.desc[e].in /\ t.desc[e].snoop = s.desc[e].snoop
    BY <1>4
  <1>5. Listed(t)
    <2>1. {e \in Descs : t.desc[e].in} = {e \in Descs : s.desc[e].in}
      BY <1>6
    <2> QED BY <1>4, <2>1 DEF Sound, Listed
  <1>7. Snooped(t)
    <2>1. ASSUME NEW e \in Descs, ~ t.desc[e].in PROVE t.desc[e] = Unused
      <3>1. e # d
        BY <1>4, <2>1
      <3>2. t.desc[e] = s.desc[e]
        BY <1>4, <3>1
      <3> QED BY <2>1, <3>2 DEF Sound, Snooped
    <2>2. \A e \in Descs : t.desc[e].snoop # Null => t.desc[t.desc[e].snoop].in
      <3>1. \A e \in Descs : s.desc[e].snoop \in Descs \cup {Null}
        BY <1>0, StateFields
      <3> QED BY <1>6, <3>1 DEF Sound, Snooped
    <2>3. [e \in Descs |-> t.desc[e].snoop] = [e \in Descs |-> s.desc[e].snoop]
      BY <1>6
    <2> QED BY <2>1, <2>2, <2>3 DEF Sound, Snooped
  <1>8. Wired(t, L)
    <2> DEFINE x == s.desc[d].authfd
               y == r.authfd
    <2>1. \A e \in Descs : e # d => T(e) = S(e)
      BY <1>4 DEF SocketsOf
    <2>2. S(d) = {s.desc[d].fd, x} \ {0} /\ T(d) = {s.desc[d].fd, y} \ {0}
      BY <1>4 DEF SocketsOf
    <2>3. L \subseteq s.open /\ s.open \ L = UNION {S(e) : e \in Descs}
      BY DEF Sound, Wired
    <2>4. \A e, g \in Descs : e # g => S(e) \cap S(g) = {}
      BY DEF Sound, Wired
    <2>5. s.desc[d].fd # 0 /\ s.desc[d].fd # x
      BY DEF Sound, Wired
    <2>6. y = 0 \/ y \notin s.open
      OBVIOUS
    <2>7. t.open = (s.open \ {x}) \cup ({y} \ {0})
      BY <1>4
    <2>8. s.desc[d].fd \in s.open /\ s.desc[d].fd # y
      BY <2>2, <2>3, <2>5, <2>6
    <2>9. x = 0 \/ x \in s.open \ L
      BY <2>2, <2>3
    <2>10. 0 \notin s.open
      BY <1>0, FdsAssumption
    <2> HIDE DEF x, y, S, T
    <2>11. L \subseteq t.open
      BY <2>3, <2>7, <2>9, <2>10
    <2>12. \A z \in t.open \ L : \E e \in Descs : z \in T(e)
      <3> SUFFICES ASSUME NEW z \in t.open \ L PROVE \E e \in Descs : z \in T(e)
        OBVIOUS
      <3>1. CASE z = y /\ z # 0
        BY <2>2, <3>1
      <3>2. CASE z \in s.open /\ z # x
        <4>1. PICK e \in Descs : z \in S(e)
          BY <2>3, <3>2
        <4>2. CASE e = d
          BY <2>2, <3>2, <4>1, <4>2
        <4>3. CASE e # d
          BY <2>1, <4>1, <4>3
        <4> QED BY <4>2, <4>3
      <3> QED BY <2>7, <3>1, <3>2
    <2>13. \A e \in Descs : \A z \in T(e) : z \in t.open \ L
      <3> SUFFICES ASSUME NEW e \in Descs, NEW z \in T(e) PROVE z \in t.open \ L
        OBVIOUS
      <3>1. CASE e = d
        <4>1. CASE z = y /\ z # 0
          BY <2>3, <2>6, <2>7, <4>1
        <4>2. CASE z = s.desc[d].fd /\ z # 0
          <5>1. z \in S(d)
            BY <2>2, <4>2
          <5> QED BY <2>3, <2>5, <2>7, <4>2, <5>1
        <4> QED BY <2>2, <3>1, <4>1, <4>2
      <3>2. CASE e # d
        <4>1. z \in S(e)
          BY <2>1, <3>2
        <4>2. z \in s.open \ L
          BY <2>3, <4>1
        <4>3. z # x
          <5>1. z \notin S(d) /\ z # 0
            BY <2>4, <2>10, <3>2, <4>1, <4>2
          <5> QED BY <2>2, <5>1
        <4> QED BY <2>7, <4>2, <4>3
      <3> QED BY <3>1, <3>2
    <2>14. t.open \ L = UNION {T(e) : e \in Descs}
      BY <2>12, <2>13
    <2>15. \A e, g \in Descs : e # g => T(e) \cap T(g) = {}
      <3>1. \A g \in Descs : g # d => T(d) \cap T(g) = {}
        <4> SUFFICES ASSUME NEW g \in Descs, g # d, NEW z \in T(d), z \in T(g) PROVE FALSE
          OBVIOUS
        <4>1. z \in S(g) /\ z \in s.open
          BY <2>1, <2>3
        <4>2. z = s.desc[d].fd /\ z # 0
          BY <2>2, <2>6, <4>1
        <4>3. z \in S(d)
          BY <2>2, <4>2
        <4> QED BY <2>4, <4>1, <4>3
      <3> QED BY <2>1, <2>4, <3>1
    <2>16. \A e \in Descs :
            /\ t.desc[e].in => t.desc[e].fd \notin {0, t.desc[e].authfd}
            /\ t.desc[e].auth = "off" => t.desc[e].authfd = 0
      <3>1. \A e \in Descs :
              /\ s.desc[e].in => s.desc[e].fd \notin {0, s.desc[e].authfd}
              /\ s.desc[e].auth = "off" => s.desc[e].authfd = 0
        BY DEF Sound, Wired
      <3>2. r.fd \notin {0, r.authfd} /\ (r.auth = "off" => r.authfd = 0)
        BY <2>5, <2>8 DEF y
      <3>3. \A e \in Descs : e = d \/ t.desc[e] = s.desc[e]
        BY <1>4
      <3>4. t.desc[d].fd \notin {0, t.desc[d].authfd} /\ (t.desc[d].auth = "off" => t.desc[d].authfd = 0)
        BY <1>4, <3>2
      <3> QED BY <3>1, <3>3, <3>4
    <2> QED BY <2>11, <2>14, <2>15, <2>16 DEF Wired, T
  <1>9. Sound(t, L)
    BY <1>4, <1>5, <1>7, <1>8 DEF Sound
  <1>10. From(s.list, s.next) = From(s.list, s.next) \cap Range(s.list)
    BY KeepsItself DEF Sustains
  <1> QED BY <1>4, <1>9, <1>10 DEF Sustains


LEMMA UnwireKeeps ==
  ASSUME NEW L, NEW s, Sound(s, L), NEW d \in Range(s.list), NEW r \in Descriptors,
         r.in = s.desc[d].in, r.fd = s.desc[d].fd, r.snoop = s.desc[d].snoop, r.authfd = 0,
         NEW t, t = Rewired(s, d, r, s.open \ {s.desc[d].authfd})
  PROVE  Sustains(s, t, L) /\ t.desc[d] = r
  <1>1. r.authfd = 0 \/ r.authfd \notin s.open
    OBVIOUS
  <1>2. r.auth = "off" => r.authfd = 0
    OBVIOUS
  <1> DEFINE O == s.open \ {s.desc[d].authfd}
  <1>3. O = (s.open \ {s.desc[d].authfd}) \cup ({r.authfd} \ {0})
    OBVIOUS
  <1>4. t = Rewired(s, d, r, O)
    OBVIOUS
  <1> HIDE DEF O
  <1>5. Sustains(s, t, L)
    BY <1>1, <1>2, <1>3, <1>4, RewireKeeps
  <1>6. t.desc[d] = r
    BY <1>1, <1>2, <1>3, <1>4, RewireKeeps
  <1> QED BY <1>5, <1>6

\* The end of a question, answered or not, and its start.
LEMMA QuestionEnds ==
  ASSUME NEW L, NEW s, Sound(s, L), NEW d \in Range(s.list)
  PROVE  Sustains(s, Failed(s, d), L) /\ Sustains(s, Answered(s, d), L)
  <1> DEFINE p == s.desc[d]
             n == Fewer(p.tries)
             O == s.open \ {p.authfd}
             q == [p EXCEPT !.auth = "off", !.authfd = 0, !.tries = n]
             F == Failed(s, d)
             r == [q EXCEPT !.tries = 0]
  <1>0. d \in Descs
    BY DEF Sound, Listed
  <1>1. p \in Descriptors /\ p.tries \in 0 .. MaxAtimes /\ s \in LoopStates
    BY <1>0, StateFields DEF Sound
  <1>2. F = Rewired(s, d, q, O)
    BY DEF Failed, Rewired
  <1>3. n \in 0 .. MaxAtimes /\ 0 \in 0 .. MaxAtimes
    BY <1>1, FewerTries, LimitAssumption
  <1> HIDE DEF n, F
  <1>4. q \in Descriptors /\ q.in = p.in /\ q.fd = p.fd /\ q.snoop = p.snoop /\ q.authfd = 0
    <2> HIDE DEF p
    <2> QED BY <1>1, <1>3 DEF Descriptors
  <1> HIDE DEF q
  <1>5. F = Rewired(s, d, q, s.open \ {s.desc[d].authfd})
    BY <1>2
  <1> HIDE DEF O
  <1>6. Sustains(s, F, L) /\ F.desc[d] = q
    <2> HIDE DEF p, r
    <2>1. q \in Descriptors /\ q.in = s.desc[d].in /\ q.fd = s.desc[d].fd
              /\ q.snoop = s.desc[d].snoop /\ q.authfd = 0
      BY <1>4 DEF p
    <2> QED BY <1>5, <2>1, UnwireKeeps
  <1>7. /\ r \in Descriptors /\ r.in = q.in /\ r.fd = q.fd
        /\ r.authfd = q.authfd /\ r.auth = q.auth /\ r.snoop = q.snoop
    BY <1>3, <1>4 DEF Descriptors
  <1>8. Answered(s, d) = [F EXCEPT !.desc[d] = r]
    <2>1. Answered(s, d) = [F EXCEPT !.desc[d].tries = 0]
      BY DEF Answered, F
    <2> QED BY <1>6, <2>1
  <1> HIDE DEF r
  <1>9. Sustains(F, [F EXCEPT !.desc[d] = r], L)
    <2>1. Sound(F, L)
      BY <1>6 DEF Sustains
    <2>2. q \in Descriptors /\ F.desc[d] = q
      BY <1>4, <1>6
    <2> DEFINE g == F.desc[d]
    <2>3. /\ r.in = g.in /\ r.fd = g.fd /\ r.authfd = g.authfd /\ (r.auth = "off" => g.auth = "off")
          /\ r.snoop \in {g.snoop, Null} /\ (~ g.in => r = g) /\ r \in Descriptors
      <3>1. g.in
        <4>1. s.desc[d].in
          BY DEF Sound, Listed
        <4> QED BY <1>4, <2>2, <4>1
      <3> QED BY <1>7, <2>2, <3>1
    <2> HIDE DEF F
    <2> QED BY <1>0, <2>1, <2>3, TinkerOne
  <1>10. Sustains(s, Answered(s, d), L)
    BY <1>6, <1>8, <1>9, SustainsOn
  <1> QED BY <1>6, <1>10 DEF F

LEMMA QuestionStarts ==
  ASSUME NEW L, NEW s, Sound(s, L), NEW d \in Descs, s.desc[d].in, s.desc[d].auth = "off", Free(s) # {},
         NEW t \in StartAuth(s, d)
  PROVE  Sustains(s, t, L)
  <1> DEFINE p == s.desc[d]
             x == Lowest(s)
             q == [p EXCEPT !.auth = "write", !.authfd = x]
             r == [p EXCEPT !.tries = Fewer(@)]
             O == s.open \cup {x}
  <1>1. p \in Descriptors /\ p.tries \in 0 .. MaxAtimes /\ s \in LoopStates
    BY StateFields DEF Sound
  <1>2. x \in Fds /\ x \notin s.open /\ x # 0
    BY <1>1, LowestFree
  <1>3. t = Rewired(s, d, q, O) \/ t = [s EXCEPT !.desc[d] = r]
    <2> DEFINE A == [s EXCEPT !.desc[d].auth = "write", !.desc[d].authfd = x, !.open = @ \cup {x}]
               B == [s EXCEPT !.desc[d].tries = Fewer(@)]
    <2>1. A = Rewired(s, d, q, O)
      BY DEF Rewired
    <2>2. B = [s EXCEPT !.desc[d] = r]
      OBVIOUS
    <2>3. StartAuth(s, d) = {A, B}
      BY DEF StartAuth
    <2> HIDE DEF A, B
    <2> QED BY <2>1, <2>2, <2>3
  <1>4. p.in /\ p.auth = "off" /\ p.authfd = 0
    BY DEF Sound, Wired
  <1>5. CASE t = Rewired(s, d, q, O)
    <2> HIDE DEF x
    <2>1. /\ q \in Descriptors /\ q.in = p.in /\ q.fd = p.fd /\ q.snoop = p.snoop /\ q.authfd = x
          /\ q.auth # "off"
      <3> HIDE DEF p
      <3> QED BY <1>1, <1>2, <1>4 DEF Descriptors
    <2>2. 0 \notin s.open
      BY <1>1, FdsAssumption, StateFields
    <2> HIDE DEF q
    <2>3. O = (s.open \ {s.desc[d].authfd}) \cup ({q.authfd} \ {0})
      BY <1>2, <1>4, <2>1, <2>2
    <2>4. q.in = s.desc[d].in /\ q.fd = s.desc[d].fd /\ q.snoop = s.desc[d].snoop
          /\ (q.authfd = 0 \/ q.authfd \notin s.open) /\ (q.auth = "off" => q.authfd = 0)
      BY <1>2, <2>1
    <2> HIDE DEF O
    <2>5. d \in Range(s.list)
      BY DEF Sound, Listed
    <2> QED BY <1>5, <2>1, <2>3, <2>4, <2>5, RewireKeeps
  <1>6. CASE t = [s EXCEPT !.desc[d] = r]
    <2> DEFINE n == Fewer(p.tries)
    <2>1. n \in 0 .. MaxAtimes
      BY <1>1, FewerTries
    <2>2. r = [p EXCEPT !.tries = n]
      OBVIOUS
    <2> HIDE DEF n, r
    <2>3. /\ r \in Descriptors /\ r.in = p.in /\ r.fd = p.fd
          /\ r.authfd = p.authfd /\ r.auth = p.auth /\ r.snoop = p.snoop
      <3> HIDE DEF p
      <3> QED BY <1>1, <2>1, <2>2 DEF Descriptors
    <2> QED BY <1>4, <1>6, <2>3, TinkerOne
  <1> QED BY <1>3, <1>5, <1>6

LEMMA AnswersKeep ==
  ASSUME NEW L, NEW s, Sound(s, L), NEW d \in Descs, s.desc[d].in, NEW t \in Answers(s, d)
  PROVE  Sustains(s, t, L)
  <1> DEFINE r == [s.desc[d] EXCEPT !.auth = "read"]
  <1>1. t \in {s, Answered(s, d), Failed(s, d), [s EXCEPT !.desc[d].auth = "read"]}
    BY DEF Answers, ReadAuth, SendAuth
  <1>2. Sustains(s, s, L) /\ Sustains(s, Failed(s, d), L) /\ Sustains(s, Answered(s, d), L)
    <2>1. d \in Range(s.list)
      BY DEF Sound, Listed
    <2> QED BY <2>1, KeepsItself, QuestionEnds
  <1>3. Sustains(s, [s EXCEPT !.desc[d].auth = "read"], L)
    <2>1. s.desc[d] \in Descriptors
      BY StateFields DEF Sound
    <2>2. /\ r \in Descriptors /\ r.in = s.desc[d].in /\ r.fd = s.desc[d].fd
          /\ r.authfd = s.desc[d].authfd /\ r.auth # "off" /\ r.snoop = s.desc[d].snoop
      BY <2>1 DEF Descriptors
    <2>3. [s EXCEPT !.desc[d].auth = "read"] = [s EXCEPT !.desc[d] = r]
      OBVIOUS
    <2> HIDE DEF r
    <2> QED BY <2>2, <2>3, TinkerOne
  <1> QED BY <1>1, <1>2, <1>3

LEMMA LoginsKeep ==
  ASSUME NEW L, NEW s, Sound(s, L), NEW d \in Descs, s.desc[d].in, NEW t \in Logins(s, d)
  PROVE  Sustains(s, t, L)
  <1> DEFINE Said(w) == IF w.desc[d].in THEN {w, [w EXCEPT !.desc[d].playing = TRUE]}
                        ELSE {[w EXCEPT !.wild = TRUE]}
  <1>1. \/ \E w \in Writings(s, d) : t \in Said(w)
        \/ \E w \in Closings(s, d, FALSE) : t = [w EXCEPT !.wild = TRUE]
        \/ t \in Closings(s, d, FALSE)
    <2> DEFINE A == UNION {Said(w) : w \in Writings(s, d)}
               B == {[w EXCEPT !.wild = TRUE] : w \in Closings(s, d, FALSE)}
    <2>1. Logins(s, d) = A \cup B \cup Closings(s, d, FALSE)
      BY DEF Logins
    <2>2. ASSUME t \in A PROVE \E w \in Writings(s, d) : t \in Said(w)
      <3> HIDE DEF Said
      <3> QED BY <2>2
    <2>3. ASSUME t \in B PROVE \E w \in Closings(s, d, FALSE) : t = [w EXCEPT !.wild = TRUE]
      BY <2>3
    <2> HIDE DEF A, B, Said
    <2> QED BY <2>1, <2>2, <2>3
  <1>2. ASSUME NEW w \in Writings(s, d), t \in Said(w) PROVE Sustains(s, t, L)
    <2>1. Sustains(s, w, L) /\ Sound(w, L)
      BY WritingsKeep DEF Sustains
    <2>2. Sustains(w, [w EXCEPT !.wild = TRUE], L) /\ Sustains(w, w, L)
      BY <2>1, WildKeeps, KeepsItself
    <2>3. w.desc[d].in => Sustains(w, [w EXCEPT !.desc[d].playing = TRUE], L)
      BY <2>1, PlaysKeeps
    <2>4. Sustains(w, t, L)
      BY <1>2, <2>2, <2>3
    <2> QED BY <2>1, <2>4, SustainsOn
  <1>3. ASSUME NEW w \in Closings(s, d, FALSE), t = [w EXCEPT !.wild = TRUE] PROVE Sustains(s, t, L)
    <2>1. Sustains(s, w, L) /\ Sound(w, L)
      BY ClosingsKeep DEF Sustains
    <2>2. Sustains(w, t, L)
      BY <1>3, <2>1, WildKeeps
    <2> QED BY <2>1, <2>2, SustainsOn
  <1>4. t \in Closings(s, d, FALSE) => Sustains(s, t, L)
    BY ClosingsKeep
  <1> HIDE DEF Said
  <1> QED BY <1>1, <1>2, <1>3, <1>4


\* Snooping somebody who is not watching closes no circle.
LEMMA SnoopKeeps ==
  ASSUME NEW L, NEW s, Sound(s, L), NEW d \in Range(s.list), NEW v \in Range(s.list), MaySnoop(s, d, v)
  PROVE  Sustains(s, [s EXCEPT !.desc[v].snoop = d], L)
  <1> DEFINE r == [s.desc[v] EXCEPT !.snoop = d]
             t == [s EXCEPT !.desc[v] = r]
             f == [e \in Descs |-> s.desc[e].snoop]
             g == [e \in Descs |-> t.desc[e].snoop]
  <1>0. s \in LoopStates /\ d \in Descs /\ v \in Descs
    BY DEF Sound, Listed
  <1>1. s.desc[v] \in Descriptors
    BY <1>0, StateFields
  <1>2. /\ r \in Descriptors /\ r.in = s.desc[v].in /\ r.fd = s.desc[v].fd
        /\ r.authfd = s.desc[v].authfd /\ r.auth = s.desc[v].auth /\ r.snoop = d
    BY <1>0, <1>1 DEF Descriptors
  <1>3. [s EXCEPT !.desc[v].snoop = d] = t
    OBVIOUS
  <1> HIDE DEF r
  <1>4. /\ t \in LoopStates /\ t.list = s.list /\ t.next = s.next /\ t.open = s.open
        /\ t.desc[v] = r /\ \A e \in Descs \ {v} : t.desc[e] = s.desc[e]
    BY <1>0, <1>2, OneDescriptor
  <1> HIDE DEF t
  <1>5. \A e \in Descs : /\ t.desc[e].in = s.desc[e].in /\ t.desc[e].fd = s.desc[e].fd
                         /\ t.desc[e].authfd = s.desc[e].authfd /\ t.desc[e].auth = s.desc[e].auth
    BY <1>2, <1>4
  <1>6. Listed(t)
    <2>1. {e \in Descs : t.desc[e].in} = {e \in Descs : s.desc[e].in}
      BY <1>5
    <2> QED BY <1>4, <2>1 DEF Sound, Listed
  <1>7. Wired(t, L)
    <2>1. \A e \in Descs : SocketsOf(t, e) = SocketsOf(s, e)
      BY <1>5 DEF SocketsOf
    <2>2. UNION {SocketsOf(t, e) : e \in Descs} = UNION {SocketsOf(s, e) : e \in Descs}
      BY <2>1
    <2>3. \A e \in Descs :
              /\ t.desc[e].in => t.desc[e].fd \notin {0, t.desc[e].authfd}
              /\ t.desc[e].auth = "off" => t.desc[e].authfd = 0
      BY <1>5 DEF Sound, Wired
    <2> QED BY <1>4, <2>1, <2>2, <2>3 DEF Sound, Wired
  <1>8. Snooped(t)
    <2>1. s.desc[d].in /\ s.desc[v].in
      BY DEF Sound, Listed
    <2>2. ASSUME NEW e \in Descs, ~ t.desc[e].in PROVE t.desc[e] = Unused
      <3>1. ~ s.desc[e].in
        BY <1>5, <2>2
      <3>2. e # v
        BY <2>1, <3>1
      <3> QED BY <1>4, <3>1, <3>2 DEF Sound, Snooped
    <2>3. ASSUME NEW e \in Descs, t.desc[e].snoop # Null PROVE t.desc[t.desc[e].snoop].in
      <3>1. CASE e = v
        <4>1. t.desc[e].snoop = d /\ t.desc[d].in
          BY <1>0, <1>2, <1>4, <1>5, <2>1, <3>1
        <4> QED BY <4>1
      <3>2. CASE e # v
        <4>1. t.desc[e].snoop = s.desc[e].snoop
          BY <1>4, <3>2
        <4>2. s.desc[e].snoop \in Descs
          BY <1>0, <2>3, <4>1, StateFields
        <4>3. s.desc[s.desc[e].snoop].in
          BY <2>3, <4>1 DEF Sound, Snooped
        <4> QED BY <1>5, <4>1, <4>2, <4>3
      <3> QED BY <3>1, <3>2
    <2>4. NoCircle(g)
      <3>1. f \in Links /\ NoCircle(f)
        BY <1>0, StateFields DEF Links, Sound, Snooped
      <3>2. v # d /\ v \notin Along(f[d], f)
        BY <1>0 DEF MaySnoop, Watchers
      <3>3. g[v] = d /\ \A e \in Descs \ {v} : g[e] = f[e]
        BY <1>0, <1>2, <1>4
      <3> HIDE DEF f, g
      <3> QED BY <1>0, <3>1, <3>2, <3>3, NewLink
    <2> QED BY <2>2, <2>3, <2>4 DEF Snooped
  <1>9. Sound(t, L)
    BY <1>4, <1>6, <1>7, <1>8 DEF Sound
  <1>10. From(s.list, s.next) = From(s.list, s.next) \cap Range(s.list)
    BY KeepsItself DEF Sustains
  <1>11. Sustains(s, t, L)
    BY <1>4, <1>9, <1>10 DEF Sustains
  <1> QED BY <1>3, <1>11

LEMMA StopSnoopsKeeps ==
  ASSUME NEW L, NEW s, Sound(s, L), NEW d
  PROVE  Sustains(s, [s EXCEPT !.desc = [v \in Descs |->
                     IF s.desc[v].snoop = d THEN [s.desc[v] EXCEPT !.snoop = Null] ELSE s.desc[v]]], L)
  <1> DEFINE f == [v \in Descs |->
                     IF s.desc[v].snoop = d THEN [s.desc[v] EXCEPT !.snoop = Null] ELSE s.desc[v]]
             t == [s EXCEPT !.desc = f]
  <1>1. s \in LoopStates /\ \A e \in Descs : s.desc[e] \in Descriptors
    BY StateFields DEF Sound
  <1>2. \A e \in Descs :
          /\ f[e] \in Descriptors /\ f[e].in = s.desc[e].in /\ f[e].fd = s.desc[e].fd
          /\ f[e].authfd = s.desc[e].authfd /\ f[e].auth = s.desc[e].auth
          /\ f[e].snoop \in {s.desc[e].snoop, Null}
    <2> SUFFICES ASSUME NEW e \in Descs
                 PROVE  /\ f[e] \in Descriptors /\ f[e].in = s.desc[e].in /\ f[e].fd = s.desc[e].fd
                        /\ f[e].authfd = s.desc[e].authfd /\ f[e].auth = s.desc[e].auth
                        /\ f[e].snoop \in {s.desc[e].snoop, Null}
      OBVIOUS
    <2> DEFINE p == s.desc[e]
               q == f[e]
    <2>1. p \in Descriptors /\ q = IF p.snoop = d THEN [p EXCEPT !.snoop = Null] ELSE p
      BY <1>1
    <2> HIDE DEF p, q
    <2>2. /\ q \in Descriptors /\ q.in = p.in /\ q.fd = p.fd
          /\ q.authfd = p.authfd /\ q.auth = p.auth /\ q.snoop \in {p.snoop, Null}
      BY <2>1 DEF Descriptors
    <2> QED BY <2>2 DEF p, q
  <1>3. \A e \in Descs : ~ s.desc[e].in => f[e] = s.desc[e]
    <2> SUFFICES ASSUME NEW e \in Descs, ~ s.desc[e].in PROVE f[e] = s.desc[e]
      OBVIOUS
    <2>1. s.desc[e] = Unused
      BY DEF Sound, Snooped
    <2>2. [Unused EXCEPT !.snoop = Null] = Unused
      <3>1. \A r \in Descriptors : r.snoop = Null => [r EXCEPT !.snoop = Null] = r
        BY DEF Descriptors
      <3> QED BY <3>1, UnusedTyped
    <2> DEFINE p == s.desc[e]
               q == f[e]
    <2>3. q = p \/ q = [p EXCEPT !.snoop = Null]
      OBVIOUS
    <2>4. p = Unused
      BY <2>1
    <2> HIDE DEF p, q
    <2>5. q = p
      BY <2>2, <2>3, <2>4
    <2> QED BY <2>5 DEF p, q
  <1>4. f \in [Descs -> Descriptors]
    <2> DEFINE h(v) == IF s.desc[v].snoop = d THEN [s.desc[v] EXCEPT !.snoop = Null] ELSE s.desc[v]
    <2>1. f = [v \in Descs |-> h(v)] /\ \A v \in Descs : h(v) \in Descriptors
      BY <1>2
    <2> HIDE DEF f, h
    <2> QED BY <2>1
  <1> HIDE DEF f
  <1>5. t \in LoopStates /\ t.list = s.list /\ t.next = s.next /\ t.open = s.open /\ t.desc = f
    BY <1>1, <1>4 DEF LoopStates
  <1> HIDE DEF t
  <1>6. Sustains(s, t, L)
    BY <1>2, <1>3, <1>5, TinkerKeeps
  <1> QED BY <1>6 DEF t, f

LEMMA CommandsKeep ==
  ASSUME NEW L, NEW s, Sound(s, L), NEW d \in Range(s.list), NEW t \in Commands(s, d)
  PROVE  Sustains(s, t, L)
  <1> DEFINE A == {[s EXCEPT !.desc[v].snoop = d] : v \in {v \in Range(s.list) : MaySnoop(s, d, v)}}
             b == [s EXCEPT !.desc = [v \in Descs |->
                     IF s.desc[v].snoop = d THEN [s.desc[v] EXCEPT !.snoop = Null] ELSE s.desc[v]]]
             C == UNION {Writings(s, e) \cup Disconnects(s, e) : e \in Range(s.list)}
  <1>1. Commands(s, d) = A \cup {b} \cup C
    BY DEF Commands
  <1>2. ASSUME t \in A PROVE Sustains(s, t, L)
    <2>1. PICK v \in Range(s.list) : MaySnoop(s, d, v) /\ t = [s EXCEPT !.desc[v].snoop = d]
      BY <1>2
    <2> HIDE DEF A
    <2> QED BY <2>1, SnoopKeeps
  <1>3. Sustains(s, b, L)
    BY StopSnoopsKeeps
  <1>4. ASSUME t \in C PROVE Sustains(s, t, L)
    <2>1. PICK e \in Range(s.list) : t \in Writings(s, e) \/ t \in Disconnects(s, e)
      BY <1>4
    <2>2. e \in Descs /\ s.desc[e].in
      BY DEF Sound, Listed
    <2> QED BY <2>1, <2>2, WritingsKeep, ClosingsKeep DEF Disconnects
  <1> HIDE DEF A, b, C
  <1> QED BY <1>1, <1>2, <1>3, <1>4

LEMMA ObeysKeep ==
  ASSUME NEW L, NEW s, Sound(s, L), NEW d \in Range(s.list), NEW t \in Obeys(s, d)
  PROVE  Sustains(s, t, L)
  <1> DEFINE u == [s EXCEPT !.desc[d].fcommand = TRUE]
  <1>1. d \in Descs /\ s.desc[d].in /\ s \in LoopStates
    BY DEF Sound, Listed
  <1>2. Sustains(s, u, L)
    <2>1. TRUE \in BOOLEAN
      OBVIOUS
    <2> QED BY <1>1, <2>1, CommandKeeps
  <1>3. u.list = s.list
    BY <1>1 DEF LoopStates
  <1>4. t \in Commands(u, d) \/ t \in Logins(u, d)
    BY DEF Obeys
  <1> HIDE DEF u
  <1>5. Sound(u, L) /\ d \in Range(u.list)
    BY <1>2, <1>3 DEF Sustains
  <1>6. u.desc[d].in
    BY <1>5 DEF Sound, Listed
  <1>7. Sustains(u, t, L)
    BY <1>1, <1>4, <1>5, <1>6, CommandsKeep, LoginsKeep
  <1> QED BY <1>2, <1>7, SustainsOn

LEMMA DroppedKeeps ==
  ASSUME NEW L, NEW s, Sound(s, L), NEW d \in Range(s.list), NEW t \in Dropped(s, d)
  PROVE  Sustains(s, t, L)
  <1> DEFINE u == [s EXCEPT !.desc[d].out = 0]
  <1>1. d \in Descs
    BY DEF Sound, Listed
  <1>2. Sustains(s, u, L)
    BY <1>1, ClearKeeps
  <1>3. t \in Closings(u, d, TRUE)
    BY DEF Dropped
  <1> HIDE DEF u
  <1>4. Sustains(u, t, L)
    BY <1>1, <1>2, <1>3, ClosingsKeep DEF Sustains
  <1> QED BY <1>2, <1>4, SustainsOn

\* Nobody is closed by his question.
LEMMA QuestionStays ==
  ASSUME NEW L, NEW s, Sound(s, L), NEW d \in Range(s.list)
  PROVE  /\ \A t \in StartAuth(s, d) : t.list = s.list
         /\ \A t \in Answers(s, d) : t.list = s.list
  <1> s \in LoopStates
    BY DEF Sound
  <1>1. \A t \in StartAuth(s, d) : t.list = s.list
    BY DEF StartAuth, LoopStates
  <1>2. Failed(s, d).list = s.list
    BY DEF Failed, LoopStates
  <1>3. Answered(s, d).list = s.list
    <2> DEFINE F == Failed(s, d)
    <2>1. F \in LoopStates
      BY QuestionEnds DEF Sustains, Sound
    <2>2. Answered(s, d) = [F EXCEPT !.desc[d].tries = 0]
      BY DEF Answered
    <2>3. F.list = s.list
      BY <1>2
    <2> HIDE DEF F
    <2> QED BY <2>1, <2>2, <2>3 DEF LoopStates
  <1>4. [s EXCEPT !.desc[d].auth = "read"].list = s.list
    BY DEF LoopStates
  <1>5. \A t \in Answers(s, d) : t \in {s, Answered(s, d), Failed(s, d), [s EXCEPT !.desc[d].auth = "read"]}
    BY DEF Answers, ReadAuth, SendAuth
  <1> QED BY <1>1, <1>2, <1>3, <1>4, <1>5

LEMMA ServedKeep ==
  ASSUME NEW L, NEW s, Sound(s, L), NEW d \in Range(s.list), NeedsAuth(s, d) => Free(s) # {},
         NEW t \in Served(s, d)
  PROVE  Sustains(s, t, L)
  <1>1. PICK w \in (IF NeedsAuth(s, d) THEN StartAuth(s, d) ELSE {s}) :
           t \in UNION {Obeys(u, d) \cup {u} : u \in Answers(w, d)}
    BY DEF Served
  <1>2. PICK u \in Answers(w, d) : t \in Obeys(u, d) \/ t = u
    BY <1>1
  <1>3. d \in Descs /\ s.desc[d].in /\ s \in LoopStates
    BY DEF Sound, Listed
  <1>4. Sustains(s, w, L) /\ w.list = s.list
    <2>1. CASE NeedsAuth(s, d)
      <3>1. w \in StartAuth(s, d)
        BY <2>1
      <3> QED BY <1>3, <2>1, <3>1, QuestionStarts, QuestionStays DEF NeedsAuth
    <2>2. CASE ~ NeedsAuth(s, d)
      BY <2>2, KeepsItself
    <2> QED BY <2>1, <2>2
  <1>5. Sound(w, L) /\ d \in Range(w.list)
    BY <1>4 DEF Sustains
  <1>6. w.desc[d].in /\ w \in LoopStates
    BY <1>5 DEF Sound, Listed
  <1>7. Sustains(w, u, L) /\ u.list = w.list
    BY <1>3, <1>5, <1>6, AnswersKeep, QuestionStays
  <1>8. Sound(u, L) /\ d \in Range(u.list)
    BY <1>5, <1>7 DEF Sustains
  <1>9. Sustains(u, t, L)
    BY <1>2, <1>8, ObeysKeep, KeepsItself
  <1>10. Sustains(s, u, L)
    BY <1>4, <1>7, SustainsOn
  <1> QED BY <1>9, <1>10, SustainsOn

LEMMA FlushesKeep ==
  ASSUME NEW L, NEW s, Sound(s, L), NEW d \in Range(s.list), NEW t \in Flushes(s, d)
  PROVE  Sustains(s, t, L)
  <1>1. d \in Descs /\ s.desc[d].in /\ s \in LoopStates
    BY DEF Sound, Listed
  <1>2. s.desc[d].playing \in BOOLEAN
    BY <1>1, StateFields
  <1>3. PICK k \in Lengths : t = Flush(s, d, s.desc[d].playing, k)
    BY DEF Flushes
  <1> QED BY <1>1, <1>2, <1>3, FlushKeeps

LEMMA WritesKeep ==
  ASSUME NEW L, NEW s, Sound(s, L), NEW d \in Range(s.list), NEW t \in Writes(s, d)
  PROVE  Sustains(s, t, L)
  <1> DEFINE Shut(w, k) == IF w.wild \/ (s.desc[d].out = 0 /\ ~ s.desc[d].playing) THEN w
                           ELSE Close(w, d, FALSE, FALSE, k)
  <1>1. t \in Flushes(s, d) \/ \E w \in Flushes(s, d), k \in Lengths : t = Shut(w, k)
    <2> DEFINE B == {Shut(w, k) : w \in Flushes(s, d), k \in Lengths}
    <2>1. Writes(s, d) = Flushes(s, d) \cup B
      BY DEF Writes
    <2>2. t \in B => \E w \in Flushes(s, d), k \in Lengths : t = Shut(w, k)
      <3> HIDE DEF Shut
      <3> QED OBVIOUS
    <2> HIDE DEF B, Shut
    <2> QED BY <2>1, <2>2
  <1>2. \A w \in Flushes(s, d) : Sustains(s, w, L)
    BY FlushesKeep
  <1>3. ASSUME NEW w \in Flushes(s, d), NEW k \in Lengths, t = Shut(w, k) PROVE Sustains(s, t, L)
    <2>1. Sustains(s, w, L) /\ Sound(w, L)
      BY <1>2 DEF Sustains
    <2>2. d \in Descs
      BY DEF Sound, Listed
    <2>3. Sustains(w, Close(w, d, FALSE, FALSE, k), L)
      <3>1. FALSE \in BOOLEAN /\ (FALSE => w.desc[d].in)
        OBVIOUS
      <3> QED BY <2>1, <2>2, <3>1, CloseKeeps
    <2>4. Sustains(w, w, L)
      BY <2>1, KeepsItself
    <2>5. Sustains(w, t, L)
      BY <1>3, <2>3, <2>4
    <2> QED BY <2>1, <2>5, SustainsOn
  <1> HIDE DEF Shut
  <1> QED BY <1>1, <1>2, <1>3


-----------------------------------------------------------------------------
(* The invariant of the loop.                                               *)

\* In a walk, ahead are those who are there and had no turn.
Ahead == phase \in {"input", "output"} => From(list, next) = Range(list) \ turn

LoopIInv ==
    /\ phase \in Phases /\ polled \subseteq Fds /\ lost \subseteq Fds /\ turn \subseteq Descs
    /\ Sound(Now, lost)
    /\ Ahead

LEMMA NowFields ==
  /\ Now.desc = desc /\ Now.list = list /\ Now.next = next /\ Now.open = open /\ Now.wild = wild
  /\ (Now.desc = desc /\ Now.list = list /\ Now.next = next /\ Now.open = open /\ Now.wild = wild)'
  /\ Now' = [desc |-> desc', list |-> list', next |-> next', open |-> open', wild |-> wild']
  BY DEF Now

LEMMA SoundImplies ==
  ASSUME LoopIInv
  PROVE  LoopTypeOK /\ OneTurnEach /\ SnoopersAhead /\ SocketsOwned
  <1>0. Now.desc = desc /\ Now.list = list /\ Now.next = next /\ Now.open = open /\ Now.wild = wild
    BY DEF Now
  <1>1. Sound(Now, lost) /\ Now \in LoopStates
    BY DEF LoopIInv, Sound
  <1>2. /\ Range(list) = {d \in Descs : desc[d].in} /\ IsInjective(list)
        /\ next \in Range(list) \cup {Null}
    BY <1>0, <1>1 DEF Sound, Listed
  <1>3. LoopTypeOK
    BY <1>0, <1>1, <1>2, StateFields DEF LoopIInv, LoopTypeOK, Descriptors
  <1>4. OneTurnEach
    <2>1. next # Null => desc[next].in
      BY <1>2
    <2>2. phase \in {"input", "output"} => From(list, next) = {d \in Descs : desc[d].in} \ turn
      BY <1>2 DEF LoopIInv, Ahead
    <2> QED BY <2>1, <2>2 DEF OneTurnEach
  <1>5. SnoopersAhead
    <2>1. \A d \in Descs : desc[d].snoop # Null => desc[desc[d].snoop].in
      BY <1>0, <1>1 DEF Sound, Snooped
    <2>2. \A d \in Descs : d \notin Watchers(Now, d)
      <3> DEFINE f == [e \in Descs |-> Now.desc[e].snoop]
      <3>1. f \in Links /\ NoCircle(f)
        BY <1>1, StateFields DEF Links, Sound, Snooped
      <3>2. \A d \in Descs : Watchers(Now, d) = Along(f[d], f)
        BY DEF Watchers
      <3> HIDE DEF f
      <3> QED BY <3>1, <3>2, NobodyAhead
    <2> QED BY <2>1, <2>2 DEF SnoopersAhead
  <1>6. SocketsOwned
    <2> DEFINE S(d) == SocketsOf(Now, d)
    <2>1. /\ lost \subseteq open /\ open \ lost = UNION {S(d) : d \in Descs}
          /\ \A d, e \in Descs : d # e => S(d) \cap S(e) = {}
          /\ \A d \in Descs : desc[d].in => desc[d].fd \notin {0, desc[d].authfd}
      BY <1>0, <1>1 DEF Sound, Wired
    <2>2. \A d \in Descs : ~ desc[d].in => S(d) = {}
      <3>1. \A d \in Descs : ~ desc[d].in => desc[d].fd = 0 /\ desc[d].authfd = 0
        BY <1>0, <1>1, UnusedTyped DEF Sound, Snooped
      <3> QED BY <1>0, <3>1 DEF SocketsOf
    <2>3. \A d \in Range(list) : d \in Descs /\ desc[d].in
      BY <1>2
    <2>4. \A d \in Descs : desc[d].in => d \in Range(list)
      BY <1>2
    <2> HIDE DEF S
    <2>5. open \ lost = UNION {S(d) : d \in Range(list)}
      BY <2>1, <2>2, <2>3, <2>4
    <2>6. \A d \in Range(list) :
            /\ desc[d].fd \notin {0, desc[d].authfd}
            /\ S(d) \cap lost = {}
            /\ \A e \in Range(list) \ {d} : S(d) \cap S(e) = {}
      BY <2>1, <2>3, <2>5
    <2> QED BY <2>5, <2>6 DEF SocketsOwned, S
  <1> QED BY <1>3, <1>4, <1>5, <1>6

LEMMA LoopBegins ==
  ASSUME LoopInit
  PROVE  LoopIInv
  <1>1. Now = [desc |-> [d \in Descs |-> Unused], list |-> <<>>, next |-> Null, open |-> {}, wild |-> FALSE]
    BY DEF LoopInit, Now
  <1> DEFINE s == Now
  <1>2. /\ s.desc = [d \in Descs |-> Unused] /\ s.list = <<>> /\ s.next = Null /\ s.open = {} /\ s.wild = FALSE
    BY <1>1
  <1>3. \A d \in Descs : s.desc[d] = Unused /\ ~ s.desc[d].in /\ s.desc[d].fd = 0 /\ s.desc[d].authfd = 0
                         /\ s.desc[d].snoop = Null
    BY <1>2, UnusedTyped
  <1>4. s \in LoopStates
    <2>1. <<>> \in Seq(Descs)
      OBVIOUS
    <2> QED BY <1>1, <2>1, UnusedTyped DEF LoopStates
  <1> HIDE DEF s
  <1>5. Listed(s)
    <2>1. Range(s.list) = {} /\ IsInjective(s.list)
      BY <1>2 DEF Range, IsInjective
    <2> QED BY <1>2, <1>3, <2>1 DEF Listed
  <1>6. Snooped(s)
    <2> DEFINE f == [d \in Descs |-> s.desc[d].snoop]
    <2>1. \A d \in Descs : f[d] = Null
      BY <1>3
    <2> HIDE DEF f
    <2>2. NoCircle(f)
      BY <2>1, DescsAssumption DEF NoCircle
    <2> QED BY <1>3, <2>2 DEF Snooped, f
  <1>7. Wired(s, {})
    <2>1. \A d \in Descs : SocketsOf(s, d) = {}
      BY <1>3 DEF SocketsOf
    <2> QED BY <1>2, <1>3, <2>1 DEF Wired
  <1>8. Sound(Now, lost)
    BY <1>4, <1>5, <1>6, <1>7 DEF Sound, s, LoopInit
  <1>9. phase \in Phases /\ polled \subseteq Fds /\ lost \subseteq Fds /\ turn \subseteq Descs
    BY DEF LoopInit, Phases
  <1> QED BY <1>8, <1>9 DEF LoopIInv, LoopInit, Ahead

\* The walk may be at anybody who is there.
LEMMA MovedSound ==
  ASSUME NEW L, NEW s, Sound(s, L), NEW n \in Range(s.list) \cup {Null}, NEW w \in BOOLEAN, NEW t,
         t = [desc |-> s.desc, list |-> s.list, next |-> n, open |-> s.open, wild |-> w]
  PROVE  Sound(t, L)
  <1>1. t.desc = s.desc /\ t.list = s.list /\ t.next = n /\ t.open = s.open
    OBVIOUS
  <1>2. Range(s.list) \subseteq Descs
    BY DEF Sound, Listed
  <1>3. t \in LoopStates
    BY <1>2, StateFields DEF Sound, LoopStates
  <1> HIDE DEF Sound
  <1>4. Listed(t)
    BY <1>1 DEF Sound, Listed
  <1>5. Snooped(t)
    BY <1>1 DEF Sound, Snooped
  <1>6. Wired(t, L)
    <2>1. \A e : SocketsOf(t, e) = SocketsOf(s, e)
      BY <1>1 DEF SocketsOf
    <2>2. UNION {SocketsOf(t, e) : e \in Descs} = UNION {SocketsOf(s, e) : e \in Descs}
      BY <2>1
    <2> QED BY <1>1, <2>1, <2>2 DEF Sound, Wired
  <1> QED BY <1>3, <1>4, <1>5, <1>6 DEF Sound

\* A walk begins with everybody ahead.
LEMMA WalkBegins ==
  ASSUME NEW p \in Phases, Continue(p), NEW s, Sound(s, lost'),
         desc' = s.desc, list' = s.list, open' = s.open, wild' \in BOOLEAN,
         polled' \subseteq Fds, lost' \subseteq Fds
  PROVE  LoopIInv'
  <1>1. s.list \in Seq(Descs) /\ IsInjective(s.list)
    BY StateFields DEF Sound, Listed
  <1>2. phase' = p /\ turn' = {} /\ next' = IF p \in {"input", "output"} THEN First(s.list) ELSE Null
    BY DEF Continue
  <1>3. First(s.list) \in Range(s.list) \cup {Null} /\ From(s.list, First(s.list)) = Range(s.list)
    BY <1>1, WalkFirst
  <1>4. next' \in Range(s.list) \cup {Null}
    BY <1>2, <1>3
  <1>5. Now' = [desc |-> s.desc, list |-> s.list, next |-> next', open |-> s.open, wild |-> wild']
    BY DEF Now
  <1>6. Sound(Now', lost')
    BY <1>4, <1>5, MovedSound
  <1>7. Ahead'
    BY <1>2, <1>3 DEF Ahead
  <1> QED BY <1>2, <1>6, <1>7 DEF LoopIInv


\* Who was not there is linked at the end, with a number nobody has.
LEMMA LinkedSound ==
  ASSUME Sound(Now, lost), NEW d \in Descs, ~ desc[d].in, Free(Now) # {}
  PROVE  /\ Sound(Linked(d), lost) /\ d \in Range(Linked(d).list)
         /\ Linked(d).desc[d].in /\ Linked(d).desc[d].auth = "off" /\ Linked(d).wild = wild
  <1> DEFINE s == Now
             t == Linked(d)
             x == Lowest(s)
             r == [Unused EXCEPT !.in = TRUE, !.fd = x, !.out = 1]
             S(e) == SocketsOf(s, e)
             T(e) == SocketsOf(t, e)
  <1>0. s.desc = desc /\ s.list = list /\ s.next = next /\ s.open = open /\ s.wild = wild /\ s \in LoopStates
    BY DEF Sound, Now
  <1> HIDE DEF s
  <1>1. x \in Fds /\ x \notin open /\ x # 0
    BY <1>0, LowestFree DEF s
  <1>2. t = [desc |-> [desc EXCEPT ![d] = r], list |-> Append(list, d), next |-> next,
             open |-> open \cup {x}, wild |-> wild]
    BY DEF Linked, s
  <1> HIDE DEF x
  <1>3. /\ r \in Descriptors /\ r.in /\ r.in = TRUE /\ r.fd = x /\ r.authfd = 0 /\ r.auth = "off" /\ r.snoop = Null
    <2> DEFINE u == Unused
    <2>1. 1 \in 0 .. Limit - 1
      BY LimitAssumption
    <2>2. u \in Descriptors /\ u.authfd = 0 /\ u.auth = "off" /\ u.snoop = Null
      BY UnusedTyped
    <2> HIDE DEF u
    <2>3. r = [u EXCEPT !.in = TRUE, !.fd = x, !.out = 1]
      BY DEF u
    <2> HIDE DEF r
    <2> QED BY <1>1, <2>1, <2>2, <2>3 DEF Descriptors
  <1> HIDE DEF r
  <1>4. desc \in [Descs -> Descriptors] /\ \A e \in Descs : desc[e].snoop \in Descs \cup {Null}
    BY <1>0, StateFields
  <1>5. /\ t.list = Append(list, d) /\ t.next = next /\ t.open = open \cup {x} /\ t.wild = wild
        /\ t.desc \in [Descs -> Descriptors]
        /\ t.desc[d] = r /\ \A e \in Descs \ {d} : t.desc[e] = desc[e]
    BY <1>2, <1>3, <1>4
  <1>6. list \in Seq(Descs) /\ IsInjective(list) /\ Range(list) = {e \in Descs : desc[e].in}
        /\ next \in Range(list) \cup {Null} /\ d \notin Range(list)
    BY <1>0, StateFields DEF Sound, Listed, s
  <1>7. t.list \in Seq(Descs) /\ IsInjective(t.list) /\ Range(t.list) = Range(list) \cup {d}
    BY <1>5, <1>6, AppendList
  <1>8. t \in LoopStates
    <2>1. open \cup {x} \subseteq Fds /\ next \in Descs \cup {Null} /\ wild \in BOOLEAN
      BY <1>0, <1>1, StateFields
    <2>2. t = [desc |-> t.desc, list |-> t.list, next |-> t.next, open |-> t.open, wild |-> t.wild]
      BY <1>2, <1>5
    <2> HIDE DEF t
    <2> QED BY <1>5, <1>7, <2>1, <2>2 DEF LoopStates
  <1> HIDE DEF t
  <1>9. \A e \in Descs : e = d \/ t.desc[e] = desc[e]
    BY <1>5
  <1>10. Listed(t)
    <2>1. Range(t.list) = {e \in Descs : t.desc[e].in}
      BY <1>3, <1>5, <1>6, <1>7, <1>9
    <2> QED BY <1>5, <1>6, <1>7, <2>1 DEF Listed
  <1>11. Snooped(t)
    <2>1. ASSUME NEW e \in Descs, ~ t.desc[e].in PROVE t.desc[e] = Unused
      <3>1. e # d
        BY <1>3, <1>5, <2>1
      <3>2. t.desc[e] = desc[e] /\ s.desc[e] = desc[e]
        BY <1>0, <1>5, <3>1
      <3> QED BY <2>1, <3>2 DEF Sound, Snooped, s
    <2>2. \A e \in Descs : t.desc[e].snoop = desc[e].snoop
      <3>1. desc[d].snoop = Null
        BY <1>0, UnusedTyped DEF Sound, Snooped, s
      <3> QED BY <1>3, <1>5, <1>9, <3>1
    <2>3. \A e \in Descs : desc[e].in => t.desc[e].in
      BY <1>3, <1>5, <1>9
    <2>4. \A e \in Descs : desc[e].snoop # Null => desc[desc[e].snoop].in
      BY <1>0 DEF Sound, Snooped, s
    <2>5. \A e \in Descs : t.desc[e].snoop # Null => t.desc[t.desc[e].snoop].in
      BY <1>4, <2>2, <2>3, <2>4
    <2>6. NoCircle([e \in Descs |-> t.desc[e].snoop])
      <3>1. NoCircle([e \in Descs |-> s.desc[e].snoop])
        BY DEF Sound, Snooped, s
      <3>2. [e \in Descs |-> t.desc[e].snoop] = [e \in Descs |-> s.desc[e].snoop]
        BY <1>0, <2>2
      <3> QED BY <3>1, <3>2
    <2> QED BY <2>1, <2>5, <2>6 DEF Snooped
  <1>12. Wired(t, lost)
    <2>1. \A e \in Descs : e # d => T(e) = S(e)
      BY <1>0, <1>5 DEF SocketsOf
    <2>2. S(d) = {} /\ T(d) = {x}
      <3>1. desc[d].fd = 0 /\ desc[d].authfd = 0
        BY <1>0, UnusedTyped DEF Sound, Snooped, s
      <3> QED BY <1>0, <1>1, <1>3, <1>5, <3>1 DEF SocketsOf
    <2>3. /\ lost \subseteq open /\ open \ lost = UNION {S(e) : e \in Descs}
          /\ \A e, g \in Descs : e # g => S(e) \cap S(g) = {}
      BY <1>0 DEF Sound, Wired, s
    <2> HIDE DEF S, T
    <2>4. \A e \in Descs : x \notin S(e)
      BY <1>1, <2>3
    <2>5. t.open \ lost = UNION {T(e) : e \in Descs}
      <3>1. \A z \in t.open \ lost : \E e \in Descs : z \in T(e)
        <4> SUFFICES ASSUME NEW z \in t.open \ lost PROVE \E e \in Descs : z \in T(e)
          OBVIOUS
        <4>1. CASE z = x
          BY <2>2, <4>1
        <4>2. CASE z # x
          <5>1. z \in open \ lost
            BY <1>5, <4>2
          <5>2. PICK e \in Descs : z \in S(e)
            BY <2>3, <5>1
          <5>3. e # d
            BY <2>2, <5>2
          <5> QED BY <2>1, <5>2, <5>3
        <4> QED BY <4>1, <4>2
      <3>2. \A e \in Descs : \A z \in T(e) : z \in t.open \ lost
        <4> SUFFICES ASSUME NEW e \in Descs, NEW z \in T(e) PROVE z \in t.open \ lost
          OBVIOUS
        <4>1. CASE e = d
          BY <1>1, <1>5, <2>2, <2>3, <4>1
        <4>2. CASE e # d
          <5>1. z \in S(e)
            BY <2>1, <4>2
          <5> QED BY <1>5, <2>3, <5>1
        <4> QED BY <4>1, <4>2
      <3> QED BY <3>1, <3>2
    <2>6. \A e, g \in Descs : e # g => T(e) \cap T(g) = {}
      <3> SUFFICES ASSUME NEW e \in Descs, NEW g \in Descs, e # g PROVE T(e) \cap T(g) = {}
        OBVIOUS
      <3>1. CASE e = d
        BY <2>1, <2>2, <2>4, <3>1
      <3>2. CASE g = d
        BY <2>1, <2>2, <2>4, <3>2
      <3>3. CASE e # d /\ g # d
        BY <2>1, <2>3, <3>3
      <3> QED BY <3>1, <3>2, <3>3
    <2>7. \A e \in Descs :
            /\ t.desc[e].in => t.desc[e].fd \notin {0, t.desc[e].authfd}
            /\ t.desc[e].auth = "off" => t.desc[e].authfd = 0
      <3>1. \A e \in Descs :
              /\ desc[e].in => desc[e].fd \notin {0, desc[e].authfd}
              /\ desc[e].auth = "off" => desc[e].authfd = 0
        BY <1>0 DEF Sound, Wired, s
      <3>2. r.fd \notin {0, r.authfd} /\ r.authfd = 0
        BY <1>1, <1>3
      <3>3. t.desc[d].fd \notin {0, t.desc[d].authfd} /\ t.desc[d].authfd = 0
        BY <1>5, <3>2
      <3> QED BY <1>9, <3>1, <3>3
    <2>8. lost \subseteq t.open
      BY <1>5, <2>3
    <2> QED BY <2>5, <2>6, <2>7, <2>8 DEF Wired, T
  <1>13. Sound(t, lost)
    BY <1>8, <1>10, <1>11, <1>12 DEF Sound
  <1>14. t.desc[d].in /\ t.desc[d].auth = "off" /\ d \in Range(t.list)
    BY <1>3, <1>5, <1>7
  <1> QED BY <1>5, <1>13, <1>14 DEF t

\* A state that a handler comes to is the next state of the loop.
LEMMA BecomesNow ==
  ASSUME NEW t \in LoopStates, Becomes(t)
  PROVE  Now' = t
  <1>1. t = [desc |-> t.desc, list |-> t.list, next |-> t.next, open |-> t.open, wild |-> t.wild]
    BY DEF LoopStates
  <1> QED BY <1>1 DEF Becomes, Now

\* The turn of d: d_next goes on first, then whatever is done to whomever.
LEMMA TurnTaken ==
  ASSUME LoopIInv, phase \in {"input", "output"}, NEW d \in Descs, next = d, NEW s, NEW t,
         s = [Step(Now) EXCEPT !.desc[d].fcommand = FALSE],
         Sustains(s, t, lost), Becomes(t), turn' = (turn \cup {d}) \cap Range(list'),
         phase' \in Phases, polled' = polled, lost' = lost
  PROVE  LoopIInv'
  <1>1. t \in LoopStates /\ Now' = t
    BY BecomesNow DEF Sustains, Sound
  <1>2. Sound(Now', lost')
    BY <1>1 DEF Sustains
  <1>3. list \in Seq(Descs) /\ IsInjective(list) /\ d \in Range(list)
    <2>1. Sound(Now, lost) /\ Now.list = list /\ Now.next = next
      BY DEF LoopIInv, Now
    <2> QED BY <2>1, StateFields, DescsAssumption DEF Sound, Listed
  <1>4. s.list = list /\ s.next = After(list, d)
    BY DEF Step, Now
  <1>5. From(list, After(list, d)) = From(list, d) \ {d}
    BY <1>3, WalkAfter
  <1>6. From(list', next') = (From(list, d) \ {d}) \cap Range(list') /\ Range(list') \subseteq Range(list)
    BY <1>4, <1>5 DEF Sustains, Becomes
  <1>7. From(list, d) = Range(list) \ turn
    BY DEF LoopIInv, Ahead
  <1>8. From(list', next') = Range(list') \ turn'
    BY <1>6, <1>7
  <1>9. Ahead'
    BY <1>8 DEF Ahead
  <1>10. turn' \subseteq Descs
    BY DEF LoopIInv
  <1> QED BY <1>2, <1>9, <1>10 DEF LoopIInv

\* What the turn of d starts from.
LEMMA TurnStarts ==
  ASSUME LoopIInv, NEW d \in Descs, next = d
  PROVE  LET s == [Step(Now) EXCEPT !.desc[d].fcommand = FALSE]
         IN Sound(s, lost) /\ d \in Range(s.list)
  <1> DEFINE u == Step(Now)
             s == [u EXCEPT !.desc[d].fcommand = FALSE]
  <1>1. Sound(Now, lost) /\ Now.list = list /\ Now.next = next /\ Now.wild = wild
        /\ Now.desc = desc /\ Now.open = open
    BY DEF LoopIInv, Now
  <1>2. list \in Seq(Descs) /\ IsInjective(list) /\ d \in Range(list) /\ wild \in BOOLEAN
    BY <1>1, StateFields, DescsAssumption DEF Sound, Listed
  <1>3. After(list, d) \in Range(list) \cup {Null}
    BY <1>2, WalkAfter
  <1>4. u = [desc |-> Now.desc, list |-> Now.list, next |-> After(list, d), open |-> Now.open, wild |-> wild]
    BY <1>1 DEF Step, Now
  <1>5. u.list = list /\ u.desc = desc
    BY <1>1, <1>4
  <1> HIDE DEF u
  <1>6. Sound(u, lost)
    BY <1>1, <1>2, <1>3, <1>4, MovedSound
  <1>7. d \in Descs /\ u.desc[d].in
    BY <1>2, <1>5, <1>6 DEF Sound, Listed
  <1>8. Sustains(u, s, lost)
    <2>1. FALSE \in BOOLEAN
      OBVIOUS
    <2> QED BY <1>6, <1>7, <2>1, CommandKeeps
  <1>9. s.list = list
    BY <1>5, <1>6 DEF Sound, LoopStates
  <1>10. Sound(s, lost) /\ d \in Range(s.list)
    BY <1>2, <1>8, <1>9 DEF Sustains
  <1> QED BY <1>10 DEF u


LEMMA QuietSteps ==
  ASSUME LoopIInv, Poll \/ Nobody \/ InputDone \/ UpdateDone \/ OutputDone
  PROVE  LoopIInv'
  <1>1. Sound(Now, lost) /\ Now.desc = desc /\ Now.list = list /\ Now.open = open /\ wild \in BOOLEAN
    <2>1. Sound(Now, lost) /\ Now.wild = wild
      BY DEF LoopIInv, Now
    <2> QED BY <2>1, StateFields DEF Now, Sound
  <1>2. desc' = desc /\ list' = list /\ open' = open /\ wild' \in BOOLEAN /\ lost' = lost
    BY <1>1 DEF Poll, Nobody, InputDone, UpdateDone, OutputDone
  <1>3. \E p \in Phases : Continue(p)
    BY DEF Poll, Nobody, InputDone, UpdateDone, OutputDone, Afterwards, Phases
  <1>4. polled' \subseteq Fds
    <2>1. \A d \in Range(list) : SocketsOf(Now, d) \subseteq Fds
      <3> SUFFICES ASSUME NEW d \in Range(list) PROVE SocketsOf(Now, d) \subseteq Fds
        OBVIOUS
      <3>1. d \in Descs /\ Now \in LoopStates
        BY <1>1 DEF Sound, Listed
      <3>2. Now.desc[d].fd \in Fds \cup {0} /\ Now.desc[d].authfd \in Fds \cup {0}
        BY <3>1, StateFields
      <3> QED BY <3>2 DEF SocketsOf
    <2>2. Poll => polled' \subseteq Fds
      BY <2>1 DEF Poll
    <2>3. polled \subseteq Fds
      BY DEF LoopIInv
    <2> QED BY <2>2, <2>3 DEF Nobody, InputDone, UpdateDone, OutputDone
  <1>5. PICK p \in Phases : Continue(p)
    BY <1>3
  <1>6. Sound(Now, lost') /\ desc' = Now.desc /\ list' = Now.list /\ open' = Now.open
    BY <1>1, <1>2
  <1>7. lost' \subseteq Fds
    BY <1>2 DEF LoopIInv
  <1> QED BY <1>2, <1>4, <1>5, <1>6, <1>7, WalkBegins

LEMMA AcceptStep ==
  ASSUME LoopIInv, NEW d \in Descs, Accept(d)
  PROVE  LoopIInv'
  <1>1. Sound(Now, lost) /\ wild \in BOOLEAN
    <2>1. Sound(Now, lost) /\ Now.wild = wild
      BY DEF LoopIInv, Now
    <2> QED BY <2>1, StateFields DEF Sound
  <1>2. polled' = polled /\ lost' = lost /\ ~ desc[d].in /\ Free(Now) # {}
    BY DEF Accept
  <1>3. CASE Free(Linked(d)) = {}
    <2>1. phase' = "exited" /\ Now' = Now /\ turn' = turn
      BY <1>3 DEF Accept, Now
    <2> QED BY <1>1, <1>2, <2>1 DEF LoopIInv, Ahead, Phases
  <1>4. CASE Free(Linked(d)) # {}
    <2>1. PICK s \in StartAuth(Linked(d), d) : desc' = s.desc /\ open' = s.open
      BY <1>4 DEF Accept
    <2>2. list' = Linked(d).list /\ Continue(Afterwards) /\ wild' = wild
      BY <1>4 DEF Accept
    <2>3. /\ Sound(Linked(d), lost) /\ d \in Range(Linked(d).list)
          /\ Linked(d).desc[d].in /\ Linked(d).desc[d].auth = "off"
      BY <1>1, <1>2, LinkedSound
    <2> DEFINE u == Linked(d)
    <2> HIDE DEF u
    <2>4. /\ Sound(u, lost) /\ d \in Range(u.list) /\ u.desc[d].in /\ u.desc[d].auth = "off"
          /\ Free(u) # {} /\ s \in StartAuth(u, d) /\ list' = u.list
      BY <1>4, <2>1, <2>2, <2>3 DEF u
    <2>5. Sustains(u, s, lost)
      BY <2>4, QuestionStarts
    <2>6. s.list = u.list
      BY <2>4, QuestionStays
    <2>7. Sound(s, lost') /\ list' = s.list
      BY <1>2, <2>4, <2>5, <2>6 DEF Sustains
    <2>8. Afterwards \in Phases /\ polled' \subseteq Fds /\ lost' \subseteq Fds /\ wild' \in BOOLEAN
      BY <1>1, <1>2, <2>2 DEF LoopIInv, Afterwards, Phases
    <2> QED BY <2>1, <2>2, <2>7, <2>8, WalkBegins
  <1> QED BY <1>3, <1>4

LEMMA AlarmStep ==
  ASSUME LoopIInv, Alarm
  PROVE  LoopIInv'
  <1> DEFINE x == Lowest(Now)
             s == [desc |-> desc, list |-> list, next |-> next, open |-> open \cup {x}, wild |-> wild]
  <1>1. Sound(Now, lost) /\ Now.desc = desc /\ Now.list = list /\ Now.open = open /\ Now.next = next
        /\ Now.wild = wild /\ Now \in LoopStates
    BY DEF LoopIInv, Now, Sound
  <1>2. lost = {} /\ Free(Now) # {} /\ lost' = {x} /\ open' = open \cup {x} /\ Continue("poll")
        /\ desc' = desc /\ list' = list /\ polled' = polled /\ wild' = wild
    BY DEF Alarm
  <1>3. x \in Fds /\ x \notin open /\ x # 0
    BY <1>1, <1>2, LowestFree
  <1> HIDE DEF x
  <1>4. s.desc = desc /\ s.list = list /\ s.next = next /\ s.open = open \cup {x}
    OBVIOUS
  <1>5. s \in LoopStates
    <2>1. open \cup {x} \in SUBSET Fds
      BY <1>1, <1>3, StateFields
    <2> QED BY <1>1, <2>1, StateFields DEF LoopStates
  <1> HIDE DEF s
  <1>6. Listed(s) /\ Snooped(s)
    <2>1. Listed(Now) /\ Snooped(Now)
      BY <1>1 DEF Sound
    <2>2. Listed(s)
      BY <1>1, <1>4, <2>1 DEF Listed
    <2>3. Snooped(s)
      BY <1>1, <1>4, <2>1 DEF Snooped
    <2> QED BY <2>2, <2>3
  <1>7. Wired(s, {x})
    <2>1. \A e : SocketsOf(s, e) = SocketsOf(Now, e)
      BY <1>1, <1>4 DEF SocketsOf
    <2>2. Wired(Now, {})
      BY <1>1, <1>2 DEF Sound
    <2>3. s.open \ {x} = Now.open \ {}
      BY <1>1, <1>3, <1>4
    <2>4. UNION {SocketsOf(s, e) : e \in Descs} = UNION {SocketsOf(Now, e) : e \in Descs}
      BY <2>1
    <2>5. {x} \subseteq s.open
      BY <1>4
    <2> QED BY <1>1, <1>4, <2>1, <2>2, <2>3, <2>4, <2>5 DEF Wired
  <1>8. Sound(s, lost')
    BY <1>2, <1>5, <1>6, <1>7 DEF Sound
  <1>9. "poll" \in Phases /\ polled' \subseteq Fds /\ lost' \subseteq Fds /\ wild' \in BOOLEAN
    BY <1>1, <1>2, <1>3, StateFields DEF LoopIInv, Phases
  <1>10. desc' = s.desc /\ list' = s.list /\ open' = s.open
    BY <1>2, <1>4
  <1> QED BY <1>2, <1>8, <1>9, <1>10, WalkBegins

LEMMA InputStep ==
  ASSUME LoopIInv, NEW d \in Descs, TakeInput(d)
  PROVE  LoopIInv'
  <1> DEFINE s == [Step(Now) EXCEPT !.desc[d].fcommand = FALSE]
  <1>1. phase = "input" /\ next = d /\ turn' = (turn \cup {d}) \cap Range(list')
        /\ polled' = polled /\ lost' = lost
    BY DEF TakeInput
  <1>2. Sound(s, lost) /\ d \in Range(s.list)
    BY <1>1, TurnStarts
  <1>3. \/ \E t \in Dropped(s, d) : Becomes(t) /\ phase' = phase
        \/ phase' = "exited" /\ UNCHANGED <<desc, list, next, open, wild>>
        \/ (NeedsAuth(s, d) => Free(s) # {}) /\ \E t \in Served(s, d) : Becomes(t) /\ phase' = phase
    BY DEF TakeInput
  <1>4. phase \in Phases
    BY DEF LoopIInv
  <1>5. s = [Step(Now) EXCEPT !.desc[d].fcommand = FALSE]
    OBVIOUS
  <1> HIDE DEF s
  <1>6. ASSUME NEW t \in Dropped(s, d), Becomes(t), phase' = phase PROVE LoopIInv'
    <2>1. Sustains(s, t, lost)
      BY <1>2, DroppedKeeps
    <2> QED BY <1>1, <1>4, <1>5, <1>6, <2>1, TurnTaken
  <1>7. ASSUME NEW t \in Served(s, d), Becomes(t), phase' = phase, NeedsAuth(s, d) => Free(s) # {}
        PROVE  LoopIInv'
    <2>1. Sustains(s, t, lost)
      BY <1>2, <1>7, ServedKeep
    <2> QED BY <1>1, <1>4, <1>5, <1>7, <2>1, TurnTaken
  <1>8. ASSUME phase' = "exited", UNCHANGED <<desc, list, next, open, wild>> PROVE LoopIInv'
    <2>1. Now' = Now
      BY <1>8 DEF Now
    <2>2. turn' \subseteq Descs
      BY <1>1 DEF LoopIInv
    <2> QED BY <1>1, <1>8, <2>1, <2>2 DEF LoopIInv, Ahead, Phases
  <1> QED BY <1>3, <1>6, <1>7, <1>8

LEMMA HappenStep ==
  ASSUME LoopIInv, NEW d \in Descs, Happen(d)
  PROVE  LoopIInv'
  <1>1. Sound(Now, lost) /\ Now.desc = desc
    BY DEF LoopIInv, Now
  <1>2. phase = "update" /\ desc[d].in /\ phase' = phase /\ polled' = polled /\ turn' = turn /\ lost' = lost
    BY DEF Happen
  <1>3. PICK t \in Writings(Now, d) \cup Closings(Now, d, FALSE) : Becomes(t)
    BY DEF Happen
  <1>4. Sustains(Now, t, lost)
    <2>1. FALSE \in BOOLEAN
      OBVIOUS
    <2> QED BY <1>1, <1>2, <1>3, <2>1, WritingsKeep, ClosingsKeep
  <1>5. Now' = t /\ Sound(t, lost)
    BY <1>3, <1>4, BecomesNow DEF Sustains, Sound
  <1> QED BY <1>2, <1>5 DEF LoopIInv, Ahead

LEMMA OutputStep ==
  ASSUME LoopIInv, NEW d \in Descs, TakeOutput(d)
  PROVE  LoopIInv'
  <1> DEFINE s == [Step(Now) EXCEPT !.desc[d].fcommand = FALSE]
  <1>1. phase = "output" /\ next = d /\ turn' = (turn \cup {d}) \cap Range(list')
        /\ polled' = polled /\ lost' = lost /\ phase' = phase
    BY DEF TakeOutput
  <1>2. Sound(s, lost) /\ d \in Range(s.list)
    BY <1>1, TurnStarts
  <1>3. Becomes(s) \/ \E t \in Writes(s, d) : Becomes(t)
    BY DEF TakeOutput
  <1>4. phase \in Phases
    BY DEF LoopIInv
  <1>5. s = [Step(Now) EXCEPT !.desc[d].fcommand = FALSE]
    OBVIOUS
  <1> HIDE DEF s
  <1>6. PICK t : Becomes(t) /\ (t = s \/ t \in Writes(s, d))
    BY <1>3
  <1>7. Sustains(s, t, lost)
    BY <1>2, <1>6, WritesKeep, KeepsItself
  <1> QED BY <1>1, <1>4, <1>5, <1>6, <1>7, TurnTaken

\* Whatever the loop does next, the invariant is kept.
LEMMA LoopKept ==
  ASSUME LoopIInv, [LoopNext]_loopVars
  PROVE  LoopIInv'
  <1>1. CASE UNCHANGED loopVars
    <2>1. Now' = Now
      BY <1>1 DEF loopVars, Now
    <2> QED BY <1>1, <2>1 DEF LoopIInv, Ahead, loopVars
  <1>2. CASE Poll \/ Nobody \/ InputDone \/ UpdateDone \/ OutputDone
    BY <1>2, QuietSteps
  <1>3. CASE Alarm
    BY <1>3, AlarmStep
  <1>4. CASE \E d \in Descs : Accept(d) \/ TakeInput(d) \/ Happen(d) \/ TakeOutput(d)
    BY <1>4, AcceptStep, InputStep, HappenStep, OutputStep
  <1> QED BY <1>1, <1>2, <1>3, <1>4 DEF LoopNext, Loop

LEMMA LoopInvariant == LoopSpec => []LoopIInv
  <1>1. LoopInit => LoopIInv
    BY LoopBegins
  <1>2. LoopIInv /\ [LoopNext]_loopVars => LoopIInv'
    BY LoopKept
  <1> QED BY <1>1, <1>2, PTL DEF LoopSpec

\* The lists, the walks and the buffers have their types, and the list holds
\* who is there, once each.
THEOREM LoopTypeCorrect == LoopSpec => []LoopTypeOK
  <1>1. LoopIInv => LoopTypeOK
    BY SoundImplies
  <1> QED BY <1>1, LoopInvariant, PTL

\* However many connections there are and whoever closes whom from within
\* whatever is said or done, nobody who is left is passed over by a walk or
\* has a second turn in it.
THEOREM LoopOneTurnEach == LoopSpec => []OneTurnEach
  <1>1. LoopIInv => OneTurnEach
    BY SoundImplies
  <1> QED BY <1>1, LoopInvariant, PTL

\* Nobody comes to himself along the snoopers, so that closing along them ends.
THEOREM LoopSnoopersAhead == LoopSpec => []SnoopersAhead
  <1>1. LoopIInv => SnoopersAhead
    BY SoundImplies
  <1> QED BY <1>1, LoopInvariant, PTL

\* Every open socket but that of the forgotten connection belongs to one
\* descriptor of the list.
THEOREM LoopSocketsOwned == LoopSpec => []SocketsOwned
  <1>1. LoopIInv => SocketsOwned
    BY SoundImplies
  <1> QED BY <1>1, LoopInvariant, PTL

=============================================================================
