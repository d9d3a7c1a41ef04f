--------------------------- MODULE Scripts_proofs ---------------------------
(***************************************************************************)
(* Proofs about Scripts, for any mobs, players, things and rooms, any       *)
(* number of scripts and lines, and however deeply programs are nested.     *)
(***************************************************************************)
EXTENDS Scripts, FiniteSetTheorems, TLAPS

-----------------------------------------------------------------------------
(* The inductive invariant: predicates on a state S of the scripts, the     *)
(* characters and things being as they are.                                *)

Walks == [on : BOOLEAN, next : Scripts \cup {None, Freed}, rest : SUBSET Scripts]

States == [run : [Owners -> Int], script : [Scripts -> Script], list : SUBSET Scripts,
           curr : Scripts \cup {None}, super : Super, listed : SUBSET Rooms,
           stack : Seq(Frame), walk : Walks, wild : BOOLEAN]

\* Every script has an owner, and a walk goes on to one of the list.
Sound(S) ==
    /\ S \in States
    /\ \A s \in S.list : S.script[s].owner \in Owners
    /\ S.walk.rest \subseteq S.list
    /\ S.walk.next \in Scripts => S.walk.next \in S.list

\* The parts of ScriptsLive and of CountsTrue
Living(S) ==
    \A s \in S.list :
        LET x == S.script[s] IN
        ~ x.ghost =>
            /\ Here(x.victim)
            /\ x.owner \in Mobs => Here(x.owner)
            /\ x.owner \in Things => thing[x.owner] \notin {"queued", "gone"}

Tallied(S) ==
    /\ \A m \in Mobs : char[m] # "gone" => S.run[m] = Cardinality(OwnedBy(S, m))
    /\ \A o \in Bodiless : S.run[o] >= Cardinality(OwnedBy(S, o))

\* The supermob carries a count that is not too small either.
Carried(S) ==
    S.super.is # None => S.super.run >= Cardinality(OwnedBy(S, S.super.is))

\* It stands where it is listed, for a room or a thing that is not freed yet.
Placed(S) ==
    /\ S.super.is = None => S.super = Nobody
    /\ S.super.is # None => S.super.room # None
    /\ S.listed = {S.super.room} \ {None}
    /\ S.super.is \in Things => thing[S.super.is] # "gone"

\* Somebody's program or line needs it.
Needed(S) ==
    S.super.is # None => \E i \in 1 .. Len(S.stack) : S.stack[i].who \in Bodiless

\* A script that runs has a line left, and a call of mprog_driver.
Current(S) ==
    S.curr # None =>
        /\ S.curr \in S.list /\ S.script[S.curr].left > 0
        /\ \E i \in 1 .. Len(S.stack) : S.stack[i].line

Kept(S) == ~ S.wild => Living(S) /\ Tallied(S) /\ Carried(S) /\ Placed(S)

Good(S) ==
    /\ Sound(S) /\ Len(S.stack) <= MaxNest /\ Current(S)
    /\ Kept(S) /\ (~ S.wild => Needed(S))

IInv ==
    /\ char \in [Chars -> {"in", "queued", "gone"}]
    /\ thing \in [Things -> Rooms \cup {"box", "queued", "gone"}]
    /\ Good(World)

LEMMA ScriptsFacts ==
  /\ None \notin Owners /\ None \notin Scripts /\ None \notin Chars /\ None \notin Rooms
  /\ None \notin Bodiless /\ Freed \notin Scripts /\ Freed # None
  /\ Mobs \cap Bodiless = {} /\ Mobs \subseteq Owners /\ Bodiless \subseteq Owners
  /\ Things \subseteq Bodiless /\ Rooms \subseteq Bodiless /\ Things \cap Rooms = {}
  /\ Mobs \cap Players = {} /\ Mobs \subseteq Chars /\ Chars \cap Bodiless = {}
  /\ MaxNest \in Nat /\ MaxNest > 0 /\ MaxLines \in Nat /\ IsFiniteSet(Scripts)
  BY ScriptsAssumption DEF Owners, Bodiless, Chars

LEMMA InvType == IInv => TypeOK
  BY DEF IInv, Good, Sound, World, States, Walks, TypeOK

LEMMA InvLive == IInv => ScriptsLive
  BY DEF IInv, Good, Kept, Living, World, ScriptsLive

LEMMA InvCounts == IInv => CountsTrue
  BY DEF IInv, Good, Kept, Tallied, World, CountsTrue

LEMMA InvAway == IInv => SupermobAway
  <1> SUFFICES ASSUME IInv, ~ wild, ~ Busy PROVE curr = None /\ super = Nobody /\ listed = {}
    BY DEF SupermobAway
  <1>1. stack = <<>>
    BY DEF Busy
  <1>2. Len(World.stack) = 0 /\ World.curr = curr /\ World.super = super /\ World.listed = listed
        /\ World.wild = wild
    BY <1>1 DEF World
  <1>3. curr = None
    BY <1>2 DEF IInv, Good, Current
  <1>4. super.is = None
    BY <1>2 DEF IInv, Good, Needed
  <1>5. super = Nobody /\ listed = {super.room} \ {None}
    BY <1>2, <1>4 DEF IInv, Good, Kept, Placed
  <1>6. super.room = None
    BY <1>5 DEF Nobody
  <1> QED BY <1>3, <1>5, <1>6

-----------------------------------------------------------------------------
(* The functions on a state, field by field. *)

LEMMA CountType ==
  ASSUME NEW S, S.list \in SUBSET Scripts, NEW o
  PROVE  /\ IsFiniteSet(OwnedBy(S, o)) /\ Cardinality(OwnedBy(S, o)) \in Nat
         /\ OwnedBy(S, o) = {} <=> Cardinality(OwnedBy(S, o)) = 0
         /\ \A K : /\ IsFiniteSet(OwnedBy(S, o) \cap K)
                   /\ Cardinality(OwnedBy(S, o) \cap K) \in Nat
                   /\ Cardinality(OwnedBy(S, o) \ K) =
                        Cardinality(OwnedBy(S, o)) - Cardinality(OwnedBy(S, o) \cap K)
  <1>1. OwnedBy(S, o) \subseteq Scripts
    BY DEF OwnedBy
  <1>2. IsFiniteSet(OwnedBy(S, o))
    BY <1>1, FS_Subset, ScriptsFacts
  <1>3. Cardinality(OwnedBy(S, o)) \in Nat
    BY <1>2, FS_CardinalityType
  <1>4. ASSUME NEW K
        PROVE  /\ IsFiniteSet(OwnedBy(S, o) \cap K)
               /\ Cardinality(OwnedBy(S, o) \cap K) \in Nat
               /\ Cardinality(OwnedBy(S, o) \ K) =
                    Cardinality(OwnedBy(S, o)) - Cardinality(OwnedBy(S, o) \cap K)
    <2>1. OwnedBy(S, o) \cap K \subseteq OwnedBy(S, o)
      OBVIOUS
    <2>2. IsFiniteSet(OwnedBy(S, o) \cap K)
      BY <1>2, <2>1, FS_Subset
    <2>3. Cardinality(OwnedBy(S, o) \cap K) \in Nat
      BY <2>2, FS_CardinalityType
    <2> QED BY <1>2, <2>2, <2>3, FS_Difference
  <1>5. OwnedBy(S, o) = {} <=> Cardinality(OwnedBy(S, o)) = 0
    BY <1>2, FS_EmptySet
  <1> QED BY <1>2, <1>3, <1>4, <1>5

LEMMA StopFields ==
  ASSUME NEW S \in States, NEW K
  PROVE  LET T == Stop(S, K) IN
         /\ T \in States
         /\ T.list = S.list \ K
         /\ \A s \in Scripts : s \notin K => T.script[s] = S.script[s]
         /\ \A o \in Owners : T.run[o] = S.run[o] - Cardinality(OwnedBy(S, o) \cap K)
         /\ T.curr = IF S.curr \in K THEN None ELSE S.curr
         /\ T.walk.next = IF S.walk.next \in K THEN Freed ELSE S.walk.next
         /\ T.walk.rest = S.walk.rest \ K
         /\ T.super = S.super /\ T.listed = S.listed /\ T.stack = S.stack
         /\ S.wild => T.wild
  <1> DEFINE rn == [o \in Owners |-> S.run[o] - Cardinality(OwnedBy(S, o) \cap K)]
             sc == [s \in Scripts |-> IF s \in K THEN Unused ELSE S.script[s]]
             cr == IF S.curr \in K THEN None ELSE S.curr
             nx == IF S.walk.next \in K THEN Freed ELSE S.walk.next
             wd == S.wild \/ \E s \in K : S.script[s].owner \in FreedOwners
             wk == [S.walk EXCEPT !.next = nx, !.rest = @ \ K]
             T == Stop(S, K)
  <1>1. T = [S EXCEPT !.list = @ \ K, !.script = sc, !.run = rn, !.curr = cr,
                      !.walk = wk, !.wild = wd]
    BY DEF Stop, States, Walks
  <1>2. rn \in [Owners -> Int]
    <2>1. ASSUME NEW o \in Owners PROVE Cardinality(OwnedBy(S, o) \cap K) \in Nat
      <3>1. S.list \in SUBSET Scripts
        BY DEF States
      <3>2. \A L : Cardinality(OwnedBy(S, o) \cap L) \in Nat
        BY <3>1, CountType
      <3> QED BY <3>2
    <2> QED BY <2>1 DEF States
  <1>3. sc \in [Scripts -> Script]
    <2>1. Unused \in Script
      BY ScriptsFacts DEF Script, Unused
    <2> QED BY <2>1 DEF States
  <1>4. cr \in Scripts \cup {None} /\ nx \in Scripts \cup {None, Freed} /\ wd \in BOOLEAN
    BY DEF States, Walks
  <1>5. /\ \A s \in Scripts : s \notin K => sc[s] = S.script[s]
        /\ \A o \in Owners : rn[o] = S.run[o] - Cardinality(OwnedBy(S, o) \cap K)
        /\ S.wild => wd
    OBVIOUS
  <1> HIDE DEF T, rn, sc, nx, wd, cr
  <1>6. wk \in Walks /\ wk.next = nx /\ wk.rest = S.walk.rest \ K
    BY <1>4 DEF States, Walks
  <1> HIDE DEF wk
  <1>7. T \in States
    BY <1>1, <1>2, <1>3, <1>4, <1>6 DEF States
  <1>8. /\ T.list = S.list \ K /\ T.run = rn /\ T.script = sc /\ T.curr = cr
        /\ T.walk.next = nx /\ T.walk.rest = S.walk.rest \ K
        /\ T.super = S.super /\ T.listed = S.listed /\ T.stack = S.stack /\ T.wild = wd
    BY <1>1, <1>6 DEF States
  <1> QED BY <1>5, <1>7, <1>8 DEF T, cr, nx

LEMMA SetFields ==
  ASSUME NEW S \in States, NEW o \in Bodiless
  PROVE  LET T == SetSupermob(S, o) IN
         /\ T \in States
         /\ T.list = S.list /\ T.script = S.script /\ T.run = S.run /\ T.curr = S.curr
         /\ T.walk = S.walk /\ T.stack = S.stack
         /\ S.wild => T.wild
         /\ RoomOf(o) = None => T = S
         /\ RoomOf(o) # None =>
              /\ T.super = [room |-> RoomOf(o), is |-> o, run |-> S.run[o]]
              /\ T.listed = S.listed \cup {RoomOf(o)}
              /\ ~ T.wild => S.listed \subseteq {RoomOf(o)}
  <1> DEFINE r == RoomOf(o)
             T == SetSupermob(S, o)
  <1>1. CASE r = None
    BY <1>1 DEF SetSupermob
  <1>2. CASE r # None
    <2>1. T = [S EXCEPT !.super = [room |-> r, is |-> o, run |-> S.run[o]],
                        !.listed = @ \cup {r}, !.wild = @ \/ S.listed \ {r} # {}]
      BY <1>2 DEF SetSupermob
    <2>2. r \in Rooms
      BY <1>2 DEF RoomOf
    <2>3. o \in Owners
      BY ScriptsFacts
    <2>4. [room |-> r, is |-> o, run |-> S.run[o]] \in Super
      BY <2>2, <2>3 DEF Super, States
    <2> HIDE DEF r, T
    <2>5. T \in States
      BY <2>1, <2>2, <2>4 DEF States
    <2>6. /\ T.list = S.list /\ T.script = S.script /\ T.run = S.run /\ T.curr = S.curr
          /\ T.walk = S.walk /\ T.stack = S.stack
          /\ T.super = [room |-> r, is |-> o, run |-> S.run[o]] /\ T.listed = S.listed \cup {r}
          /\ T.wild = (S.wild \/ S.listed \ {r} # {})
      BY <2>1 DEF States
    <2>7. QED BY <1>2, <2>5, <2>6 DEF r, T
  <1> QED BY <1>1, <1>2

LEMMA ReleaseFields ==
  ASSUME NEW S \in States
  PROVE  LET T == ReleaseSupermob(S) IN
         /\ T \in States
         /\ T.list = S.list /\ T.script = S.script /\ T.run = S.run /\ T.curr = S.curr
         /\ T.walk = S.walk /\ T.stack = S.stack /\ T.wild = S.wild
         /\ T.super = Nobody /\ T.listed = S.listed \ {S.super.room}
  <1>1. Nobody \in Super
    BY DEF Nobody, Super
  <1> QED BY <1>1 DEF ReleaseSupermob, States

LEMMA PushedFields ==
  ASSUME NEW S \in States, NEW o \in Owners, NEW line \in BOOLEAN, NEW late \in BOOLEAN
  PROVE  LET T == Pushed(S, o, line, late) IN
         /\ T \in States
         /\ T.list = S.list /\ T.script = S.script /\ T.run = S.run /\ T.curr = S.curr
         /\ T.walk = S.walk /\ T.wild = S.wild /\ T.super = S.super /\ T.listed = S.listed
         /\ Len(T.stack) = Len(S.stack) + 1
         /\ T.stack[Len(T.stack)] = [who |-> o, line |-> line, late |-> late]
         /\ \A i \in 1 .. Len(S.stack) : i \in 1 .. Len(T.stack) /\ T.stack[i] = S.stack[i]
  <1> DEFINE e == [who |-> o, line |-> line, late |-> late]
             q == Append(S.stack, e)
             T == Pushed(S, o, line, late)
  <1>1. T = [S EXCEPT !.stack = q]
    BY DEF Pushed
  <1>2. e \in Frame /\ S.stack \in Seq(Frame)
    BY DEF Frame, States
  <1> HIDE DEF e
  <1>3. q \in Seq(Frame) /\ Len(q) = Len(S.stack) + 1 /\ q[Len(q)] = e
        /\ \A i \in 1 .. Len(S.stack) : i \in 1 .. Len(q) /\ q[i] = S.stack[i]
    BY <1>2
  <1> HIDE DEF q, T
  <1>4. /\ T \in States
        /\ T.list = S.list /\ T.script = S.script /\ T.run = S.run /\ T.curr = S.curr
        /\ T.walk = S.walk /\ T.wild = S.wild /\ T.super = S.super /\ T.listed = S.listed
        /\ T.stack = q
    BY <1>1, <1>3 DEF States
  <1>5. QED BY <1>3, <1>4 DEF e, T

LEMMA PoppedFields ==
  ASSUME NEW S \in States, S.stack # <<>>
  PROVE  LET T == Popped(S) IN
         /\ T \in States
         /\ T.list = S.list /\ T.script = S.script /\ T.run = S.run /\ T.curr = S.curr
         /\ T.walk = S.walk /\ T.wild = S.wild /\ T.super = S.super /\ T.listed = S.listed
         /\ Len(T.stack) = Len(S.stack) - 1
         /\ \A i \in 1 .. Len(S.stack) : i # Len(S.stack) =>
               i \in 1 .. Len(T.stack) /\ T.stack[i] = S.stack[i]
  <1> DEFINE q == SubSeq(S.stack, 1, Len(S.stack) - 1)
             T == Popped(S)
  <1>1. T = [S EXCEPT !.stack = q]
    BY DEF Popped
  <1>2. S.stack \in Seq(Frame)
    BY DEF States
  <1>3. Len(S.stack) \in Nat /\ Len(S.stack) > 0
    BY <1>2
  <1>4. q \in Seq(Frame) /\ Len(q) = Len(S.stack) - 1
        /\ \A i \in 1 .. Len(q) : q[i] = S.stack[i]
    BY <1>2, <1>3
  <1> HIDE DEF q, T
  <1>5. /\ T \in States
        /\ T.list = S.list /\ T.script = S.script /\ T.run = S.run /\ T.curr = S.curr
        /\ T.walk = S.walk /\ T.wild = S.wild /\ T.super = S.super /\ T.listed = S.listed
        /\ T.stack = q
    BY <1>1, <1>4 DEF States
  <1>6. QED BY <1>3, <1>4, <1>5 DEF T

-----------------------------------------------------------------------------
(* What the functions keep. *)

\* What is said of a state reads these of its fields.
LEMMA Alike ==
  ASSUME NEW S, NEW T \in States, Sound(S), T.list = S.list, T.walk = S.walk,
         \A s \in S.list : T.script[s].owner = S.script[s].owner
  PROVE  /\ Sound(T)
         /\ \A o : OwnedBy(T, o) = OwnedBy(S, o)
         /\ Tallied(S) /\ T.run = S.run => Tallied(T)
         /\ Carried(S) /\ T.super = S.super => Carried(T)
         /\ Placed(S) /\ T.super = S.super /\ T.listed = S.listed => Placed(T)
  <1>1. \A o : OwnedBy(T, o) = OwnedBy(S, o)
    BY DEF OwnedBy
  <1> QED BY <1>1 DEF Sound, Tallied, Carried, Placed

LEMMA StopKeeps ==
  ASSUME NEW S, Sound(S), NEW K, K \subseteq S.list
  PROVE  LET T == Stop(S, K) IN
         /\ Sound(T)
         /\ ~ T.wild => ~ S.wild
         /\ Living(S) => Living(T)
         /\ Tallied(S) => Tallied(T)
         /\ Carried(S) => Carried(T)
         /\ Placed(S) => Placed(T)
         /\ Needed(S) => Needed(T)
         /\ Current(S) => Current(T)
         /\ \A s \in T.list : s \notin K /\ s \in S.list /\ T.script[s] = S.script[s]
         /\ \A o : OwnedBy(T, o) = OwnedBy(S, o) \ K
  <1> DEFINE T == Stop(S, K)
  <1>1. S \in States
    BY DEF Sound
  <1>2. /\ T \in States
        /\ T.list = S.list \ K
        /\ \A s \in Scripts : s \notin K => T.script[s] = S.script[s]
        /\ \A o \in Owners : T.run[o] = S.run[o] - Cardinality(OwnedBy(S, o) \cap K)
        /\ T.curr = IF S.curr \in K THEN None ELSE S.curr
        /\ T.walk.next = IF S.walk.next \in K THEN Freed ELSE S.walk.next
        /\ T.walk.rest = S.walk.rest \ K
        /\ T.super = S.super /\ T.listed = S.listed /\ T.stack = S.stack
        /\ S.wild => T.wild
    BY <1>1, StopFields
  <1> HIDE DEF T
  <1>3. S.list \subseteq Scripts /\ T.list \subseteq Scripts
    BY <1>1, <1>2 DEF States
  <1>4. \A s \in T.list : s \notin K /\ s \in S.list /\ T.script[s] = S.script[s]
    BY <1>2, <1>3
  <1>5. \A o : OwnedBy(T, o) = OwnedBy(S, o) \ K
    BY <1>2, <1>4 DEF OwnedBy
  <1>6. ASSUME NEW o
        PROVE  /\ Cardinality(OwnedBy(T, o)) =
                    Cardinality(OwnedBy(S, o)) - Cardinality(OwnedBy(S, o) \cap K)
               /\ Cardinality(OwnedBy(S, o)) \in Nat
               /\ Cardinality(OwnedBy(S, o) \cap K) \in Nat
               /\ Cardinality(OwnedBy(T, o)) \in Nat
    <2>1. S.list \in SUBSET Scripts /\ T.list \in SUBSET Scripts
      BY <1>3
    <2>2. /\ Cardinality(OwnedBy(S, o)) \in Nat
          /\ \A L : /\ Cardinality(OwnedBy(S, o) \cap L) \in Nat
                    /\ Cardinality(OwnedBy(S, o) \ L) =
                         Cardinality(OwnedBy(S, o)) - Cardinality(OwnedBy(S, o) \cap L)
      BY <2>1, CountType
    <2>3. Cardinality(OwnedBy(T, o)) \in Nat
      BY <2>1, CountType
    <2> QED BY <1>5, <2>2, <2>3
  <1>7. Sound(T)
    <2>1. Freed \notin Scripts
      BY ScriptsFacts
    <2> QED BY <1>2, <1>4, <2>1 DEF Sound
  <1>8. Living(S) => Living(T)
    BY <1>4 DEF Living
  <1>9. Tallied(S) => Tallied(T)
    <2> SUFFICES ASSUME Tallied(S) PROVE Tallied(T)
      OBVIOUS
    <2>1. ASSUME NEW m \in Mobs, char[m] # "gone"
          PROVE  T.run[m] = Cardinality(OwnedBy(T, m))
      BY <1>2, <1>6, <2>1, ScriptsFacts DEF Tallied
    <2>2. ASSUME NEW o \in Bodiless
          PROVE  T.run[o] >= Cardinality(OwnedBy(T, o))
      <3>1. o \in Owners /\ S.run[o] \in Int
        BY <1>1, ScriptsFacts DEF States
      <3>2. S.run[o] >= Cardinality(OwnedBy(S, o))
        BY DEF Tallied
      <3>3. T.run[o] = S.run[o] - Cardinality(OwnedBy(S, o) \cap K)
        BY <1>2, <3>1
      <3> QED BY <1>6, <3>1, <3>2, <3>3
    <2> QED BY <2>1, <2>2 DEF Tallied
  <1>10. Carried(S) => Carried(T)
    <2> SUFFICES ASSUME Carried(S), S.super.is # None
                 PROVE  S.super.run >= Cardinality(OwnedBy(T, S.super.is))
      BY <1>2 DEF Carried
    <2>1. S.super.run \in Int
      BY <1>1 DEF States, Super
    <2> DEFINE o == S.super.is
    <2>2. S.super.run >= Cardinality(OwnedBy(S, o))
      BY DEF Carried
    <2> HIDE DEF o
    <2>3. /\ Cardinality(OwnedBy(T, o)) =
               Cardinality(OwnedBy(S, o)) - Cardinality(OwnedBy(S, o) \cap K)
          /\ Cardinality(OwnedBy(S, o)) \in Nat
          /\ Cardinality(OwnedBy(S, o) \cap K) \in Nat
      BY <1>6
    <2>4. S.super.run >= Cardinality(OwnedBy(T, o))
      BY <2>1, <2>2, <2>3
    <2> QED BY <2>4 DEF o
  <1>11. Current(S) => Current(T)
    BY <1>2, <1>3, ScriptsFacts DEF Current
  <1>12. /\ Placed(S) => Placed(T)
         /\ Needed(S) => Needed(T)
         /\ ~ T.wild => ~ S.wild
    BY <1>2 DEF Placed, Needed
  <1>13. QED BY <1>4, <1>5, <1>7, <1>8, <1>9, <1>10, <1>11, <1>12 DEF T

LEMMA SetKeeps ==
  ASSUME NEW S, Sound(S), NEW o \in Bodiless
  PROVE  LET T == SetSupermob(S, o) IN
         /\ Sound(T)
         /\ ~ T.wild => ~ S.wild
         /\ Living(S) => Living(T)
         /\ Tallied(S) => Tallied(T)
         /\ RoomOf(o) # None /\ ~ T.wild /\ Tallied(S) => Carried(T)
         /\ RoomOf(o) # None /\ ~ T.wild => Placed(T) /\ T.super.is = o
  <1> DEFINE T == SetSupermob(S, o)
             r == RoomOf(o)
  <1>1. S \in States
    BY DEF Sound
  <1>2. /\ T \in States
        /\ T.list = S.list /\ T.script = S.script /\ T.run = S.run /\ T.curr = S.curr
        /\ T.walk = S.walk /\ T.stack = S.stack
        /\ S.wild => T.wild
        /\ r # None =>
              /\ T.super = [room |-> r, is |-> o, run |-> S.run[o]]
              /\ T.listed = S.listed \cup {r}
              /\ ~ T.wild => S.listed \subseteq {r}
    BY <1>1, SetFields
  <1>3. o \in Things /\ r # None => thing[o] # "gone"
    BY ScriptsAssumption DEF RoomOf
  <1>4. o # None
    BY ScriptsFacts
  <1> HIDE DEF T, r
  <1>5. /\ Sound(T)
        /\ \A x : OwnedBy(T, x) = OwnedBy(S, x)
        /\ Tallied(S) => Tallied(T)
    BY <1>2, Alike
  <1>6. Living(S) => Living(T)
    BY <1>2 DEF Living
  <1>7. r # None /\ Tallied(S) => Carried(T)
    BY <1>2, <1>5 DEF Carried, Tallied
  <1>8. r # None /\ ~ T.wild => Placed(T) /\ T.super.is = o
    BY <1>2, <1>3, <1>4 DEF Placed
  <1>9. QED BY <1>2, <1>5, <1>6, <1>7, <1>8 DEF T, r

LEMMA ReleaseKeeps ==
  ASSUME NEW S, Sound(S)
  PROVE  LET T == ReleaseSupermob(S) IN
         /\ Sound(T)
         /\ Living(S) => Living(T)
         /\ Tallied(S) => Tallied(T)
         /\ Carried(T)
         /\ Placed(S) => Placed(T)
         /\ Needed(T)
  <1> DEFINE T == ReleaseSupermob(S)
  <1>1. /\ S \in States /\ T \in States
        /\ T.list = S.list /\ T.script = S.script /\ T.run = S.run
        /\ T.walk = S.walk /\ T.stack = S.stack /\ T.wild = S.wild
        /\ T.super = Nobody /\ T.listed = S.listed \ {S.super.room}
    BY ReleaseFields DEF Sound
  <1> HIDE DEF T
  <1>2. Sound(T) /\ (Tallied(S) => Tallied(T))
    BY <1>1, Alike
  <1>3. Living(S) => Living(T)
    BY <1>1 DEF Living
  <1>4. T.super.is = None /\ T.super.room = None
    BY <1>1 DEF Nobody
  <1>5. Placed(S) => Placed(T)
    BY <1>1, <1>4, ScriptsFacts DEF Placed
  <1>6. Carried(T) /\ Needed(T)
    BY <1>4 DEF Carried, Needed
  <1>7. QED BY <1>2, <1>3, <1>5, <1>6 DEF T

LEMMA ReleasedKeeps ==
  ASSUME NEW S, Sound(S), NEW o \in Owners
  PROVE  LET T == Released(S, o) IN
         /\ Sound(T)
         /\ T.curr = None /\ T.stack = S.stack /\ T.list = S.list /\ T.script = S.script
         /\ Kept(S) => Kept(T)
         /\ ~ T.wild => ~ S.wild
         /\ o \in Mobs => T.super = S.super
         /\ o \in Bodiless => Needed(T)
  <1> DEFINE T == Released(S, o)
  <1>1. S \in States
    BY DEF Sound
  <1>2. CASE o \in Mobs
    <2>1. T = [S EXCEPT !.curr = None]
      BY <1>2 DEF Released
    <2> HIDE DEF T
    <2>2. /\ T \in States
          /\ T.curr = None /\ T.stack = S.stack /\ T.list = S.list /\ T.script = S.script
          /\ T.run = S.run /\ T.walk = S.walk /\ T.super = S.super /\ T.listed = S.listed
          /\ T.wild = S.wild
      BY <1>1, <2>1 DEF States
    <2>3. /\ Sound(T) /\ (Tallied(S) => Tallied(T)) /\ (Carried(S) => Carried(T))
          /\ (Placed(S) => Placed(T))
      BY <2>2, Alike
    <2>4. Living(S) => Living(T)
      BY <2>2 DEF Living
    <2>5. o \notin Bodiless
      BY <1>2, ScriptsFacts
    <2>6. QED BY <2>2, <2>3, <2>4, <2>5 DEF Kept, T
  <1>3. CASE o \notin Mobs
    <2> DEFINE U == [S EXCEPT !.run[o] = S.super.run, !.wild = @ \/ S.super.is # o]
               V == ReleaseSupermob(U)
    <2>1. T = [V EXCEPT !.curr = None]
      BY <1>3 DEF Released
    <2>2. o \in Bodiless /\ o # None
      BY <1>3, ScriptsFacts DEF Owners
    <2>3. S.super.run \in Int
      BY <1>1 DEF States, Super
    <2>4. /\ U \in States
          /\ U.list = S.list /\ U.script = S.script /\ U.curr = S.curr /\ U.walk = S.walk
          /\ U.super = S.super /\ U.listed = S.listed /\ U.stack = S.stack
          /\ U.run = [S.run EXCEPT ![o] = S.super.run]
          /\ U.wild = (S.wild \/ S.super.is # o)
      BY <1>1, <2>3 DEF States
    <2> HIDE DEF U
    <2>5. Sound(U) /\ (\A x : OwnedBy(U, x) = OwnedBy(S, x)) /\ (Placed(S) => Placed(U))
      BY <2>4, Alike
    <2>6. Living(S) => Living(U)
      BY <2>4 DEF Living
    <2>7. Tallied(S) /\ Carried(S) /\ S.super.is = o => Tallied(U)
      <3> SUFFICES ASSUME Tallied(S), Carried(S), S.super.is = o PROVE Tallied(U)
        OBVIOUS
      <3>1. S.run \in [Owners -> Int]
        BY <1>1 DEF States
      <3>2. U.run[o] >= Cardinality(OwnedBy(U, o))
        BY <2>2, <2>4, <2>5, <3>1 DEF Carried
      <3>3. \A x \in Owners : x # o => U.run[x] = S.run[x]
        BY <2>4, <3>1
      <3> QED BY <1>3, <2>5, <3>2, <3>3, ScriptsFacts DEF Tallied
    <2>8. /\ Sound(V) /\ V \in States
          /\ Living(U) => Living(V)
          /\ Tallied(U) => Tallied(V)
          /\ Carried(V) /\ Needed(V)
          /\ Placed(U) => Placed(V)
      BY <2>5, ReleaseKeeps DEF Sound
    <2>9. V.list = U.list /\ V.script = U.script /\ V.stack = U.stack /\ V.wild = U.wild
      BY <2>4, ReleaseFields
    <2> HIDE DEF V, T
    <2>10. /\ T \in States
           /\ T.curr = None /\ T.stack = V.stack /\ T.list = V.list /\ T.script = V.script
           /\ T.run = V.run /\ T.walk = V.walk /\ T.super = V.super /\ T.listed = V.listed
           /\ T.wild = V.wild
      BY <2>1, <2>8 DEF States
    <2>11. /\ Sound(T) /\ (Tallied(V) => Tallied(T)) /\ Carried(T)
           /\ (Placed(V) => Placed(T))
      BY <2>8, <2>10, Alike
    <2>12. (Living(V) => Living(T)) /\ Needed(T)
      BY <2>8, <2>10 DEF Living, Needed
    <2>13. ~ T.wild => ~ S.wild /\ S.super.is = o
      BY <2>4, <2>9, <2>10
    <2>14. Kept(S) => Kept(T)
      BY <2>5, <2>6, <2>7, <2>8, <2>11, <2>12, <2>13 DEF Kept
    <2>15. QED BY <1>3, <2>4, <2>9, <2>10, <2>11, <2>12, <2>13, <2>14 DEF T
  <1> QED BY <1>2, <1>3

-----------------------------------------------------------------------------
(* A line from its beginning to its end. *)

\* The count of an owner that the supermob stands for may be behind, for it is
\* read anew.
LEMMA UpdateKeeps ==
  ASSUME NEW S, Sound(S), Len(S.stack) <= MaxNest, NEW s \in S.list,
         ~ S.wild => Living(S) /\ Tallied(S) /\ Placed(S) /\ Needed(S),
         ~ S.wild /\ (S.super.is # S.script[s].owner \/ S.run[S.script[s].owner] = 0)
            => Carried(S)
  PROVE  Good(UpdateScript(S, s))
  <1> DEFINE o == S.script[s].owner
             R == [S EXCEPT !.curr = s]
             U == SetSupermob(R, o)
             T == IF o \in Mobs THEN R ELSE [U EXCEPT !.wild = @ \/ RoomOf(o) = None]
  <1>1. S \in States /\ s \in Scripts /\ s # None /\ o \in Owners
    BY ScriptsFacts DEF Sound, States
  <1>2. /\ R \in States
        /\ R.curr = s /\ R.stack = S.stack /\ R.list = S.list /\ R.script = S.script
        /\ R.run = S.run /\ R.walk = S.walk /\ R.super = S.super /\ R.listed = S.listed
        /\ R.wild = S.wild
    BY <1>1 DEF States
  <1> HIDE DEF R
  <1>3. /\ Sound(R) /\ (Tallied(S) => Tallied(R)) /\ (Carried(S) => Carried(R))
        /\ (Placed(S) => Placed(R)) /\ (Living(S) => Living(R)) /\ (Needed(S) => Needed(R))
    <2>1. (Living(S) => Living(R)) /\ (Needed(S) => Needed(R))
      BY <1>2 DEF Living, Needed
    <2> QED BY <1>2, <2>1, Alike
  <1>4. /\ T \in States /\ Sound(T) /\ Kept(T)
        /\ T.curr = s /\ T.stack = S.stack /\ T.list = S.list /\ T.script = S.script
        /\ T.run = S.run
        /\ o \in Mobs /\ ~ T.wild => Needed(T)
        /\ o \notin Mobs /\ ~ T.wild => T.super.is = o
    <2>1. CASE o \in Mobs
      <3>1. S.super.is # o
        BY <1>1, <2>1, ScriptsFacts DEF States, Super
      <3>2. T = R
        BY <2>1
      <3> HIDE DEF T
      <3> QED BY <1>2, <1>3, <2>1, <3>1, <3>2 DEF Kept
    <2>2. CASE o \notin Mobs
      <3>1. o \in Bodiless
        BY <1>1, <2>2 DEF Owners
      <3>2. /\ Sound(U)
            /\ ~ U.wild => ~ R.wild
            /\ Living(R) => Living(U)
            /\ Tallied(R) => Tallied(U)
            /\ RoomOf(o) # None /\ ~ U.wild /\ Tallied(R) => Carried(U)
            /\ RoomOf(o) # None /\ ~ U.wild => Placed(U) /\ U.super.is = o
        BY <1>3, <3>1, SetKeeps
      <3>3. U \in States /\ U.curr = R.curr /\ U.stack = R.stack /\ U.list = R.list
            /\ U.script = R.script /\ U.run = R.run
        BY <1>2, <3>1, SetFields
      <3> HIDE DEF U
      <3>4. T = [U EXCEPT !.wild = @ \/ RoomOf(o) = None]
        BY <2>2
      <3> HIDE DEF T
      <3>5. /\ T \in States
            /\ T.curr = U.curr /\ T.stack = U.stack /\ T.list = U.list /\ T.script = U.script
            /\ T.run = U.run /\ T.walk = U.walk /\ T.super = U.super /\ T.listed = U.listed
            /\ T.wild = (U.wild \/ RoomOf(o) = None)
        BY <3>3, <3>4 DEF States
      <3>6. /\ Sound(T) /\ (Tallied(U) => Tallied(T)) /\ (Carried(U) => Carried(T))
            /\ (Placed(U) => Placed(T))
        BY <3>2, <3>5, Alike
      <3>7. Living(U) => Living(T)
        BY <3>5 DEF Living
      <3>8. Kept(T)
        BY <1>2, <1>3, <3>2, <3>5, <3>6, <3>7 DEF Kept
      <3> QED BY <1>2, <2>2, <3>2, <3>3, <3>5, <3>6, <3>8
    <2> QED BY <2>1, <2>2
  <1>5. CASE S.run[o] = 0
    <2> DEFINE V == Stop(R, {s})
               X == UpdateScript(S, s)
    <2>1. X = [V EXCEPT !.curr = None]
      BY <1>5 DEF UpdateScript, R
    <2>2. /\ Sound(V) /\ V \in States
          /\ ~ V.wild => ~ R.wild
          /\ Living(R) => Living(V)
          /\ Tallied(R) => Tallied(V)
          /\ Carried(R) => Carried(V)
          /\ Placed(R) => Placed(V)
          /\ Needed(R) => Needed(V)
      <3>1. {s} \subseteq R.list
        BY <1>2
      <3> QED BY <1>3, <3>1, StopKeeps DEF Sound
    <2>3. V.stack = S.stack
      BY <1>2, StopFields
    <2> HIDE DEF V, X
    <2>4. /\ X \in States
          /\ X.curr = None /\ X.stack = V.stack /\ X.list = V.list /\ X.script = V.script
          /\ X.run = V.run /\ X.walk = V.walk /\ X.super = V.super /\ X.listed = V.listed
          /\ X.wild = V.wild
      BY <2>1, <2>2 DEF States
    <2>5. /\ Sound(X) /\ (Tallied(V) => Tallied(X)) /\ (Carried(V) => Carried(X))
          /\ (Placed(V) => Placed(X))
      BY <2>2, <2>4, Alike
    <2>6. (Living(V) => Living(X)) /\ (Needed(V) => Needed(X)) /\ Current(X)
      BY <2>4 DEF Living, Needed, Current
    <2>7. Kept(X) /\ (~ X.wild => Needed(X))
      BY <1>2, <1>3, <1>5, <2>2, <2>4, <2>5, <2>6 DEF Kept
    <2>8. QED BY <2>3, <2>4, <2>5, <2>6, <2>7 DEF Good, X
  <1> DEFINE V == Stop(T, {s})
  <1>6. /\ Sound(V) /\ Kept(V) /\ V.stack = S.stack
        /\ ~ V.wild => ~ T.wild
        /\ Needed(T) => Needed(V)
    <2> HIDE DEF T
    <2>1. {s} \subseteq T.list
      BY <1>4
    <2>2. V.stack = T.stack
      BY <1>4, StopFields
    <2>3. /\ Sound(V)
          /\ ~ V.wild => ~ T.wild
          /\ Living(T) => Living(V)
          /\ Tallied(T) => Tallied(V)
          /\ Carried(T) => Carried(V)
          /\ Placed(T) => Placed(V)
          /\ Needed(T) => Needed(V)
      BY <1>4, <2>1, StopKeeps
    <2> HIDE DEF V
    <2> QED BY <1>4, <2>2, <2>3 DEF Kept
  <1>7. ASSUME NEW W, Sound(W), Kept(W), W.stack = S.stack, ~ W.wild /\ o \in Mobs => Needed(W)
        PROVE  Good(Released(W, o))
    <2> DEFINE X == Released(W, o)
    <2>1. /\ Sound(X)
          /\ X.curr = None /\ X.stack = W.stack /\ X.list = W.list /\ X.script = W.script
          /\ Kept(X)
          /\ ~ X.wild => ~ W.wild
          /\ o \in Mobs => X.super = W.super
          /\ o \in Bodiless => Needed(X)
      BY <1>1, <1>7, ReleasedKeeps
    <2> HIDE DEF X
    <2>2. ~ X.wild => Needed(X)
      BY <1>1, <1>7, <2>1 DEF Needed, Owners
    <2>3. Current(X) /\ Len(X.stack) <= MaxNest
      BY <1>7, <2>1 DEF Current
    <2>4. QED BY <2>1, <2>2, <2>3 DEF Good, X
  <1>8. CASE S.run[o] # 0 /\ Deep(S)
    <2>1. UpdateScript(S, s) = Released(T, o)
      BY <1>8 DEF UpdateScript, R, U
    <2> HIDE DEF T, V
    <2> QED BY <1>4, <1>7, <2>1
  <1>9. CASE S.run[o] # 0 /\ ~ Deep(S) /\ S.script[s].left = 0
    <2>1. UpdateScript(S, s) = Released(V, o)
      BY <1>9 DEF UpdateScript, R, U
    <2> HIDE DEF T, V
    <2> QED BY <1>4, <1>6, <1>7, <2>1
  <1>10. CASE S.run[o] # 0 /\ ~ Deep(S) /\ S.script[s].left # 0
    <2> DEFINE X == Pushed(T, o, TRUE, FALSE)
    <2>1. UpdateScript(S, s) = X
      BY <1>10 DEF UpdateScript, R, U
    <2> HIDE DEF T
    <2>2. /\ X \in States
          /\ X.list = T.list /\ X.script = T.script /\ X.run = T.run /\ X.curr = T.curr
          /\ X.walk = T.walk /\ X.wild = T.wild /\ X.super = T.super /\ X.listed = T.listed
          /\ Len(X.stack) = Len(S.stack) + 1
          /\ X.stack[Len(X.stack)] = [who |-> o, line |-> TRUE, late |-> FALSE]
          /\ \A i \in 1 .. Len(S.stack) : i \in 1 .. Len(X.stack) /\ X.stack[i] = T.stack[i]
      <3>1. T \in States /\ o \in Owners /\ TRUE \in BOOLEAN /\ FALSE \in BOOLEAN /\ T.stack = S.stack
        BY <1>1, <1>4
      <3> HIDE DEF o
      <3>2. /\ X \in States
            /\ X.list = T.list /\ X.script = T.script /\ X.run = T.run /\ X.curr = T.curr
            /\ X.walk = T.walk /\ X.wild = T.wild /\ X.super = T.super /\ X.listed = T.listed
            /\ Len(X.stack) = Len(T.stack) + 1
            /\ X.stack[Len(X.stack)] = [who |-> o, line |-> TRUE, late |-> FALSE]
            /\ \A i \in 1 .. Len(T.stack) : i \in 1 .. Len(X.stack) /\ X.stack[i] = T.stack[i]
        BY <3>1, PushedFields
      <3> HIDE DEF X
      <3> QED BY <3>1, <3>2
    <2> HIDE DEF X
    <2>3. Len(S.stack) \in Nat /\ Len(X.stack) \in 1 .. Len(X.stack)
      BY <1>1, <2>2 DEF States
    <2>4. Len(X.stack) <= MaxNest
      BY <1>10, <2>2, <2>3, ScriptsFacts DEF Deep
    <2>5. /\ Sound(X) /\ (Tallied(T) => Tallied(X)) /\ (Carried(T) => Carried(X))
          /\ (Placed(T) => Placed(X))
      BY <1>4, <2>2, Alike
    <2>6. Living(T) => Living(X)
      BY <2>2 DEF Living
    <2>7. Kept(X)
      BY <1>4, <2>2, <2>5, <2>6 DEF Kept
    <2>8. Current(X)
      <3>1. S.script[s].left \in Nat
        BY <1>1 DEF States, Script
      <3>2. X.script[X.curr].left > 0 /\ X.curr \in X.list
        BY <1>4, <1>10, <2>2, <3>1
      <3>3. X.stack[Len(X.stack)].line
        BY <2>2
      <3> QED BY <2>3, <3>2, <3>3 DEF Current
    <2>9. ~ X.wild => Needed(X)
      <3>1. CASE o \in Mobs
        BY <1>4, <2>2, <3>1 DEF Needed
      <3>2. CASE o \notin Mobs
        <4>1. X.stack[Len(X.stack)].who \in Bodiless
          BY <1>1, <2>2, <3>2 DEF Owners
        <4> QED BY <2>3, <4>1 DEF Needed
      <3> QED BY <3>1, <3>2
    <2>10. QED BY <2>1, <2>4, <2>5, <2>7, <2>8, <2>9 DEF Good
  <1>11. QED BY <1>5, <1>8, <1>9, <1>10

LEMMA TopFrame ==
  ASSUME NEW S, Sound(S), S.stack # <<>>
  PROVE  /\ Len(S.stack) \in Nat /\ Len(S.stack) \in 1 .. Len(S.stack)
         /\ Top(S) = S.stack[Len(S.stack)]
         /\ Top(S) \in Frame /\ Top(S).who \in Owners /\ Top(S).line \in BOOLEAN
  <1>1. S.stack \in Seq(Frame)
    BY DEF Sound, States
  <1>2. Len(S.stack) \in Nat /\ Len(S.stack) \in 1 .. Len(S.stack)
    BY <1>1
  <1>3. S.stack[Len(S.stack)] \in Frame
    BY <1>1, <1>2
  <1> QED BY <1>2, <1>3 DEF Top, Frame

\* The last call returns: the supermob it needed has been released.
LEMMA PoppedKeeps ==
  ASSUME NEW S, Sound(S), S.stack # <<>>, Len(S.stack) <= MaxNest, Kept(S),
         ~ S.wild => Needed(S) /\ (Top(S).who \in Bodiless => S.super.is = None),
         Current(S), Top(S).line => S.curr = None
  PROVE  Good(Popped(S))
  <1> DEFINE T == Popped(S)
  <1>1. /\ Len(S.stack) \in Nat /\ Len(S.stack) \in 1 .. Len(S.stack)
        /\ Top(S) = S.stack[Len(S.stack)]
    BY TopFrame
  <1>2. /\ T \in States
        /\ T.list = S.list /\ T.script = S.script /\ T.run = S.run /\ T.curr = S.curr
        /\ T.walk = S.walk /\ T.wild = S.wild /\ T.super = S.super /\ T.listed = S.listed
        /\ Len(T.stack) = Len(S.stack) - 1
        /\ \A i \in 1 .. Len(S.stack) : i # Len(S.stack) =>
              i \in 1 .. Len(T.stack) /\ T.stack[i] = S.stack[i]
    BY PoppedFields DEF Sound
  <1> HIDE DEF T
  <1>3. /\ Sound(T) /\ (Tallied(S) => Tallied(T)) /\ (Carried(S) => Carried(T))
        /\ (Placed(S) => Placed(T))
    BY <1>2, Alike
  <1>4. Living(S) => Living(T)
    BY <1>2 DEF Living
  <1>5. Kept(T)
    BY <1>2, <1>3, <1>4 DEF Kept
  <1>6. Current(T)
    <2> SUFFICES ASSUME T.curr # None
                 PROVE  T.curr \in T.list /\ T.script[T.curr].left > 0
                        /\ \E i \in 1 .. Len(T.stack) : T.stack[i].line
      BY DEF Current
    <2>1. PICK i \in 1 .. Len(S.stack) : S.stack[i].line
      BY <1>2 DEF Current
    <2>2. i # Len(S.stack)
      BY <1>1, <1>2, <2>1
    <2>3. T.curr \in T.list /\ T.script[T.curr].left > 0
      BY <1>2 DEF Current
    <2> QED BY <1>2, <2>1, <2>2, <2>3
  <1>7. ~ T.wild => Needed(T)
    <2> SUFFICES ASSUME ~ T.wild, T.super.is # None
                 PROVE  \E i \in 1 .. Len(T.stack) : T.stack[i].who \in Bodiless
      BY DEF Needed
    <2>1. PICK i \in 1 .. Len(S.stack) : S.stack[i].who \in Bodiless
      BY <1>2 DEF Needed
    <2>2. i # Len(S.stack)
      BY <1>1, <1>2, <2>1
    <2> QED BY <1>2, <2>1, <2>2
  <1>8. Len(T.stack) <= MaxNest
    BY <1>1, <1>2, ScriptsFacts
  <1>9. QED BY <1>3, <1>5, <1>6, <1>7, <1>8 DEF Good, T

LEMMA EndLineKeeps ==
  ASSUME NEW S, Good(S), S.stack # <<>>
  PROVE  Good(EndLine(S))
  <1> DEFINE c == S.curr
             k == IF c = None THEN S ELSE [S EXCEPT !.script[c].left = @ - 1]
             o == Top(S).who
             X == Released(k, o)
  <1>1. Sound(S) /\ S \in States
    BY DEF Good, Sound
  <1>2. /\ o \in Owners /\ Len(S.stack) \in Nat /\ Len(S.stack) \in 1 .. Len(S.stack)
    BY <1>1, TopFrame
  <1>3. /\ k \in States
        /\ k.list = S.list /\ k.run = S.run /\ k.stack = S.stack /\ k.walk = S.walk
        /\ k.super = S.super /\ k.listed = S.listed /\ k.wild = S.wild
        /\ \A s \in Scripts : /\ k.script[s].owner = S.script[s].owner
                              /\ k.script[s].victim = S.script[s].victim
                              /\ k.script[s].ghost = S.script[s].ghost
    <2>1. CASE c = None
      BY <1>1, <2>1
    <2>2. CASE c # None
      <3> DEFINE n == [S.script[c] EXCEPT !.left = @ - 1]
                 f == [S.script EXCEPT ![c] = n]
      <3>1. c \in Scripts /\ S.script[c].left > 0 /\ S.script[c] \in Script
        BY <1>1, <2>2 DEF Good, Current, States
      <3>2. n \in Script /\ n.owner = S.script[c].owner /\ n.victim = S.script[c].victim
            /\ n.ghost = S.script[c].ghost
        BY <3>1, ScriptsFacts DEF Script
      <3>3. k = [S EXCEPT !.script = f]
        BY <1>1, <2>2, <3>1 DEF States
      <3> HIDE DEF k, n
      <3>4. /\ f \in [Scripts -> Script]
            /\ \A s \in Scripts : /\ f[s].owner = S.script[s].owner
                                  /\ f[s].victim = S.script[s].victim
                                  /\ f[s].ghost = S.script[s].ghost
        BY <1>1, <3>1, <3>2 DEF States
      <3> HIDE DEF f
      <3> QED BY <1>1, <3>3, <3>4 DEF States
    <2> QED BY <2>1, <2>2
  <1>4. S.list \subseteq Scripts
    BY <1>1 DEF States
  <1> HIDE DEF k, o
  <1>5. /\ Sound(k) /\ (Tallied(S) => Tallied(k)) /\ (Carried(S) => Carried(k))
        /\ (Placed(S) => Placed(k))
    BY <1>1, <1>3, <1>4, Alike
  <1>6. Living(S) => Living(k)
    BY <1>3, <1>4 DEF Living
  <1>7. Kept(k) /\ (~ k.wild => Needed(k))
    BY <1>3, <1>5, <1>6 DEF Good, Kept, Needed
  <1>8. /\ Sound(X)
        /\ X.curr = None /\ X.stack = k.stack
        /\ Kept(X)
        /\ ~ X.wild => ~ k.wild
        /\ o \in Mobs => X.super = k.super
        /\ o \in Bodiless => Needed(X)
    BY <1>2, <1>5, <1>7, ReleasedKeeps
  <1>9. o \in Bodiless => X.super.is = None
    <2>1. SUFFICES ASSUME o \in Bodiless PROVE X.super = Nobody
      BY DEF Nobody
    <2> DEFINE V == [k EXCEPT !.run[o] = k.super.run, !.wild = @ \/ k.super.is # o]
               Y == ReleaseSupermob(V)
    <2>2. X = [Y EXCEPT !.curr = None]
      BY <2>1, ScriptsFacts DEF Released
    <2>3. V \in States
      BY <1>3 DEF States, Super
    <2> HIDE DEF V
    <2>4. Y \in States /\ Y.super = Nobody
      BY <2>3, ReleaseFields
    <2> HIDE DEF Y, X
    <2> QED BY <2>2, <2>4 DEF States
  <1>10. EndLine(S) = Popped(X)
    BY DEF EndLine, k, o, c
  <1> HIDE DEF X
  <1>11. Top(X) = Top(S) /\ X.stack = S.stack
    BY <1>3, <1>8 DEF Top
  <1>12. Current(X) /\ Len(X.stack) <= MaxNest
    BY <1>8, <1>11 DEF Current, Good
  <1>13. ~ X.wild => Needed(X)
    BY <1>2, <1>7, <1>8 DEF Needed, Owners
  <1>14. Good(Popped(X))
    BY <1>8, <1>9, <1>11, <1>12, <1>13, PoppedKeeps DEF o
  <1>15. QED BY <1>10, <1>14

LEMMA EndProgramKeeps ==
  ASSUME NEW S, Good(S), S.stack # <<>>, ~ Top(S).line
  PROVE  Good(EndProgram(S))
  <1> DEFINE o == Top(S).who
             X == IF o \in Mobs THEN S ELSE ReleaseSupermob(S)
  <1>1. Sound(S) /\ S \in States /\ o \in Owners
    BY TopFrame DEF Good, Sound
  <1>2. /\ Sound(X) /\ Kept(X) /\ X.stack = S.stack /\ X.curr = S.curr
        /\ X.list = S.list /\ X.script = S.script
        /\ ~ X.wild => Needed(X) /\ (o \in Bodiless => X.super.is = None)
    <2>1. CASE o \in Mobs
      BY <1>1, <2>1, ScriptsFacts DEF Good
    <2>2. CASE o \notin Mobs
      <3> DEFINE T == ReleaseSupermob(S)
      <3>1. /\ Sound(T)
            /\ Living(S) => Living(T)
            /\ Tallied(S) => Tallied(T)
            /\ Carried(T)
            /\ Placed(S) => Placed(T)
            /\ Needed(T)
        BY <1>1, ReleaseKeeps
      <3>2. /\ T.list = S.list /\ T.script = S.script /\ T.curr = S.curr
            /\ T.stack = S.stack /\ T.wild = S.wild /\ T.super = Nobody
        BY <1>1, ReleaseFields
      <3> HIDE DEF T
      <3>3. Kept(T) /\ T.super.is = None
        BY <3>1, <3>2 DEF Good, Kept, Nobody
      <3>4. X = T
        BY <2>2 DEF T
      <3> QED BY <3>1, <3>2, <3>3, <3>4
    <2> QED BY <2>1, <2>2
  <1>3. EndProgram(S) = Popped(X)
    BY DEF EndProgram
  <1> HIDE DEF X
  <1>4. Top(X) = Top(S)
    BY <1>2 DEF Top
  <1>5. Current(X) /\ Len(X.stack) <= MaxNest
    BY <1>2 DEF Current, Good
  <1>6. Good(Popped(X))
    BY <1>2, <1>4, <1>5, PoppedKeeps
  <1> QED BY <1>3, <1>6

-----------------------------------------------------------------------------
(* The actions. *)

LEMMA NewWorld ==
  ASSUME NEW S \in States, Becomes(S)
  PROVE  World' = S
  <1>1. S = [run |-> S.run, script |-> S.script, list |-> S.list, curr |-> S.curr,
             super |-> S.super, listed |-> S.listed, stack |-> S.stack, walk |-> S.walk,
             wild |-> S.wild]
    BY DEF States
  <1> QED BY <1>1 DEF World, Becomes

\* Nobody comes or goes.
LEMMA Unmoved ==
  ASSUME NEW S, Good(S), Becomes(S), IInv, UNCHANGED <<char, thing>>
  PROVE  IInv'
  <1>1. World' = S
    BY NewWorld DEF Good, Sound
  <1>2. /\ char' \in [Chars -> {"in", "queued", "gone"}]
        /\ thing' \in [Things -> Rooms \cup {"box", "queued", "gone"}]
    BY DEF IInv
  <1>3. Good(World)'
    BY <1>1 DEF Good, Sound, Current, Kept, Needed, Living, Tallied, Carried, Placed, Here,
                OwnedBy
  <1> QED BY <1>2, <1>3 DEF IInv

LEMMA WorldFacts ==
  ASSUME IInv, ~ wild
  PROVE  /\ World \in States /\ Sound(World) /\ Good(World) /\ ~ World.wild
         /\ Living(World) /\ Tallied(World) /\ Carried(World) /\ Placed(World)
         /\ Needed(World) /\ Current(World) /\ Kept(World)
         /\ World.run = run /\ World.script = script /\ World.list = list
         /\ World.curr = curr /\ World.super = super /\ World.listed = listed
         /\ World.stack = stack /\ World.walk = walk /\ World.wild = wild
         /\ list \subseteq Scripts /\ run \in [Owners -> Int]
         /\ script \in [Scripts -> Script] /\ stack \in Seq(Frame)
  <1>1. /\ World.run = run /\ World.script = script /\ World.list = list
        /\ World.curr = curr /\ World.super = super /\ World.listed = listed
        /\ World.stack = stack /\ World.walk = walk /\ World.wild = wild
    BY DEF World
  <1> HIDE DEF World
  <1>2. World \in States
    BY DEF IInv, Good, Sound
  <1>3. /\ list \subseteq Scripts /\ run \in [Owners -> Int]
        /\ script \in [Scripts -> Script] /\ stack \in Seq(Frame)
    BY <1>1, <1>2 DEF States
  <1> QED BY <1>1, <1>2, <1>3 DEF IInv, Good, Kept

LEMMA InitInv == Init => IInv
  <1> SUFFICES ASSUME Init PROVE IInv
    OBVIOUS
  <1>1. /\ char \in [Chars -> {"in", "queued", "gone"}]
        /\ thing \in [Things -> Rooms \cup {"box", "queued", "gone"}]
    BY DEF Init
  <1>2. /\ World.run = run /\ World.script = script /\ World.list = {}
        /\ World.curr = None /\ World.super = Nobody /\ World.listed = {}
        /\ World.stack = <<>> /\ World.walk = Idle /\ World.wild = FALSE
    BY DEF Init, World
  <1>3. World \in States
    <2>1. Unused \in Script /\ Nobody \in Super /\ Idle \in Walks
      BY ScriptsFacts DEF Script, Unused, Nobody, Super, Idle, Walks
    <2>2. run \in [Owners -> Int] /\ script \in [Scripts -> Script]
      BY <2>1 DEF Init
    <2>3. <<>> \in Seq(Frame)
      OBVIOUS
    <2> QED BY <2>1, <2>2, <2>3 DEF World, States, Init
  <1> HIDE DEF World
  <1>4. Sound(World)
    BY <1>2, <1>3, ScriptsFacts DEF Sound, Idle
  <1>5. \A o : OwnedBy(World, o) = {}
    BY <1>2 DEF OwnedBy
  <1>6. Cardinality({}) = 0
    BY FS_EmptySet
  <1>7. \A o \in Owners : World.run[o] = 0
    BY <1>2 DEF Init
  <1>8. Tallied(World)
    BY <1>5, <1>6, <1>7, ScriptsFacts DEF Tallied
  <1>9. Living(World) /\ Carried(World) /\ Placed(World) /\ Needed(World) /\ Current(World)
    BY <1>2, ScriptsFacts DEF Living, Carried, Placed, Needed, Current, Nobody
  <1>10. Len(World.stack) <= MaxNest
    BY <1>2, ScriptsFacts
  <1> QED BY <1>1, <1>4, <1>8, <1>9, <1>10 DEF IInv, Good, Kept

LEMMA ExtractStep ==
  ASSUME IInv, ~ wild, NEW c \in Chars, Extract(c)
  PROVE  IInv'
  <1> DEFINE K == Cleanup(c)
             T == Stop(World, K)
  <1>1. K \subseteq World.list
    BY WorldFacts DEF Cleanup
  <1>2. /\ Sound(T)
        /\ Living(T) /\ Tallied(T) /\ Carried(T) /\ Placed(T) /\ Needed(T) /\ Current(T)
        /\ \A s \in T.list : s \notin K /\ s \in list /\ T.script[s] = script[s]
    BY <1>1, WorldFacts, StopKeeps
  <1>3. T.stack = stack
    BY WorldFacts, StopFields
  <1>4. World' = T
    BY <1>2, NewWorld DEF Extract, Sound
  <1>5. \A s \in T.list : T.script[s].owner # c /\ T.script[s].victim # c
    BY <1>2 DEF Cleanup
  <1> HIDE DEF T, K
  <1>6. /\ char' = [char EXCEPT ![c] = "queued"] /\ thing' = thing
        /\ char \in [Chars -> {"in", "queued", "gone"}]
        /\ thing \in [Things -> Rooms \cup {"box", "queued", "gone"}]
        /\ char[c] = "in"
    BY DEF Extract, IInv
  <1>7. Living(World)'
    BY <1>2, <1>4, <1>5, <1>6, ScriptsFacts DEF Living, Here
  <1>8. Tallied(World)'
    <2>1. \A m \in Mobs : char'[m] # "gone" => char[m] # "gone"
      BY <1>6
    <2> QED BY <1>2, <1>4, <2>1 DEF Tallied, OwnedBy
  <1>9. (Carried(World) /\ Placed(World) /\ Needed(World) /\ Current(World) /\ Sound(World))'
    BY <1>2, <1>4, <1>6 DEF Carried, OwnedBy, Placed, Needed, Current, Sound
  <1>10. (Len(World.stack) <= MaxNest)'
    BY <1>3, <1>4, WorldFacts DEF Good
  <1> QED BY <1>6, <1>7, <1>8, <1>9, <1>10 DEF IInv, Good, Kept

LEMMA ExtractThingStep ==
  ASSUME IInv, ~ wild, NEW t \in Things, ExtractThing(t)
  PROVE  IInv'
  <1> DEFINE K == OwnedBy(World, t)
             T == IF run[t] # 0 THEN Stop(World, K) ELSE World
  <1>1. K \subseteq World.list
    BY DEF OwnedBy
  <1>2. /\ Sound(T)
        /\ Living(T) /\ Tallied(T) /\ Carried(T) /\ Placed(T) /\ Needed(T) /\ Current(T)
        /\ T.stack = stack
        /\ \A s \in T.list : T.script[s].owner # t
    <2>1. CASE run[t] # 0
      <3> DEFINE V == Stop(World, K)
      <3>1. /\ Sound(V)
            /\ Living(V) /\ Tallied(V) /\ Carried(V) /\ Placed(V) /\ Needed(V) /\ Current(V)
            /\ \A s \in V.list : s \notin K /\ s \in list /\ V.script[s] = script[s]
        BY <1>1, WorldFacts, StopKeeps
      <3>2. V.stack = stack
        BY WorldFacts, StopFields
      <3>3. \A s \in V.list : V.script[s].owner # t
        BY <3>1, WorldFacts DEF OwnedBy
      <3> HIDE DEF V
      <3>4. T = V
        BY <2>1 DEF V
      <3> QED BY <3>1, <3>2, <3>3, <3>4
    <2>2. CASE run[t] = 0
      <3>1. t \in Bodiless
        BY ScriptsFacts
      <3>2. run[t] >= Cardinality(OwnedBy(World, t))
        BY <3>1, WorldFacts DEF Tallied
      <3>3. World.list \in SUBSET Scripts
        BY WorldFacts
      <3>4. /\ Cardinality(OwnedBy(World, t)) \in Nat
            /\ OwnedBy(World, t) = {} <=> Cardinality(OwnedBy(World, t)) = 0
        BY <3>3, CountType
      <3>5. OwnedBy(World, t) = {}
        BY <2>2, <3>2, <3>4
      <3>6. \A s \in World.list : World.script[s].owner # t
        BY <3>5 DEF OwnedBy
      <3>7. T = World
        BY <2>2
      <3> HIDE DEF T
      <3> QED BY <3>6, <3>7, WorldFacts
    <2> QED BY <2>1, <2>2
  <1>3. Becomes(T)
    BY DEF ExtractThing
  <1> HIDE DEF T
  <1>4. World' = T
    BY <1>2, <1>3, NewWorld DEF Sound
  <1>5. /\ thing' = [thing EXCEPT ![t] = "queued"] /\ char' = char
        /\ char \in [Chars -> {"in", "queued", "gone"}]
        /\ thing \in [Things -> Rooms \cup {"box", "queued", "gone"}]
    BY DEF ExtractThing, IInv
  <1>6. Living(World)'
    BY <1>2, <1>4, <1>5 DEF Living, Here
  <1>7. Placed(World)'
    BY <1>2, <1>4, <1>5 DEF Placed
  <1>8. (Carried(World) /\ Tallied(World) /\ Needed(World) /\ Current(World) /\ Sound(World))'
    BY <1>2, <1>4, <1>5 DEF Carried, Tallied, OwnedBy, Needed, Current, Sound
  <1>9. (Len(World.stack) <= MaxNest)'
    BY <1>2, <1>4, WorldFacts DEF Good
  <1> QED BY <1>5, <1>6, <1>7, <1>8, <1>9 DEF IInv, Good, Kept

\* A thing that is moved, and whoever was freed: nobody is told of it.
LEMMA MoveStep ==
  ASSUME IInv, ~ wild, NEW t \in Things, NEW p \in Rooms \cup {"box"}, Move(t, p)
  PROVE  IInv'
  <1>1. /\ World' = World /\ thing' = [thing EXCEPT ![t] = p] /\ char' = char
        /\ char \in [Chars -> {"in", "queued", "gone"}]
        /\ thing \in [Things -> Rooms \cup {"box", "queued", "gone"}]
    BY DEF Move, World, IInv
  <1>2. p \notin {"queued", "gone"}
    BY ScriptsAssumption
  <1>3. Living(World)'
    BY <1>1, <1>2, WorldFacts DEF Living, Here
  <1>4. Placed(World)'
    BY <1>1, <1>2, WorldFacts DEF Placed
  <1>5. (Carried(World) /\ Tallied(World) /\ Needed(World) /\ Current(World) /\ Sound(World))'
    BY <1>1, WorldFacts DEF Carried, Tallied, OwnedBy, Needed, Current, Sound
  <1>6. (Len(World.stack) <= MaxNest)'
    BY <1>1, WorldFacts DEF Good
  <1>7. (thing \in [Things -> Rooms \cup {"box", "queued", "gone"}])'
    BY <1>1
  <1> QED BY <1>1, <1>3, <1>4, <1>5, <1>6, <1>7 DEF IInv, Good, Kept

LEMMA CleanStep ==
  ASSUME IInv, ~ wild, Clean
  PROVE  IInv'
  <1>1. /\ World' = World
        /\ char' = [c \in Chars |-> IF char[c] = "queued" THEN "gone" ELSE char[c]]
        /\ thing' = [t \in Things |-> IF thing[t] = "queued" THEN "gone" ELSE thing[t]]
        /\ char \in [Chars -> {"in", "queued", "gone"}]
        /\ thing \in [Things -> Rooms \cup {"box", "queued", "gone"}]
    BY DEF Clean, World, IInv
  <1>2. super = Nobody
    BY InvAway DEF SupermobAway, Clean
  <1>3. \A c \in Chars : (char'[c] = "in" <=> char[c] = "in") /\ (char'[c] # "gone" => char[c] # "gone")
    BY <1>1
  <1>4. Living(World)'
    <2>1. \A t \in Things : thing[t] \notin {"queued", "gone"} => thing'[t] = thing[t]
      BY <1>1
    <2> QED BY <1>1, <1>3, <2>1, WorldFacts, ScriptsFacts DEF Living, Here
  <1>5. Placed(World)'
    BY <1>1, <1>2, WorldFacts, ScriptsFacts DEF Placed, Nobody
  <1>6. Tallied(World)'
    BY <1>1, <1>3, WorldFacts, ScriptsFacts DEF Tallied, OwnedBy
  <1>7. (Carried(World) /\ Needed(World) /\ Current(World) /\ Sound(World))'
    BY <1>1, WorldFacts DEF Carried, OwnedBy, Needed, Current, Sound
  <1>8. (Len(World.stack) <= MaxNest)'
    BY <1>1, WorldFacts DEF Good
  <1>9. /\ (char \in [Chars -> {"in", "queued", "gone"}])'
        /\ (thing \in [Things -> Rooms \cup {"box", "queued", "gone"}])'
    BY <1>1
  <1> QED BY <1>4, <1>5, <1>6, <1>7, <1>8, <1>9 DEF IInv, Good, Kept

LEMMA ArriveStep ==
  ASSUME IInv, ~ wild, NEW c \in Chars, Arrive(c)
  PROVE  IInv'
  <1> DEFINE r == IF c \in Mobs THEN [run EXCEPT ![c] = 0] ELSE run
  <1>1. /\ script' = script /\ list' = list /\ curr' = curr /\ super' = super
        /\ listed' = listed /\ stack' = stack /\ walk' = walk /\ wild' = wild /\ thing' = thing
        /\ run' = r /\ char' = [char EXCEPT ![c] = "in"] /\ char[c] = "gone"
        /\ \A s \in list : script[s].owner # c
        /\ char \in [Chars -> {"in", "queued", "gone"}]
        /\ thing \in [Things -> Rooms \cup {"box", "queued", "gone"}]
    BY DEF Arrive, IInv
  <1>2. /\ World'.list = list /\ World'.script = script /\ World'.curr = curr
        /\ World'.super = super /\ World'.listed = listed /\ World'.stack = stack
        /\ World'.walk = walk /\ World'.wild = wild /\ World'.run = r
    BY <1>1 DEF World
  <1>3. r \in [Owners -> Int]
    BY WorldFacts, ScriptsFacts
  <1>4. \A o \in Owners : o # c => r[o] = run[o]
    BY WorldFacts
  <1>5. c \in Mobs => r[c] = 0
    BY WorldFacts, ScriptsFacts
  <1> HIDE DEF r
  <1>6. World' \in States
    BY <1>1, <1>3, WorldFacts DEF World, States
  <1> HIDE DEF World
  <1>7. Sound(World)'
    BY <1>2, <1>6, WorldFacts DEF Sound
  <1>8. Living(World)'
    BY <1>1, <1>2, WorldFacts, ScriptsFacts DEF Living, Here
  <1>9. \A o : OwnedBy(World, o)' = OwnedBy(World, o)
    BY <1>2, WorldFacts DEF OwnedBy
  <1>10. Tallied(World)'
    <2>1. ASSUME NEW m \in Mobs, char'[m] # "gone"
          PROVE  World'.run[m] = Cardinality(OwnedBy(World, m)')
      <3>1. CASE m = c
        <4>1. OwnedBy(World, c) = {}
          BY <1>1, WorldFacts DEF OwnedBy
        <4> QED BY <1>2, <1>5, <1>9, <3>1, <4>1, FS_EmptySet
      <3>2. CASE m # c
        <4>1. char[m] # "gone"
          BY <1>1, <2>1, <3>2, ScriptsFacts
        <4> QED BY <1>2, <1>4, <1>9, <3>2, <4>1, WorldFacts, ScriptsFacts DEF Tallied
      <3> QED BY <3>1, <3>2
    <2>2. ASSUME NEW o \in Bodiless
          PROVE  World'.run[o] >= Cardinality(OwnedBy(World, o)')
      <3>1. o # c /\ o \in Owners
        BY ScriptsFacts
      <3> QED BY <1>2, <1>4, <1>9, <3>1, WorldFacts DEF Tallied
    <2>3. QED BY <2>1, <2>2 DEF Tallied
  <1>11. (Carried(World) /\ Placed(World) /\ Needed(World) /\ Current(World))'
    BY <1>1, <1>2, <1>9, WorldFacts DEF Carried, Placed, Needed, Current
  <1>12. (Len(World.stack) <= MaxNest)'
    BY <1>2, WorldFacts DEF Good
  <1>13. /\ (char \in [Chars -> {"in", "queued", "gone"}])'
         /\ (thing \in [Things -> Rooms \cup {"box", "queued", "gone"}])'
    BY <1>1
  <1> QED BY <1>7, <1>8, <1>10, <1>11, <1>12, <1>13 DEF IInv, Good, Kept

LEMMA MakeStep ==
  ASSUME IInv, ~ wild, NEW t \in Things, NEW r \in Rooms, Make(t, r)
  PROVE  IInv'
  <1> DEFINE n == [run EXCEPT ![t] = 0]
  <1>1. /\ script' = script /\ list' = list /\ curr' = curr /\ super' = super
        /\ listed' = listed /\ stack' = stack /\ walk' = walk /\ wild' = wild /\ char' = char
        /\ run' = n /\ thing' = [thing EXCEPT ![t] = r] /\ OwnedBy(World, t) = {}
        /\ char \in [Chars -> {"in", "queued", "gone"}]
        /\ thing \in [Things -> Rooms \cup {"box", "queued", "gone"}]
    BY DEF Make, IInv
  <1>2. /\ World'.list = list /\ World'.script = script /\ World'.curr = curr
        /\ World'.super = super /\ World'.listed = listed /\ World'.stack = stack
        /\ World'.walk = walk /\ World'.wild = wild /\ World'.run = n
    BY <1>1 DEF World
  <1>3. t \in Owners /\ t \in Bodiless /\ t \notin Mobs
    BY ScriptsFacts
  <1>4. n \in [Owners -> Int] /\ n[t] = 0 /\ \A o \in Owners : o # t => n[o] = run[o]
    BY <1>3, WorldFacts
  <1> HIDE DEF n
  <1>5. World' \in States
    BY <1>1, <1>4, WorldFacts DEF World, States
  <1> HIDE DEF World
  <1>6. Sound(World)'
    BY <1>2, <1>5, WorldFacts DEF Sound
  <1>7. r \notin {"queued", "gone"}
    BY ScriptsAssumption
  <1>8. Living(World)'
    BY <1>1, <1>2, <1>7, WorldFacts DEF Living, Here
  <1>9. \A o : OwnedBy(World, o)' = OwnedBy(World, o)
    BY <1>2, WorldFacts DEF OwnedBy
  <1>10. Tallied(World)'
    <2>1. ASSUME NEW m \in Mobs, char'[m] # "gone"
          PROVE  World'.run[m] = Cardinality(OwnedBy(World, m)')
      BY <1>1, <1>2, <1>3, <1>4, <1>9, <2>1, WorldFacts, ScriptsFacts DEF Tallied
    <2>2. ASSUME NEW o \in Bodiless
          PROVE  World'.run[o] >= Cardinality(OwnedBy(World, o)')
      <3>1. CASE o = t
        BY <1>1, <1>2, <1>4, <1>9, <3>1, FS_EmptySet
      <3>2. CASE o # t
        BY <1>2, <1>4, <1>9, <3>2, WorldFacts, ScriptsFacts DEF Tallied
      <3> QED BY <3>1, <3>2
    <2>3. QED BY <2>1, <2>2 DEF Tallied
  <1>11. Placed(World)'
    BY <1>1, <1>2, <1>7, WorldFacts DEF Placed
  <1>12. (Carried(World) /\ Needed(World) /\ Current(World))'
    BY <1>2, <1>9, WorldFacts DEF Carried, Needed, Current
  <1>13. (Len(World.stack) <= MaxNest)'
    BY <1>2, WorldFacts DEF Good
  <1>14. /\ (char \in [Chars -> {"in", "queued", "gone"}])'
         /\ (thing \in [Things -> Rooms \cup {"box", "queued", "gone"}])'
    BY <1>1
  <1> QED BY <1>6, <1>8, <1>10, <1>11, <1>12, <1>13, <1>14 DEF IInv, Good, Kept

\* A program begins.
LEMMA PushedGood ==
  ASSUME NEW S, Sound(S), Len(S.stack) <= MaxNest, ~ Deep(S), Current(S), Kept(S),
         NEW o \in Owners, o \in Bodiless \/ (~ S.wild => Needed(S)), NEW late \in BOOLEAN
  PROVE  Good(Pushed(S, o, FALSE, late))
  <1> DEFINE X == Pushed(S, o, FALSE, late)
  <1>1. S \in States /\ FALSE \in BOOLEAN
    BY DEF Sound
  <1>2. /\ X \in States
        /\ X.list = S.list /\ X.script = S.script /\ X.run = S.run /\ X.curr = S.curr
        /\ X.walk = S.walk /\ X.wild = S.wild /\ X.super = S.super /\ X.listed = S.listed
        /\ Len(X.stack) = Len(S.stack) + 1
        /\ X.stack[Len(X.stack)] = [who |-> o, line |-> FALSE, late |-> late]
        /\ \A i \in 1 .. Len(S.stack) : i \in 1 .. Len(X.stack) /\ X.stack[i] = S.stack[i]
    BY <1>1, PushedFields
  <1> HIDE DEF X
  <1>3. Len(S.stack) \in Nat /\ Len(X.stack) \in 1 .. Len(X.stack)
    BY <1>1, <1>2 DEF States
  <1>4. Len(X.stack) <= MaxNest
    BY <1>2, <1>3, ScriptsFacts DEF Deep
  <1>5. /\ Sound(X) /\ (Tallied(S) => Tallied(X)) /\ (Carried(S) => Carried(X))
        /\ (Placed(S) => Placed(X))
    BY <1>2, Alike
  <1>6. Living(S) => Living(X)
    BY <1>2 DEF Living
  <1>7. Kept(X)
    BY <1>2, <1>5, <1>6 DEF Kept
  <1>8. Current(X)
    BY <1>2 DEF Current
  <1>9. ~ X.wild => Needed(X)
    <2>1. CASE o \in Bodiless
      <3>1. X.stack[Len(X.stack)].who \in Bodiless
        BY <1>2, <2>1
      <3> QED BY <1>3, <3>1 DEF Needed
    <2>2. CASE ~ S.wild => Needed(S)
      BY <1>2, <2>2 DEF Needed
    <2> QED BY <2>1, <2>2
  <1>10. QED BY <1>4, <1>5, <1>7, <1>8, <1>9 DEF Good, X

LEMMA MobTriggerStep ==
  ASSUME IInv, ~ wild, NEW m \in Mobs, MobTrigger(m)
  PROVE  IInv'
  <1> DEFINE late == char[m] = "queued"
  <1>1. late \in BOOLEAN /\ Becomes(Pushed(World, m, FALSE, late)) /\ UNCHANGED <<char, thing>>
        /\ ~ Deep(World)
    BY DEF MobTrigger
  <1> HIDE DEF late
  <1>2. Good(Pushed(World, m, FALSE, late))
    BY <1>1, WorldFacts, ScriptsFacts, PushedGood DEF Good
  <1> QED BY <1>1, <1>2, Unmoved

LEMMA AnswersStep ==
  ASSUME IInv, ~ wild, NEW o \in Bodiless, RoomOf(o) # None, Answers(o)
  PROVE  IInv'
  <1> DEFINE S == SetSupermob(World, o)
             X == IF Deep(S) THEN ReleaseSupermob(S) ELSE Pushed(S, o, FALSE, FALSE)
  <1>1. /\ Sound(S)
        /\ ~ S.wild => ~ wild
        /\ Living(S) /\ Tallied(S)
        /\ ~ S.wild => Carried(S) /\ Placed(S)
    BY WorldFacts, SetKeeps
  <1>2. /\ S \in States
        /\ S.list = list /\ S.script = script /\ S.curr = curr /\ S.stack = stack
    BY WorldFacts, SetFields
  <1>3. Kept(S)
    BY <1>1 DEF Kept
  <1>4. Becomes(X) /\ UNCHANGED <<char, thing>>
    BY DEF Answers
  <1>5. o \in Owners
    BY ScriptsFacts
  <1> HIDE DEF S
  <1>6. Current(S) /\ Len(S.stack) <= MaxNest
    BY <1>2, WorldFacts DEF Current, Good
  <1>7. Good(X)
    <2>1. CASE Deep(S)
      <3> DEFINE T == ReleaseSupermob(S)
      <3>1. /\ Sound(T)
            /\ Living(S) => Living(T)
            /\ Tallied(S) => Tallied(T)
            /\ Carried(T)
            /\ Placed(S) => Placed(T)
            /\ Needed(T)
        BY <1>1, ReleaseKeeps
      <3>2. /\ T.list = S.list /\ T.script = S.script /\ T.curr = S.curr
            /\ T.stack = S.stack /\ T.wild = S.wild
        BY <1>2, ReleaseFields
      <3> HIDE DEF T
      <3>3. Good(T)
        BY <1>3, <1>6, <3>1, <3>2 DEF Good, Kept, Current
      <3> QED BY <2>1, <3>3 DEF T
    <2>2. CASE ~ Deep(S)
      BY <1>1, <1>3, <1>5, <1>6, <2>2, PushedGood
    <2> QED BY <2>1, <2>2
  <1> HIDE DEF X
  <1> QED BY <1>4, <1>7, Unmoved

LEMMA ReturnStep ==
  ASSUME IInv, ~ wild, Return
  PROVE  IInv'
  <1> DEFINE X == IF ~ Top(World).line THEN EndProgram(World) ELSE EndLine(World)
  <1>1. World.stack # <<>>
    BY WorldFacts DEF Return, Busy
  <1>2. Good(X)
    BY <1>1, WorldFacts, EndLineKeeps, EndProgramKeeps
  <1>3. Becomes(X) /\ UNCHANGED <<char, thing>>
    BY DEF Return
  <1> HIDE DEF X
  <1> QED BY <1>2, <1>3, Unmoved

\* The walk of scripts_update, and what it reads
LEMMA Walked ==
  ASSUME IInv, ~ wild, NEW X, X \in States,
         X.list = list, X.script = script, X.run = run, X.curr = curr, X.super = super,
         X.listed = listed, X.stack = stack,
         X.walk.rest \subseteq list, X.walk.next \in Scripts => X.walk.next \in list
  PROVE  /\ Good(X)
         /\ Living(X) /\ Tallied(X) /\ Carried(X) /\ Placed(X) /\ Needed(X) /\ Sound(X)
  <1>1. Sound(X)
    BY WorldFacts DEF Sound
  <1>2. \A o : OwnedBy(X, o) = OwnedBy(World, o)
    BY WorldFacts DEF OwnedBy
  <1>3. Tallied(X) /\ Carried(X)
    BY <1>2, WorldFacts DEF Tallied, Carried
  <1>4. Living(X) /\ Placed(X) /\ Needed(X) /\ Current(X)
    BY WorldFacts DEF Living, Placed, Needed, Current
  <1> QED BY <1>1, <1>3, <1>4, WorldFacts DEF Good, Kept

LEMMA NextOfType ==
  ASSUME NEW rest, rest \subseteq list, list \subseteq Scripts, NEW n \in NextOf(rest)
  PROVE  n \in Scripts \cup {None} /\ (n \in Scripts => n \in list)
  BY ScriptsFacts DEF NextOf

LEMMA WalkStep ==
  ASSUME IInv, ~ wild, BeginWalk \/ ReadFreed \/ EndWalk
  PROVE  IInv'
  <1>1. CASE BeginWalk
    <2>1. PICK n \in NextOf(list) :
            Becomes([World EXCEPT !.walk = [on |-> TRUE, next |-> n, rest |-> list \ {n}]])
      BY <1>1 DEF BeginWalk
    <2> DEFINE w == [on |-> TRUE, next |-> n, rest |-> list \ {n}]
               X == [World EXCEPT !.walk = w]
    <2>2. n \in Scripts \cup {None} /\ (n \in Scripts => n \in list)
      BY WorldFacts, NextOfType
    <2>3. w \in Walks /\ w.next = n /\ w.rest \subseteq list
      BY <2>2, WorldFacts DEF Walks
    <2>4. Becomes(X) /\ UNCHANGED <<char, thing>>
      BY <1>1, <2>1 DEF BeginWalk
    <2> HIDE DEF w
    <2>5. /\ X \in States
          /\ X.list = list /\ X.script = script /\ X.run = run /\ X.curr = curr
          /\ X.super = super /\ X.listed = listed /\ X.stack = stack /\ X.walk = w
      <3> HIDE DEF World
      <3> QED BY <2>3, WorldFacts DEF States
    <2> HIDE DEF X
    <2>6. Good(X)
      BY <2>2, <2>3, <2>5, Walked
    <2> QED BY <2>4, <2>6, Unmoved
  <1>2. CASE ReadFreed
    <2> DEFINE X == [World EXCEPT !.wild = TRUE]
    <2>1. Becomes(X) /\ UNCHANGED <<char, thing>>
      BY <1>2 DEF ReadFreed
    <2>2. /\ X \in States
          /\ X.list = list /\ X.script = script /\ X.run = run /\ X.curr = curr
          /\ X.super = super /\ X.listed = listed /\ X.stack = stack /\ X.walk = World.walk
      <3> HIDE DEF World
      <3> QED BY WorldFacts DEF States
    <2> HIDE DEF X
    <2>3. X.walk.rest \subseteq list /\ (X.walk.next \in Scripts => X.walk.next \in list)
      BY <2>2, WorldFacts DEF Sound
    <2>4. Good(X)
      BY <2>2, <2>3, Walked
    <2> QED BY <2>1, <2>4, Unmoved
  <1>3. CASE EndWalk
    <2> DEFINE X == [World EXCEPT !.walk = Idle]
    <2>1. Becomes(X) /\ UNCHANGED <<char, thing>>
      BY <1>3 DEF EndWalk
    <2>2. Idle \in Walks /\ Idle.rest = {} /\ Idle.next = None
      BY DEF Idle, Walks
    <2>3. /\ X \in States
          /\ X.list = list /\ X.script = script /\ X.run = run /\ X.curr = curr
          /\ X.super = super /\ X.listed = listed /\ X.stack = stack /\ X.walk = Idle
      <3> HIDE DEF World
      <3> QED BY <2>2, WorldFacts DEF States
    <2> HIDE DEF X
    <2>4. Good(X)
      BY <2>2, <2>3, Walked, ScriptsFacts
    <2> QED BY <2>1, <2>4, Unmoved
  <1> QED BY <1>1, <1>2, <1>3

LEMMA VisitStep ==
  ASSUME IInv, ~ wild, Visit
  PROVE  IInv'
  <1> DEFINE s == walk.next
             used == \/ script[s].owner \in FreedOwners
                     \/ script[s].left > 0 /\ script[s].victim # None
                          /\ char[script[s].victim] = "gone"
  <1>1. PICK n \in NextOf(walk.rest) :
          Becomes(UpdateScript([World EXCEPT !.walk.next = n, !.walk.rest = @ \ {n},
                                             !.wild = used], s))
    BY DEF Visit
  <1> DEFINE X == [World EXCEPT !.walk.next = n, !.walk.rest = @ \ {n}, !.wild = used]
             T == UpdateScript(X, s)
  <1>2. s \in list /\ walk.rest \subseteq list /\ UNCHANGED <<char, thing>>
    BY WorldFacts DEF Visit, Sound
  <1>3. n \in Scripts \cup {None} /\ (n \in Scripts => n \in list)
    BY <1>2, WorldFacts, NextOfType
  <1>4. used \in BOOLEAN
    OBVIOUS
  <1>5. Becomes(T)
    BY <1>1
  <1> HIDE DEF used, s
  <1>6. /\ X \in States
        /\ X.list = list /\ X.script = script /\ X.run = run /\ X.curr = curr
        /\ X.super = super /\ X.listed = listed /\ X.stack = stack
        /\ X.walk.next = n /\ X.walk.rest = walk.rest \ {n}
    <2> HIDE DEF World
    <2> QED BY <1>3, <1>4, WorldFacts DEF States, Walks
  <1> HIDE DEF X
  <1>7. /\ Good(X)
        /\ Living(X) /\ Tallied(X) /\ Carried(X) /\ Placed(X) /\ Needed(X) /\ Sound(X)
    BY <1>2, <1>3, <1>6, Walked
  <1>8. s \in X.list /\ Len(X.stack) <= MaxNest
    BY <1>2, <1>6, <1>7 DEF Good
  <1>9. Good(T)
    BY <1>7, <1>8, UpdateKeeps
  <1> HIDE DEF T
  <1> QED BY <1>2, <1>5, <1>9, Unmoved

LEMMA RunScriptStep ==
  ASSUME IInv, ~ wild, NEW s \in Scripts, NEW v \in Chars \cup {None},
         NEW n \in 1 .. MaxLines, RunScript(s, v, n)
  PROVE  IInv'
  <1> DEFINE o == Top(World).who
             dead == \/ ~ Here(v)
                     \/ o \in Mobs /\ ~ Here(o)
                     \/ o \in Things /\ thing[o] = "queued"
             q == [stack EXCEPT ![Len(stack)].late = FALSE]
             e == [owner |-> o, victim |-> v, left |-> n, ghost |-> dead]
             X == [World EXCEPT !.script[s] = e, !.list = @ \cup {s}, !.run[o] = @ + 1,
                                !.stack[Len(stack)].late = FALSE,
                                !.walk.rest = IF walk.next = None THEN @ ELSE @ \cup {s}]
             T == UpdateScript(X, s)
  <1>1. /\ s \notin list /\ stack # <<>> /\ UNCHANGED <<char, thing>>
        /\ o \in Bodiless => super.is = o
        /\ o \in Mobs => char[o] # "gone"
    BY DEF RunScript, Busy, Proceeds
  <1>2. Becomes(T)
    BY DEF RunScript
  <1>3. o \in Owners
    BY <1>1, WorldFacts, TopFrame
  <1>4. /\ q \in Seq(Frame) /\ Len(q) = Len(stack)
        /\ \A i \in 1 .. Len(stack) : q[i].who = stack[i].who /\ q[i].line = stack[i].line
    <2>1. stack \in Seq(Frame) /\ Len(stack) \in 1 .. Len(stack)
      BY <1>1, WorldFacts DEF States
    <2> DEFINE k == Len(stack)
               f == [stack[k] EXCEPT !.late = FALSE]
    <2>2. f \in Frame /\ f.who = stack[k].who /\ f.line = stack[k].line
      <3> DEFINE g == stack[k]
      <3>1. g \in Frame
        BY <2>1
      <3>2. f = [g EXCEPT !.late = FALSE]
        OBVIOUS
      <3> HIDE DEF f, g
      <3>3. f \in Frame /\ f.who = g.who /\ f.line = g.line
        BY <3>1, <3>2 DEF Frame
      <3> QED BY <3>3 DEF g
    <2>3. q = [stack EXCEPT ![k] = f]
      OBVIOUS
    <2> HIDE DEF f, q
    <2>4. q \in Seq(Frame) /\ Len(q) = Len(stack)
      BY <2>1, <2>2, <2>3
    <2>5. \A i \in 1 .. Len(stack) : q[i] = IF i = k THEN f ELSE stack[i]
      BY <2>1, <2>3
    <2> QED BY <2>2, <2>4, <2>5
  <1>5. dead \in BOOLEAN /\ (~ dead => /\ Here(v) /\ (o \in Mobs => Here(o))
                                       /\ (o \in Things => thing[o] # "queued"))
    OBVIOUS
  <1>6. o \in Things => thing[o] # "gone"
    BY <1>1, WorldFacts, ScriptsFacts DEF Placed
  <1> HIDE DEF o, dead, q
  <1>7. e \in Script
    BY <1>3, <1>5, ScriptsFacts DEF Script
  <1>8. e.owner = o /\ e.victim = v /\ e.ghost = dead
    OBVIOUS
  <1> HIDE DEF e
  <1>9. /\ X \in States
        /\ X.list = list \cup {s} /\ X.script = [script EXCEPT ![s] = e]
        /\ X.run = [run EXCEPT ![o] = @ + 1] /\ X.curr = curr /\ X.super = super
        /\ X.listed = listed /\ X.stack = q /\ X.walk.next = walk.next
        /\ X.walk.rest \subseteq walk.rest \cup {s} /\ X.wild = wild
    <2> DEFINE f == [script EXCEPT ![s] = e]
               g == [run EXCEPT ![o] = @ + 1]
               h == IF walk.next = None THEN walk.rest ELSE walk.rest \cup {s}
    <2>1. f \in [Scripts -> Script]
      BY <1>7, WorldFacts
    <2>2. g \in [Owners -> Int]
      BY <1>3, WorldFacts
    <2>3. walk \in Walks
      BY WorldFacts DEF States
    <2>4. h \in SUBSET Scripts /\ h \subseteq walk.rest \cup {s}
      BY <2>3 DEF Walks
    <2>5. X = [World EXCEPT !.script = f, !.list = @ \cup {s}, !.run = g, !.stack = q,
                        !.walk.rest = h]
      <3>1. /\ World.script = script /\ World.run = run /\ World.walk = walk
            /\ World.stack = stack
        BY WorldFacts
      <3> HIDE DEF World
      <3> QED BY <3>1 DEF q
    <2> HIDE DEF f, g, h, X, World
    <2>6. /\ X \in States
          /\ X.list = list \cup {s} /\ X.script = f /\ X.run = g /\ X.curr = curr
          /\ X.super = super /\ X.listed = listed /\ X.stack = q
          /\ X.walk.next = walk.next /\ X.walk.rest = h /\ X.wild = wild
      BY <1>4, <2>1, <2>2, <2>3, <2>4, <2>5, WorldFacts DEF States, Walks
    <2> QED BY <2>4, <2>6 DEF f, g
  <1> HIDE DEF X
  <1>10. /\ X.script[s] = e /\ \A x \in list : X.script[x] = script[x]
         /\ X.run[o] = run[o] + 1 /\ \A x \in Owners : x # o => X.run[x] = run[x]
    BY <1>1, <1>3, <1>9, WorldFacts
  <1>11. Sound(X)
    BY <1>3, <1>8, <1>9, <1>10, WorldFacts DEF Sound
  <1>12. Living(X)
    <2>1. ~ dead => /\ Here(v) /\ (o \in Mobs => Here(o))
                    /\ (o \in Things => thing[o] \notin {"queued", "gone"})
      BY <1>5, <1>6
    <2> QED BY <1>8, <1>9, <1>10, <2>1, WorldFacts DEF Living
  <1>13. /\ \A x : x # o => OwnedBy(X, x) = OwnedBy(World, x)
         /\ OwnedBy(X, o) = OwnedBy(World, o) \cup {s}
         /\ s \notin OwnedBy(World, o)
    BY <1>1, <1>8, <1>9, <1>10, WorldFacts DEF OwnedBy
  <1>14. Cardinality(OwnedBy(X, o)) = Cardinality(OwnedBy(World, o)) + 1
    <2>1. World.list \in SUBSET Scripts
      BY WorldFacts
    <2>2. IsFiniteSet(OwnedBy(World, o))
      BY <2>1, CountType
    <2> QED BY <1>13, <2>2, FS_AddElement
  <1>15. Cardinality(OwnedBy(World, o)) \in Nat
    <2>1. World.list \in SUBSET Scripts
      BY WorldFacts
    <2> QED BY <2>1, CountType
  <1>16. run[o] \in Int /\ run[o] >= Cardinality(OwnedBy(World, o))
    BY <1>1, <1>3, <1>15, WorldFacts DEF Tallied, Owners, Bodiless
  <1>17. Tallied(X)
    <2>1. ASSUME NEW m \in Mobs, char[m] # "gone"
          PROVE  X.run[m] = Cardinality(OwnedBy(X, m))
      <3>1. World.run[m] = Cardinality(OwnedBy(World, m)) /\ m \in Owners
        BY <2>1, WorldFacts, ScriptsFacts DEF Tallied
      <3> QED BY <1>10, <1>13, <1>14, <3>1, WorldFacts
    <2>2. ASSUME NEW x \in Bodiless
          PROVE  X.run[x] >= Cardinality(OwnedBy(X, x))
      <3>1. CASE x = o
        BY <1>10, <1>14, <1>15, <1>16, <3>1
      <3>2. CASE x # o
        BY <1>10, <1>13, <3>2, WorldFacts, ScriptsFacts DEF Tallied
      <3> QED BY <3>1, <3>2
    <2> QED BY <2>1, <2>2 DEF Tallied
  <1>18. Placed(X) /\ Needed(X)
    BY <1>4, <1>9, WorldFacts DEF Placed, Needed
  <1>19. X.super.is # o => Carried(X)
    BY <1>9, <1>13, WorldFacts DEF Carried
  <1>20. X.run[o] # 0
    BY <1>10, <1>15, <1>16
  <1>21. Good(T)
    <2>1. Len(X.stack) <= MaxNest /\ s \in X.list /\ X.script[s].owner = o
      BY <1>4, <1>8, <1>9, <1>10, WorldFacts DEF Good
    <2> QED BY <1>11, <1>12, <1>17, <1>18, <1>19, <1>20, <2>1, UpdateKeeps
  <1> HIDE DEF T
  <1> QED BY <1>1, <1>2, <1>21, Unmoved

-----------------------------------------------------------------------------
(* The theorems. *)

LEMMA NextInv == IInv /\ [Next]_vars => IInv'
  <1> SUFFICES ASSUME IInv, [Next]_vars PROVE IInv'
    OBVIOUS
  <1>1. CASE UNCHANGED vars
    <2>1. World' = World /\ char' = char /\ thing' = thing
      BY <1>1 DEF vars, World
    <2> HIDE DEF World
    <2> QED BY <2>1 DEF IInv, Good, Sound, Current, Kept, Needed, Living, Tallied, Carried,
                        Placed, Here, OwnedBy
  <1>2. CASE Next
    <2>1. ~ wild
      BY <1>2 DEF Next
    <2>2. ASSUME NEW t \in Things, ThingTrigger(t) PROVE IInv'
      <3>1. t \in Bodiless /\ RoomOf(t) # None /\ Answers(t)
        BY <2>2, ScriptsFacts DEF ThingTrigger, RoomOf
      <3> QED BY <2>1, <3>1, AnswersStep
    <2>3. ASSUME NEW r \in Rooms, RoomTrigger(r) PROVE IInv'
      <3>1. r \in Bodiless /\ RoomOf(r) # None /\ Answers(r)
        BY <2>3, ScriptsFacts DEF RoomTrigger, RoomOf
      <3> QED BY <2>1, <3>1, AnswersStep
    <2>4. CASE Happening
      <3>1. ASSUME NEW s \in Scripts, NEW v \in Chars \cup {None}, NEW n \in 1 .. MaxLines,
                   RunScript(s, v, n)
            PROVE  IInv'
        BY <2>1, <3>1, RunScriptStep
      <3> QED BY <2>1, <2>2, <2>3, <2>4, <3>1, ExtractStep, ExtractThingStep, MoveStep,
                 MobTriggerStep DEF Happening
    <2>5. CASE Return
      BY <2>1, <2>5, ReturnStep
    <2>6. CASE Pulse
      BY <2>1, <2>6, WalkStep, VisitStep, CleanStep DEF Pulse
    <2>7. ASSUME NEW c \in Chars, Arrive(c) PROVE IInv'
      BY <2>1, <2>7, ArriveStep
    <2>8. ASSUME NEW t \in Things, NEW r \in Rooms, Make(t, r) PROVE IInv'
      BY <2>1, <2>8, MakeStep
    <2> QED BY <1>2, <2>4, <2>5, <2>6, <2>7, <2>8 DEF Next
  <1> QED BY <1>1, <1>2

LEMMA SpecInv == Spec => []IInv
  BY InitInv, NextInv, PTL DEF Spec

\* What the variables hold is what update_script, runscript and the triggers
\* put there; mprog_driver is never entered more than max_prog_nest times.
THEOREM ScriptsTypeCorrect == Spec => []TypeOK
  BY SpecInv, InvType, PTL

\* No script runs for an owner that was extracted, or with a victim that was,
\* unless runscript was called too late (extract_char, extract_obj, runscript).
THEOREM ScriptsAllLive == Spec => []ScriptsLive
  BY SpecInv, InvLive, PTL

\* mpscriptrun is what stopscript, update_script and the supermob make of it: the
\* count of a mob's scripts, at least that of a thing's or a room's.
THEOREM ScriptsCounted == Spec => []CountsTrue
  BY SpecInv, InvCounts, PTL

\* Whatever programs set off which others, release_supermob leaves the supermob
\* in no room between two of them.
THEOREM ScriptsPutAway == Spec => []SupermobAway
  BY SpecInv, InvAway, PTL
=============================================================================
