---------------------------- MODULE Pazaak_proofs ----------------------------
(***************************************************************************)
(* Proofs about Pazaak, for any players, purses, cards, stakes and numbers  *)
(* of faults, about the pool of the senders its challenges start, and about *)
(* things (Objects), which rest on the same lemmas about sums.              *)
(***************************************************************************)
EXTENDS Pazaak, ThreadPool, Objects, FiniteSetTheorems, TLAPS

-----------------------------------------------------------------------------
(* Sums over finite sets: what SumFunction, a fold, is.  A counterexample   *)
(* among the parts of a finite set has one that is least (Minimal), which   *)
(* takes the place of induction.                                            *)

Pick(s) == CHOOSE x \in s : TRUE
\* g is a folding of f over the parts of S.
Folds(g, f, S) ==
    g = [s \in SUBSET S |-> IF s = {} THEN 0 ELSE f[Pick(s)] + g[s \ {Pick(s)}]]

LEMMA Minimal ==
  ASSUME NEW S, IsFiniteSet(S), NEW T, T \subseteq SUBSET S, T # {}
  PROVE  \E s \in T : \A t \in T : t \subseteq s => t = s
  <1>1. IsWellFoundedOn(StrictSubsetOrdering(S), FiniteSubsetsOf(S))
    BY FS_StrictSubsetOrderingWellFounded
  <1>2. T \subseteq FiniteSubsetsOf(S)
    BY FS_Subset DEF FiniteSubsetsOf
  <1>3. PICK s \in T : \A t \in T : ~ (<<t, s>> \in StrictSubsetOrdering(S))
    BY <1>1, <1>2, WFMin
  <1>4. ASSUME NEW t \in T, t \subseteq s, t # s PROVE FALSE
    <2>1. <<t, s>> \in StrictSubsetOrdering(S)
      BY <1>4 DEF StrictSubsetOrdering
    <2> QED BY <1>3, <2>1
  <1> QED BY <1>4

\* The folding of f over the parts of S that have at most n members
FoldsTo(g, f, S, n) ==
    \A t \in SUBSET S : Cardinality(t) <= n =>
        g[t] = IF t = {} THEN 0 ELSE f[Pick(t)] + g[t \ {Pick(t)}]

LEMMA Picked ==
  ASSUME NEW S, IsFiniteSet(S), NEW t \in SUBSET S, t # {}
  PROVE  /\ Pick(t) \in t /\ t \ {Pick(t)} \in SUBSET S
         /\ t \ {Pick(t)} \subseteq t /\ t \ {Pick(t)} # t
         /\ Cardinality(t) \in Nat /\ Cardinality(t \ {Pick(t)}) = Cardinality(t) - 1
  <1>1. Pick(t) \in t
    BY DEF Pick
  <1>2. IsFiniteSet(t)
    BY FS_Subset
  <1> QED BY <1>1, <1>2, FS_RemoveElement, FS_CardinalityType

\* A sum over a finite set is well defined.
LEMMA FoldExists ==
  ASSUME NEW f, NEW S, IsFiniteSet(S)
  PROVE  \E g : Folds(g, f, S)
  <1> DEFINE Bad == {s \in SUBSET S : ~ \E g : FoldsTo(g, f, S, Cardinality(s))}
  <1>1. Bad = {}
    <2>1. SUFFICES ASSUME Bad # {} PROVE FALSE
      OBVIOUS
    <2>2. Bad \subseteq SUBSET S
      OBVIOUS
    <2> HIDE DEF Bad
    <2>3. PICK s \in Bad : \A t \in Bad : t \subseteq s => t = s
      BY <2>1, <2>2, Minimal
    <2> USE DEF Bad
    <2>4. IsFiniteSet(s) /\ Cardinality(s) \in Nat
      BY FS_Subset, FS_CardinalityType
    <2>5. CASE s = {}
      <3> DEFINE g == [t \in SUBSET S |-> 0]
      <3>1. \A t \in SUBSET S : Cardinality(t) <= 0 => t = {}
        <4>1. TAKE t \in SUBSET S
        <4>2. IsFiniteSet(t) /\ Cardinality(t) \in Nat
          BY <4>1, FS_Subset, FS_CardinalityType
        <4> QED BY <4>2, FS_EmptySet
      <3>2. Cardinality(s) = 0
        BY <2>5, FS_EmptySet
      <3>3. FoldsTo(g, f, S, Cardinality(s))
        BY <3>1, <3>2 DEF FoldsTo
      <3> QED BY <3>3
    <2>6. CASE s # {}
      <3>1. s \ {Pick(s)} \in SUBSET S /\ s \ {Pick(s)} \notin Bad
        BY <2>3, <2>6, Picked
      <3>2. PICK g : FoldsTo(g, f, S, Cardinality(s) - 1)
        BY <3>1, <2>6, Picked
      <3> DEFINE h == [t \in SUBSET S |-> IF Cardinality(t) <= Cardinality(s) - 1 THEN g[t]
                          ELSE f[Pick(t)] + g[t \ {Pick(t)}]]
      <3>3. ASSUME NEW t \in SUBSET S, Cardinality(t) <= Cardinality(s)
            PROVE  h[t] = IF t = {} THEN 0 ELSE f[Pick(t)] + h[t \ {Pick(t)}]
        <4>1. Cardinality(t) \in Nat
          BY FS_Subset, FS_CardinalityType
        <4>2. CASE t = {}
          <5>1. Cardinality(t) = 0 /\ Cardinality(s) # 0
            BY <2>4, <2>6, <4>2, FS_EmptySet
          <5>2. h[t] = g[t] /\ g[t] = 0
            <6>1. Cardinality(t) <= Cardinality(s) - 1
              BY <2>4, <5>1
            <6>2. g[t] = 0
              BY <3>2, <4>2, <6>1 DEF FoldsTo
            <6> QED BY <6>1, <6>2
          <5> QED BY <4>2, <5>2
        <4>3. CASE t # {}
          <5> DEFINE u == t \ {Pick(t)}
          <5>1. u \in SUBSET S /\ Cardinality(u) = Cardinality(t) - 1
            BY <4>3, Picked
          <5>2. h[u] = g[u]
            BY <5>1, <3>3, <4>1, <2>4
          <5>3. h[t] = f[Pick(t)] + g[u]
            <6>1. CASE Cardinality(t) <= Cardinality(s) - 1
              BY <6>1, <3>2, <4>3 DEF FoldsTo
            <6>2. CASE ~ Cardinality(t) <= Cardinality(s) - 1
              BY <6>2
            <6> QED BY <6>1, <6>2
          <5> QED BY <4>3, <5>2, <5>3
        <4> QED BY <4>2, <4>3
      <3> HIDE DEF h
      <3>4. FoldsTo(h, f, S, Cardinality(s))
        BY <3>3 DEF FoldsTo
      <3> QED BY <3>4
    <2> QED BY <2>5, <2>6
  <1>2. S \in SUBSET S /\ S \notin Bad
    BY <1>1
  <1>3. PICK g : FoldsTo(g, f, S, Cardinality(S))
    BY <1>2
  <1> DEFINE h == [t \in SUBSET S |-> g[t]]
  <1>4. ASSUME NEW t \in SUBSET S
        PROVE  h[t] = IF t = {} THEN 0 ELSE f[Pick(t)] + h[t \ {Pick(t)}]
    <2>1. Cardinality(t) <= Cardinality(S)
      BY FS_Subset
    <2>2. t \ {Pick(t)} \in SUBSET S
      OBVIOUS
    <2> QED BY <1>3, <2>1, <2>2 DEF FoldsTo
  <1>5. h = [t \in SUBSET S |-> h[t]]
    OBVIOUS
  <1> HIDE DEF h
  <1>6. Folds(h, f, S)
    <2>1. [t \in SUBSET S |-> h[t]] = [t \in SUBSET S |-> IF t = {} THEN 0 ELSE f[Pick(t)] + h[t \ {Pick(t)}]]
      BY <1>4
    <2> QED BY <1>5, <2>1 DEF Folds
  <1> QED BY <1>6

\* What a folding is at each part of S
Terms(g, f, S) ==
    \A t \in SUBSET S : g[t] = IF t = {} THEN 0 ELSE f[Pick(t)] + g[t \ {Pick(t)}]

LEMMA Folded ==
  ASSUME NEW f, NEW S, NEW g, Folds(g, f, S)
  PROVE  Terms(g, f, S)
  <1>1. SUFFICES ASSUME NEW t \in SUBSET S
                 PROVE  g[t] = IF t = {} THEN 0 ELSE f[Pick(t)] + g[t \ {Pick(t)}]
    BY DEF Terms
  <1> DEFINE k == [s \in SUBSET S |-> IF s = {} THEN 0 ELSE f[Pick(s)] + g[s \ {Pick(s)}]]
  <1>2. g = k
    BY DEF Folds
  <1>3. k[t] = IF t = {} THEN 0 ELSE f[Pick(t)] + g[t \ {Pick(t)}]
    OBVIOUS
  <1> QED BY <1>2, <1>3

\* What SumFunction is: the last value of a folding.
LEMMA SumFolds ==
  ASSUME NEW f, IsFiniteSet(DOMAIN f)
  PROVE  \E h : Terms(h, f, DOMAIN f) /\ SumFunction(f) = h[DOMAIN f]
  <1> DEFINE S == DOMAIN f
             h == CHOOSE h : Folds(h, f, S)
  <1>1. Folds(h, f, S)
    BY FoldExists
  <1>2. SumFunction(f) = h[S]
    BY DEF SumFunction, SumFunctionOnSet, FoldFunctionOnSet, MapThenFoldSet, Folds, Pick
  <1> HIDE DEF h
  <1>3. Terms(h, f, S)
    BY <1>1, Folded
  <1> QED BY <1>2, <1>3

\* The sum of integers is one.
LEMMA FoldType ==
  ASSUME NEW S, IsFiniteSet(S), NEW f \in [S -> Int], NEW g, Terms(g, f, S), NEW w \in SUBSET S
  PROVE  g[w] \in Int
  <1>1. \A t \in SUBSET S : g[t] = IF t = {} THEN 0 ELSE f[Pick(t)] + g[t \ {Pick(t)}]
    BY DEF Terms
  <1> DEFINE Bad == {s \in SUBSET S : g[s] \notin Int}
  <1>2. SUFFICES ASSUME Bad # {} PROVE FALSE
    OBVIOUS
  <1>3. Bad \subseteq SUBSET S
    OBVIOUS
  <1> HIDE DEF Bad
  <1>4. PICK s \in Bad : \A t \in Bad : t \subseteq s => t = s
    BY <1>2, <1>3, Minimal
  <1>5. s \in SUBSET S
    BY <1>3
  <1> USE DEF Bad
  <1>6. s # {}
    <2>1. s = {} => g[s] = 0
      BY <1>5, <1>1
    <2> QED BY <2>1
  <1> DEFINE p == Pick(s)
             t == s \ {p}
  <1>7. p \in s /\ t \in SUBSET S /\ t \notin Bad
    BY <1>4, <1>6, <1>5, Picked
  <1>8. g[t] \in Int /\ f[p] \in Int
    BY <1>7, <1>5
  <1>9. g[s] = f[p] + g[t]
    BY <1>6, <1>5, <1>1
  <1> QED BY <1>8, <1>9

\* Where one term is another, the sum differs by their difference.
LEMMA FoldUpdated ==
  ASSUME NEW S, IsFiniteSet(S), NEW f \in [S -> Int], NEW k \in [S -> Int], NEW i \in S,
         \A j \in S : j # i => k[j] = f[j],
         NEW g, Terms(g, f, S), NEW h, Terms(h, k, S), NEW w \in SUBSET S
  PROVE  h[w] = g[w] + (IF i \in w THEN k[i] - f[i] ELSE 0)
  <1>1. \A t \in SUBSET S : g[t] = IF t = {} THEN 0 ELSE f[Pick(t)] + g[t \ {Pick(t)}]
    BY DEF Terms
  <1>2. \A t \in SUBSET S : h[t] = IF t = {} THEN 0 ELSE k[Pick(t)] + h[t \ {Pick(t)}]
    BY DEF Terms
  <1> DEFINE Bad == {s \in SUBSET S : h[s] # g[s] + (IF i \in s THEN k[i] - f[i] ELSE 0)}
  <1>3. SUFFICES ASSUME Bad # {} PROVE FALSE
    OBVIOUS
  <1>4. Bad \subseteq SUBSET S
    OBVIOUS
  <1> HIDE DEF Bad
  <1>5. PICK s \in Bad : \A t \in Bad : t \subseteq s => t = s
    BY <1>3, <1>4, Minimal
  <1>6. s \in SUBSET S
    BY <1>4
  <1> USE DEF Bad
  <1>7. s # {}
    <2>1. s = {} => g[s] = 0 /\ h[s] = 0
      BY <1>6, <1>1, <1>2
    <2> QED BY <2>1
  <1> DEFINE p == Pick(s)
             t == s \ {p}
  <1>8. p \in s /\ t \in SUBSET S /\ t \notin Bad
    BY <1>5, <1>7, Picked
  <1>9. g[t] \in Int /\ h[t] \in Int /\ f[p] \in Int /\ k[p] \in Int /\ f[i] \in Int /\ k[i] \in Int
    BY <1>8, FoldType
  <1>10. h[s] = k[p] + h[t] /\ g[s] = f[p] + g[t]
    BY <1>7, <1>6, <1>8, <1>1, <1>2
  <1>11. h[t] = g[t] + (IF i \in t THEN k[i] - f[i] ELSE 0)
    BY <1>8
  <1> HIDE DEF p
  <1>12. CASE i = p
    BY <1>5, <1>8, <1>9, <1>10, <1>11, <1>12
  <1>13. CASE i # p
    <2>1. k[p] = f[p] /\ (i \in s <=> i \in t)
      BY <1>8, <1>13
    <2> QED BY <1>5, <1>8, <1>9, <1>10, <1>11, <2>1
  <1> QED BY <1>12, <1>13

\* Of smaller terms the sum is smaller.
LEMMA FoldSmaller ==
  ASSUME NEW S, IsFiniteSet(S), NEW f \in [S -> Int], NEW k \in [S -> Int],
         \A j \in S : f[j] <= k[j],
         NEW g, Terms(g, f, S), NEW h, Terms(h, k, S), NEW w \in SUBSET S
  PROVE  g[w] <= h[w]
  <1>1. \A t \in SUBSET S : g[t] = IF t = {} THEN 0 ELSE f[Pick(t)] + g[t \ {Pick(t)}]
    BY DEF Terms
  <1>2. \A t \in SUBSET S : h[t] = IF t = {} THEN 0 ELSE k[Pick(t)] + h[t \ {Pick(t)}]
    BY DEF Terms
  <1> DEFINE Bad == {s \in SUBSET S : ~ g[s] <= h[s]}
  <1>3. SUFFICES ASSUME Bad # {} PROVE FALSE
    OBVIOUS
  <1>4. Bad \subseteq SUBSET S
    OBVIOUS
  <1> HIDE DEF Bad
  <1>5. PICK s \in Bad : \A t \in Bad : t \subseteq s => t = s
    BY <1>3, <1>4, Minimal
  <1>6. s \in SUBSET S
    BY <1>4
  <1> USE DEF Bad
  <1>7. s # {}
    <2>1. s = {} => g[s] = 0 /\ h[s] = 0
      BY <1>6, <1>1, <1>2
    <2> QED BY <2>1
  <1> DEFINE p == Pick(s)
             t == s \ {p}
  <1>8. p \in s /\ t \in SUBSET S /\ t \notin Bad
    BY <1>5, <1>7, Picked
  <1>9. g[t] \in Int /\ h[t] \in Int /\ f[p] \in Int /\ k[p] \in Int /\ f[p] <= k[p]
    BY <1>8, FoldType
  <1>10. h[s] = k[p] + h[t] /\ g[s] = f[p] + g[t]
    BY <1>7, <1>6, <1>8, <1>1, <1>2
  <1>11. g[t] <= h[t]
    BY <1>8
  <1> HIDE DEF p
  <1> QED BY <1>5, <1>9, <1>10, <1>11

\* The sum of equal terms is their product with their number.
LEMMA FoldEqual ==
  ASSUME NEW S, IsFiniteSet(S), NEW n \in Int, NEW f \in [S -> Int], \A j \in S : f[j] = n,
         NEW g, Terms(g, f, S), NEW w \in SUBSET S
  PROVE  g[w] = n * Cardinality(w)
  <1>1. \A t \in SUBSET S : g[t] = IF t = {} THEN 0 ELSE f[Pick(t)] + g[t \ {Pick(t)}]
    BY DEF Terms
  <1> DEFINE Bad == {s \in SUBSET S : g[s] # n * Cardinality(s)}
  <1>2. SUFFICES ASSUME Bad # {} PROVE FALSE
    OBVIOUS
  <1>3. Bad \subseteq SUBSET S
    OBVIOUS
  <1> HIDE DEF Bad
  <1>4. PICK s \in Bad : \A t \in Bad : t \subseteq s => t = s
    BY <1>2, <1>3, Minimal
  <1>5. s \in SUBSET S
    BY <1>3
  <1> USE DEF Bad
  <1>6. s # {}
    <2>1. Cardinality({}) = 0 /\ n * 0 = 0
      BY FS_EmptySet
    <2> QED BY <1>5, <2>1, <1>1
  <1> DEFINE p == Pick(s)
             t == s \ {p}
  <1>7. /\ p \in s /\ t \in SUBSET S /\ t \notin Bad
        /\ Cardinality(s) \in Nat /\ Cardinality(t) = Cardinality(s) - 1
    BY <1>4, <1>6, Picked
  <1>8. g[s] = n + g[t] /\ g[t] = n * Cardinality(t)
    <2>1. g[s] = f[p] + g[t]
      BY <1>6, <1>5, <1>1
    <2>2. f[p] = n
      BY <1>7, <1>5
    <2>3. g[t] = n * Cardinality(t)
      BY <1>7
    <2> QED BY <2>1, <2>2, <2>3
  <1>9. \A m \in Nat : n + n * (m - 1) = n * m
    OBVIOUS
  <1> HIDE DEF p
  <1> QED BY <1>4, <1>7, <1>8, <1>9

-----------------------------------------------------------------------------
(* Sums. *)

LEMMA SumType ==
  ASSUME NEW S, IsFiniteSet(S), NEW f \in [S -> Int]
  PROVE  SumFunction(f) \in Int
  BY SumFolds, FoldType

LEMMA SumUpdated ==
  ASSUME NEW S, IsFiniteSet(S), NEW f \in [S -> Int], NEW k \in [S -> Int], NEW i \in S,
         \A j \in S : j # i => k[j] = f[j]
  PROVE  SumFunction(k) = SumFunction(f) + k[i] - f[i]
  <1>1. PICK g : Terms(g, f, S) /\ SumFunction(f) = g[S]
    BY SumFolds
  <1>2. PICK h : Terms(h, k, S) /\ SumFunction(k) = h[S]
    BY SumFolds
  <1>3. h[S] = g[S] + (IF i \in S THEN k[i] - f[i] ELSE 0)
    BY <1>1, <1>2, FoldUpdated
  <1>4. g[S] \in Int /\ f[i] \in Int /\ k[i] \in Int
    BY <1>1, FoldType
  <1> QED BY <1>1, <1>2, <1>3, <1>4

LEMMA SumSmaller ==
  ASSUME NEW S, IsFiniteSet(S), NEW f \in [S -> Int], NEW k \in [S -> Int],
         \A j \in S : f[j] <= k[j]
  PROVE  SumFunction(f) <= SumFunction(k)
  <1>1. PICK g : Terms(g, f, S) /\ SumFunction(f) = g[S]
    BY SumFolds
  <1>2. PICK h : Terms(h, k, S) /\ SumFunction(k) = h[S]
    BY SumFolds
  <1> QED BY <1>1, <1>2, FoldSmaller

LEMMA SumEqual ==
  ASSUME NEW S, IsFiniteSet(S), NEW n \in Int, NEW f \in [S -> Int], \A j \in S : f[j] = n
  PROVE  SumFunction(f) = n * Cardinality(S)
  <1>1. PICK g : Terms(g, f, S) /\ SumFunction(f) = g[S]
    BY SumFolds
  <1> QED BY <1>1, FoldEqual

-----------------------------------------------------------------------------

LEMMA PazaakFacts ==
    /\ \A r \in Stakes : r \in Nat /\ r > 0
    /\ None \notin Players /\ Members \subseteq Players
    /\ Gold \in Nat /\ Cards \in [Players -> Nat] /\ MinCards \in Nat /\ MaxFaults \in Nat
  BY PazaakAssumption

USE PazaakFacts

-----------------------------------------------------------------------------
(* Lemmas on the helpers. *)

LEMMA PairParts == \A c \in Pairs : c[1] \in Players /\ c[2] \in Players
  BY DEF Pairs

LEMMA Parts ==
  ASSUME TypeOK, NEW p \in Players
  PROVE  /\ own[p].gold \in Nat /\ own[p].hand \in Nat /\ own[p].inside \in Nat
         /\ deck[p] \in Nat /\ account[p] \in Int /\ account[p] >= -1
  BY DEF TypeOK, Own

\* Whoever pays what he has, or is paid, has a purse afterwards and a file.
LEMMA PaidTyped ==
  ASSUME TypeOK, NEW p \in Players, NEW r \in Int, r <= own[p].gold, Paid(p, r)
  PROVE  own' \in [Players -> Own] /\ file' \in [Players -> Own]
  <1> DEFINE o == [own[p] EXCEPT !.gold = own[p].gold - r]
  <1>1. own[p] \in Own
    BY DEF TypeOK
  <1>2. o \in Own
    BY <1>1 DEF Own
  <1>3. own' = [own EXCEPT ![p] = o]
    BY DEF Paid
  <1> HIDE DEF o
  <1>4. own' \in [Players -> Own] /\ own'[p] \in Own
    BY <1>2, <1>3 DEF TypeOK
  <1> QED BY <1>4 DEF TypeOK, Paid

\* Cards that change their place stay numbers.
LEMMA CardsTyped ==
  ASSUME TypeOK, NEW p \in Players, NEW n \in Int, NEW k \in Nat, own[p].hand + n >= 0,
         NEW command, Moved(p, n, k), Saved(p, command)
  PROVE  own' \in [Players -> Own] /\ file' \in [Players -> Own]
  <1> DEFINE o == [gold |-> own[p].gold, hand |-> own[p].hand + n, inside |-> own[p].inside + k]
  <1>1. own[p] \in Own
    BY DEF TypeOK
  <1>2. o \in Own
    BY <1>1 DEF Own
  <1>3. own' = [own EXCEPT ![p] = o]
    BY DEF Moved
  <1> HIDE DEF o
  <1>4. own' \in [Players -> Own] /\ own'[p] \in Own
    BY <1>2, <1>3 DEF TypeOK
  <1> QED BY <1>4 DEF TypeOK, Saved

LEMMA FaultTyped ==
  ASSUME TypeOK, NEW kind \in {"crash", "inside", "commit"}, Fault(kind)
  PROVE  faults' \in Seq({"crash", "inside", "commit"}) /\ Len(faults') <= MaxFaults
  BY DEF TypeOK, Fault

LEMMA OpenPairs == ASSUME NEW g PROVE Open(g) \subseteq Pairs /\ (listed \subseteq Pairs => Loaded(g) \subseteq Pairs)
  BY DEF Open, Loaded

LEMMA RestartedTyped ==
  ASSUME TypeOK, Restarted
  PROVE  /\ own' \in [Players -> Own]
         /\ challenge' \in [Pairs -> Stakes \cup {0}]
         /\ listed' \subseteq Pairs
         /\ voided' \in [Pairs -> Nat]
  <1>1. \A c \in Pairs : challenge[c] \in Nat /\ voided[c] \in Nat
    <2>1. TAKE c \in Pairs
    <2>2. challenge[c] \in Stakes \cup {0}
      BY DEF TypeOK
    <2> QED BY <2>2 DEF TypeOK
  <1>2. listed' \subseteq Pairs
    BY DEF Restarted, Open
  <1> QED BY <1>1, <1>2 DEF TypeOK, Restarted

\* The row an acceptance writes is one of a game that is played.
LEMMA RowTyped ==
  ASSUME TypeOK, NEW c \in Pairs, Accepts(c)
  PROVE  /\ Row(c) \in [Pairs -> [stake : Stakes \cup {0}, winner : Players \cup {None}]]
         /\ \A d \in Pairs : Row(c)[d].winner \in {d[1], d[2], None}
         /\ challenge[c] \in Nat /\ challenge[c] <= own[c[2]].gold
  BY DEF TypeOK, Row, Accepts, NoGame, Affords

-----------------------------------------------------------------------------
(* Type correctness. *)

LEMMA TypeStep == TypeOK /\ [Next]_vars => TypeOK'
  <1> SUFFICES ASSUME TypeOK, [Next]_vars PROVE TypeOK'
    OBVIOUS
  <1> USE PairParts, OpenPairs
  <1>1. ASSUME NEW c \in Pairs, NEW r \in Stakes, Challenge(c, r) PROVE TypeOK'
    <2>1. own' \in [Players -> Own] /\ file' \in [Players -> Own]
      BY <1>1, Parts, PaidTyped DEF Challenge, Affords
    <2> QED BY <1>1, <2>1 DEF Challenge, TypeOK
  <1>2. ASSUME NEW c \in Pairs, Accept(c) PROVE TypeOK'
    <2>1. own' \in [Players -> Own] /\ file' \in [Players -> Own]
      BY <1>2, PaidTyped, RowTyped DEF Accept
    <2> QED BY <1>2, <2>1, RowTyped DEF Accept, TypeOK
  <1>3. ASSUME NEW c \in Pairs, AcceptUncommitted(c) PROVE TypeOK'
    <2>1. own' \in [Players -> Own] /\ file' \in [Players -> Own]
      BY <1>3, PaidTyped, RowTyped DEF AcceptUncommitted
    <2> QED BY <1>3, <2>1, FaultTyped DEF AcceptUncommitted, TypeOK
  <1>4. ASSUME NEW c \in Pairs, AcceptCrash(c) PROVE TypeOK'
    BY <1>4, RowTyped, RestartedTyped, FaultTyped DEF AcceptCrash, TypeOK
  <1>5. ASSUME NEW c \in Pairs, Decide(c) PROVE TypeOK'
    <2>1. PICK w \in {c[1], c[2]} :
             /\ game' = [game EXCEPT ![c].winner = w]
             /\ account' = [account EXCEPT ![w] = @ + game[c].stake]
      BY <1>5 DEF Decide
    <2>2. game[c].stake \in Nat /\ game[c].stake # 0
      BY <1>5 DEF Decide, Open, TypeOK
    <2>3. account' \in [Players -> Nat \cup {-1}]
      <3>1. w \in Players /\ account[w] \in Int /\ account[w] >= -1
        BY <2>1, Parts
      <3>2. account[w] + game[c].stake \in Nat
        BY <2>2, <3>1
      <3> QED BY <2>1, <3>2 DEF TypeOK
    <2>4. /\ game' \in [Pairs -> [stake : Stakes \cup {0}, winner : Players \cup {None}]]
          /\ \A d \in Pairs : game'[d].winner \in {d[1], d[2], None}
      <3> DEFINE g == [game[c] EXCEPT !.winner = w]
      <3>1. game[c] \in [stake : Stakes \cup {0}, winner : Players \cup {None}]
        BY DEF TypeOK
      <3>2. /\ g \in [stake : Stakes \cup {0}, winner : Players \cup {None}]
            /\ g.winner = w
        BY <2>1, <3>1
      <3>3. game' = [game EXCEPT ![c] = g]
        BY <2>1
      <3> HIDE DEF g
      <3>4. game' \in [Pairs -> [stake : Stakes \cup {0}, winner : Players \cup {None}]]
        BY <3>2, <3>3 DEF TypeOK
      <3>5. ASSUME NEW d \in Pairs PROVE game'[d].winner \in {d[1], d[2], None}
        <4>1. CASE d = c
          <5>1. game'[d] = g
            BY <3>3, <4>1 DEF TypeOK
          <5> QED BY <5>1, <4>1, <3>2, <2>1
        <4>2. CASE d # c
          <5>1. game'[d] = game[d]
            BY <3>3, <4>2 DEF TypeOK
          <5> QED BY <5>1 DEF TypeOK
        <4> QED BY <4>1, <4>2
      <3> QED BY <3>4, <3>5
    <2> QED BY <1>5, <2>3, <2>4 DEF Decide, TypeOK, memory
  <1>6. ASSUME NEW p \in Players, SetPassword(p) PROVE TypeOK'
    BY <1>6 DEF SetPassword, TypeOK, memory
  <1>7. ASSUME NEW p \in Players, Withdraw(p) PROVE TypeOK'
    <2>1. own' \in [Players -> Own] /\ file' \in [Players -> Own]
      BY <1>7, Parts, PaidTyped DEF Withdraw
    <2> QED BY <1>7, <2>1 DEF Withdraw, TypeOK
  <1>8. ASSUME NEW p \in Players, WithdrawUncommitted(p) PROVE TypeOK'
    <2>1. own' \in [Players -> Own] /\ file' \in [Players -> Own]
      BY <1>8, Parts, PaidTyped DEF WithdrawUncommitted
    <2> QED BY <1>8, <2>1, FaultTyped DEF WithdrawUncommitted, TypeOK
  <1>9. ASSUME NEW p \in Players, WithdrawCrash(p) PROVE TypeOK'
    BY <1>9, RestartedTyped, FaultTyped DEF WithdrawCrash, TypeOK
  <1>10. ASSUME NEW p \in Players, PutCard(p) PROVE TypeOK'
    <2>1. own' \in [Players -> Own] /\ file' \in [Players -> Own]
      <3>1. own[p].hand + (-1) >= 0 /\ Moved(p, -1, 0) /\ Saved(p, "put")
        BY <1>10, Parts DEF PutCard
      <3> QED BY <3>1, CardsTyped
    <2>2. deck' \in [Players -> Nat]
      BY <1>10, Parts DEF PutCard, TypeOK
    <2> QED BY <1>10, <2>1, <2>2 DEF PutCard, TypeOK
  <1>11. ASSUME NEW p \in Players, PutStack(p) PROVE TypeOK'
    <2>1. own' \in [Players -> Own] /\ file' \in [Players -> Own]
      <3>1. PICK n \in 2 .. own[p].hand : Moved(p, - n, n)
        BY <1>11 DEF PutStack
      <3>2. own[p].hand \in Nat
        BY DEF TypeOK, Own
      <3>3. Saved(p, "put")
        BY <1>11 DEF PutStack
      <3>4. - n \in Int /\ n \in Nat /\ own[p].hand + (- n) >= 0
        BY <3>2
      <3> QED BY <3>1, <3>3, <3>4, CardsTyped
    <2> QED BY <1>11, <2>1 DEF PutStack, TypeOK
  <1>12. ASSUME NEW p \in Players, GetCard(p) PROVE TypeOK'
    <2>1. own' \in [Players -> Own] /\ file' \in [Players -> Own]
      <3>1. own[p].hand + 1 >= 0 /\ Moved(p, 1, 0) /\ Saved(p, "get")
        BY <1>12, Parts DEF GetCard
      <3> QED BY <3>1, CardsTyped
    <2>2. deck' \in [Players -> Nat]
      BY <1>12, Parts DEF GetCard, TypeOK
    <2> QED BY <1>12, <2>1, <2>2 DEF GetCard, TypeOK
  <1>13. ASSUME NEW p \in Players, CardUncommitted(p) PROVE TypeOK'
    <2>1. own' \in [Players -> Own] /\ file' \in [Players -> Own]
      BY <1>13, Parts, CardsTyped DEF CardUncommitted
    <2> QED BY <1>13, <2>1, FaultTyped DEF CardUncommitted, TypeOK
  <1>14. ASSUME NEW p \in Players, Save(p) PROVE TypeOK'
    BY <1>14 DEF Save, TypeOK, memory
  <1>15. CASE ServerLoads
    BY <1>15 DEF ServerLoads, TypeOK, memory, disk
  <1>16. CASE Crash
    BY <1>16, RestartedTyped, FaultTyped DEF Crash, TypeOK, disk
  <1>17. CASE UNCHANGED vars
    BY <1>17 DEF TypeOK, vars, memory, disk
  <1> QED
    BY <1>1, <1>2, <1>3, <1>4, <1>5, <1>6, <1>7, <1>8, <1>9, <1>10, <1>11, <1>12, <1>13,
       <1>14, <1>15, <1>16, <1>17 DEF Next

\* What everybody has stays a number: no purse, account or deck is overdrawn,
\* by any order of commands, decisions, lost commits and crashes.
THEOREM PazaakTypeCorrect == Spec => []TypeOK
  <1>1. Init => TypeOK
    BY DEF Init, TypeOK, Own, NoGame, Pairs
  <1> QED BY <1>1, TypeStep, PTL DEF Spec
-----------------------------------------------------------------------------
(* The list of games. *)

LEMMA OpenMonotone ==
  ASSUME TypeOK, NEW c \in Pairs, Decide(c) PROVE Open(game') \subseteq Open(game)
  BY DEF TypeOK, Decide, Open

LEMMA ListedStep == TypeOK /\ GamesListed /\ [Next]_vars => GamesListed'
  <1> SUFFICES ASSUME TypeOK, GamesListed, [Next]_vars PROVE GamesListed'
    OBVIOUS
  <1>1. ASSUME game' = game, listed' = listed PROVE GamesListed'
    BY <1>1 DEF GamesListed, Open
  <1>2. ASSUME Restarted PROVE GamesListed'
    BY <1>2 DEF Restarted, GamesListed
  <1>3. ASSUME NEW c \in Pairs, Accept(c) PROVE GamesListed'
    <2>1. listed' = IF Open(game') = {} THEN listed ELSE Open(game')
      BY <1>3 DEF Accept, Loaded
    <2> QED BY <2>1 DEF GamesListed
  <1>4. ASSUME NEW c \in Pairs, AcceptUncommitted(c) PROVE GamesListed'
    <2>1. game' = game /\ listed' \in {listed, IF Open(game) = {} THEN listed ELSE Open(game)}
      BY <1>4 DEF AcceptUncommitted, Loaded
    <2>2. Open(game') = Open(game)
      BY <2>1 DEF Open
    <2> QED BY <2>1, <2>2 DEF GamesListed
  <1>5. ASSUME NEW c \in Pairs, Decide(c) PROVE GamesListed'
    <2>1. Open(game') \subseteq Open(game)
      BY <1>5, OpenMonotone
    <2>2. listed' = listed
      BY <1>5 DEF Decide, memory
    <2> QED BY <2>1, <2>2 DEF GamesListed
  <1>6. ASSUME NEW c \in Pairs, AcceptCrash(c) PROVE GamesListed'
    BY <1>2, <1>6 DEF AcceptCrash
  <1>7. ASSUME NEW p \in Players, WithdrawCrash(p) PROVE GamesListed'
    BY <1>2, <1>7 DEF WithdrawCrash
  <1>8. CASE Crash
    BY <1>2, <1>8 DEF Crash
  <1>9. ASSUME NEW c \in Pairs, NEW r \in Stakes, Challenge(c, r) PROVE GamesListed'
    BY <1>1, <1>9 DEF Challenge
  <1>10. ASSUME NEW p \in Players,
                \/ SetPassword(p) \/ Withdraw(p) \/ WithdrawUncommitted(p)
                \/ PutCard(p) \/ PutStack(p) \/ GetCard(p) \/ CardUncommitted(p) \/ Save(p)
         PROVE  GamesListed'
    BY <1>1, <1>10 DEF SetPassword, Withdraw, WithdrawUncommitted, PutCard, PutStack, GetCard,
                       CardUncommitted, Save, memory
  <1>11. CASE ServerLoads \/ UNCHANGED vars
    BY <1>1, <1>11 DEF ServerLoads, vars, memory, disk
  <1> QED
    BY <1>3, <1>4, <1>5, <1>6, <1>7, <1>8, <1>9, <1>10, <1>11 DEF Next

\* The list of games never lacks one that is played, for any number of players
\* and games, though loadGames does not clear a list when no game is open.
THEOREM PazaakGamesListed == Spec => []GamesListed
  <1>1. Init => GamesListed
    BY DEF Init, GamesListed, Open, NoGame
  <1>2. Init => TypeOK
    BY DEF Init, TypeOK, Own, NoGame, Pairs
  <1> QED BY <1>1, <1>2, TypeStep, ListedStep, PTL DEF Spec

-----------------------------------------------------------------------------
(* The cards. *)

\* Whoever has an account keeps it, and as long as nothing went wrong the cards
\* of each are in his hand, in his deck's rows or shut in the deck.
CardsInv ==
    /\ \A p \in Members : Registered(p)
    /\ CardsKept

\* A player of whom nothing is touched keeps his cards.
LEMMA CardsStay ==
  ASSUME CardsInv, own' = own, deck' = deck, account' = account, faults' = faults
  PROVE  CardsInv'
  BY DEF CardsInv, CardsKept, Registered

\* With a fault behind there is nothing to claim but the accounts.
LEMMA CardsFaulted ==
  ASSUME TypeOK, CardsInv, NEW kind \in {"crash", "inside", "commit"}, Fault(kind),
         \A p \in Members : account'[p] = account[p] \/ account'[p] = 0
  PROVE  CardsInv'
  <1>1. faults' # <<>>
    BY DEF Fault, TypeOK
  <1>2. \A p \in Members : Registered(p)'
    BY DEF CardsInv, Registered
  <1> QED BY <1>1, <1>2 DEF CardsInv, CardsKept

\* Gold that goes to or from a purse leaves the cards alone.
LEMMA CardsPaid ==
  ASSUME TypeOK, CardsInv, NEW p \in Players, NEW r, Paid(p, r), deck' = deck, faults' = faults,
         \A q \in Members : account'[q] = account[q] \/ account'[q] = 0
  PROVE  CardsInv'
  <1>1. \A q \in Players : own'[q].hand = own[q].hand /\ own'[q].inside = own[q].inside
    <2>1. ASSUME NEW q \in Players, q # p PROVE own'[q] = own[q]
      BY <2>1 DEF Paid, TypeOK
    <2>2. own'[p] = [own[p] EXCEPT !.gold = own[p].gold - r]
      BY DEF Paid, TypeOK
    <2>3. own[p] \in Own
      BY DEF TypeOK
    <2>4. own'[p].hand = own[p].hand /\ own'[p].inside = own[p].inside
      BY <2>2, <2>3 DEF Own
    <2> QED BY <2>1, <2>4
  <1>2. \A q \in Members : Registered(q)'
    BY DEF CardsInv, Registered
  <1> QED BY <1>1, <1>2 DEF CardsInv, CardsKept

\* The rows of p's deck become m more, or fewer.
Rows(p, m) == deck' = [deck EXCEPT ![p] = @ + m]

\* Cards that move between the hand, the rows and the inside of a deck.
LEMMA CardsMoved ==
  ASSUME TypeOK, CardsInv, NEW p \in Players, NEW n \in Int, NEW k \in Nat, NEW m \in Int,
         Moved(p, n, k), Rows(p, m),
         account' = account, faults' = faults,
         n + k + m <= 0, Registered(p) => n + k + m = 0
  PROVE  CardsInv'
  <1> DEFINE all(q) == own[q].hand + own[q].inside + deck[q]
             after(q) == own'[q].hand + own'[q].inside + deck'[q]
  <1>1. \A q \in Members : Registered(q)'
    BY DEF CardsInv, Registered
  <1>2. ASSUME NEW q \in Players, q # p PROVE after(q) = all(q)
    BY <1>2 DEF Moved, Rows, TypeOK
  <1>3. after(p) = all(p) + n + k + m
    <2>1. own'[p].hand = own[p].hand + n /\ own'[p].inside = own[p].inside + k
      BY DEF Moved, TypeOK
    <2>2. deck'[p] = deck[p] + m
      BY DEF Rows, TypeOK
    <2> QED BY <2>1, <2>2, Parts
  <1>4. SUFFICES ASSUME faults = <<>>, NEW q \in Players
                 PROVE  after(q) <= Cards[q] /\ (q \in Members => after(q) = Cards[q])
    BY <1>1 DEF CardsInv, CardsKept
  <1>5. all(q) <= Cards[q] /\ (q \in Members => all(q) = Cards[q])
    BY <1>4 DEF CardsInv, CardsKept
  <1>6. all(q) \in Int /\ Cards[q] \in Int
    BY Parts
  <1>7. CASE q # p
    BY <1>2, <1>5, <1>7
  <1>8. CASE q = p
    <2>1. q \in Members => n + k + m = 0
      BY <1>8 DEF CardsInv
    <2> HIDE DEF all, after
    <2> QED BY <1>3, <1>5, <1>6, <1>8, <2>1
  <1> QED BY <1>7, <1>8

LEMMA CardsStep == TypeOK /\ CardsInv /\ [Next]_vars => CardsInv'
  <1> SUFFICES ASSUME TypeOK, CardsInv, [Next]_vars PROVE CardsInv'
    OBVIOUS
  <1> USE PairParts, Parts
  <1>1. ASSUME NEW c \in Pairs, NEW r \in Stakes, Challenge(c, r) PROVE CardsInv'
    BY <1>1, CardsPaid DEF Challenge
  <1>2. ASSUME NEW c \in Pairs, Accept(c) PROVE CardsInv'
    BY <1>2, CardsPaid DEF Accept
  <1>3. ASSUME NEW c \in Pairs, AcceptUncommitted(c) PROVE CardsInv'
    BY <1>3, CardsFaulted DEF AcceptUncommitted
  <1>4. ASSUME NEW c \in Pairs, AcceptCrash(c) PROVE CardsInv'
    BY <1>4, CardsFaulted DEF AcceptCrash
  <1>5. ASSUME NEW c \in Pairs, Decide(c) PROVE CardsInv'
    <2>1. PICK w \in Players : account' = [account EXCEPT ![w] = @ + game[c].stake]
      BY <1>5 DEF Decide
    <2>2. game[c].stake \in Nat
      BY DEF TypeOK
    <2>3. \A p \in Members : Registered(p)'
      BY <2>1, <2>2 DEF CardsInv, Registered, TypeOK
    <2> QED BY <1>5, <2>3 DEF Decide, CardsInv, CardsKept, memory
  <1>6. ASSUME NEW p \in Players, SetPassword(p) PROVE CardsInv'
    <2>1. \A q \in Members : Registered(q)'
      BY <1>6 DEF SetPassword, CardsInv, Registered, TypeOK
    <2> QED BY <1>6, <2>1 DEF SetPassword, CardsInv, CardsKept, memory
  <1>7. ASSUME NEW p \in Players, Withdraw(p) PROVE CardsInv'
    <2>1. \A q \in Members : account'[q] = account[q] \/ account'[q] = 0
      BY <1>7 DEF Withdraw, TypeOK
    <2> QED BY <1>7, <2>1, CardsPaid DEF Withdraw
  <1>8. ASSUME NEW p \in Players, WithdrawUncommitted(p) PROVE CardsInv'
    BY <1>8, CardsFaulted DEF WithdrawUncommitted
  <1>9. ASSUME NEW p \in Players, WithdrawCrash(p) PROVE CardsInv'
    <2>1. \A q \in Members : account'[q] = account[q] \/ account'[q] = 0
      BY <1>9 DEF WithdrawCrash, TypeOK
    <2> QED BY <1>9, <2>1, CardsFaulted DEF WithdrawCrash
  <1>10. ASSUME NEW p \in Players, PutCard(p) PROVE CardsInv'
    <2>1. CASE Registered(p)
      <3>1. Moved(p, -1, 0) /\ Rows(p, 1)
        BY <1>10, <2>1 DEF PutCard, Rows
      <3>2. account' = account /\ faults' = faults /\ (-1) + 0 + 1 = 0
        BY <1>10 DEF PutCard
      <3> QED BY <3>1, <3>2, CardsMoved
    <2>2. CASE ~ Registered(p)
      <3>1. Moved(p, -1, 0) /\ Rows(p, 0)
        BY <1>10, <2>2 DEF PutCard, Rows
      <3>2. account' = account /\ faults' = faults /\ (-1) + 0 + 0 <= 0
        BY <1>10 DEF PutCard
      <3> QED BY <2>2, <3>1, <3>2, CardsMoved
    <2> QED BY <2>1, <2>2
  <1>11. ASSUME NEW p \in Players, PutStack(p) PROVE CardsInv'
    <2>1. PICK n \in 2 .. own[p].hand : Moved(p, - n, n)
      BY <1>11 DEF PutStack
    <2>2. Rows(p, 0)
      BY <1>11 DEF PutStack, TypeOK, Rows
    <2>3. n \in Nat /\ - n \in Int /\ - n + n + 0 = 0
      BY <2>1
    <2>4. account' = account /\ faults' = faults
      BY <1>11 DEF PutStack
    <2> QED BY <2>1, <2>2, <2>3, <2>4, CardsMoved
  <1>12. ASSUME NEW p \in Players, GetCard(p) PROVE CardsInv'
    <2>1. Moved(p, 1, 0) /\ Rows(p, -1)
      BY <1>12 DEF GetCard, TypeOK, Rows
    <2>2. account' = account /\ faults' = faults /\ 1 + 0 + (-1) = 0
      BY <1>12 DEF GetCard
    <2>3. PICK m \in Int : m = -1
      OBVIOUS
    <2>4. Rows(p, m) /\ 1 + 0 + m = 0 /\ 1 + 0 + m <= 0
      BY <2>1, <2>3
    <2> QED BY <2>1, <2>2, <2>4, CardsMoved
  <1>13. ASSUME NEW p \in Players, CardUncommitted(p) PROVE CardsInv'
    BY <1>13, CardsFaulted DEF CardUncommitted
  <1>14. ASSUME NEW p \in Players, Save(p) PROVE CardsInv'
    BY <1>14, CardsStay DEF Save, memory
  <1>15. CASE ServerLoads
    BY <1>15, CardsStay DEF ServerLoads, memory, disk
  <1>16. CASE Crash
    BY <1>16, CardsFaulted DEF Crash, disk
  <1>17. CASE UNCHANGED vars
    BY <1>17, CardsStay DEF vars, memory, disk
  <1> QED
    BY <1>1, <1>2, <1>3, <1>4, <1>5, <1>6, <1>7, <1>8, <1>9, <1>10, <1>11, <1>12, <1>13,
       <1>14, <1>15, <1>16, <1>17 DEF Next

\* Without faults no card is made, and none of one who had an account is lost,
\* however single cards and stacks go in and out of the decks of any players.
THEOREM PazaakCardsKept == Spec => []CardsKept
  <1>1. Init => TypeOK
    BY DEF Init, TypeOK, Own, NoGame, Pairs
  <1>2. Init => CardsInv
    BY DEF Init, CardsInv, CardsKept, Registered
  <1>3. CardsInv => CardsKept
    BY DEF CardsInv
  <1> QED BY <1>1, <1>2, <1>3, TypeStep, CardsStep, PTL DEF Spec

-----------------------------------------------------------------------------
(* The gold. *)

\* Who plays has an account.
Entitled == \A c \in Pairs : c \in Open(game) => Registered(c[1]) /\ Registered(c[2])

GoldFiled == \A p \in Players : file[p].gold = own[p].gold

\* What is in purses, accounts, games and challenges
Purses == SumFunction([p \in Players |-> Worth(p)])
Prizes == SumFunction([c \in Pairs |-> Prize(c)])
Challenged == SumFunction([c \in Pairs |-> challenge[c]])
Covered == Purses + Prizes + Challenged <= Gold * Cardinality(Players)

MoneyInv ==
    /\ Entitled
    /\ GoldFiled
    /\ ~ Met("inside") /\ ~ Met("commit") => BooksBalance
    /\ ~ Met("commit") => Covered

LEMMA FinitePlayers == IsFiniteSet(Players) /\ IsFiniteSet(Pairs)
  BY PazaakAssumption, FS_Product DEF Pairs

\* Every term of the sums is a number.
TermsTyped ==
    /\ \A p \in Players : Worth(p) \in Int
    /\ \A p \in Players, q \in Players : StakedOn(p, q) \in Int
    /\ \A p \in Players, c \in Pairs : WonIn(p, c) \in Int
    /\ \A c \in Pairs : Prize(c) \in Nat /\ challenge[c] \in Nat /\ game[c].stake \in Nat

LEMMA TermTypes == TypeOK => TermsTyped
  <1> SUFFICES ASSUME TypeOK PROVE TermsTyped
    OBVIOUS
  <1>1. ASSUME NEW c \in Pairs PROVE challenge[c] \in Nat /\ game[c].stake \in Nat /\ voided[c] \in Nat
    <2>1. challenge[c] \in Stakes \cup {0} /\ game[c] \in [stake : Stakes \cup {0}, winner : Players \cup {None}]
      BY DEF TypeOK
    <2> QED BY <2>1 DEF TypeOK
  <1>2. ASSUME NEW p \in Players PROVE Worth(p) \in Int
    BY Parts DEF Worth, Credits
  <1>3. ASSUME NEW p \in Players, NEW q \in Players PROVE StakedOn(p, q) \in Int
    <2>1. <<p, q>> \in Pairs /\ <<q, p>> \in Pairs
      BY DEF Pairs
    <2> QED BY <1>1, <2>1 DEF StakedOn
  <1> QED BY <1>1, <1>2, <1>3 DEF WonIn, Prize, TermsTyped

LEMMA TermTypesNext == TypeOK' => TermsTyped'
  BY TermTypes, PTL

SumsTyped ==
    /\ \A p \in Players : Staked(p) \in Int /\ Won(p) \in Int
    /\ Purses \in Int
    /\ Prizes \in Int
    /\ Challenged \in Int

LEMMA SumTypes == TypeOK => SumsTyped
  <1> SUFFICES ASSUME TypeOK PROVE SumsTyped
    OBVIOUS
  <1>1. ASSUME NEW p \in Players PROVE Staked(p) \in Int
    <2>1. [q \in Players |-> StakedOn(p, q)] \in [Players -> Int]
      BY TermTypes DEF TermsTyped
    <2> QED BY <2>1, SumType, FinitePlayers DEF Staked
  <1>2. ASSUME NEW p \in Players PROVE Won(p) \in Int
    <2>1. [c \in Pairs |-> WonIn(p, c)] \in [Pairs -> Int]
      BY TermTypes DEF TermsTyped
    <2> QED BY <2>1, SumType, FinitePlayers DEF Won
  <1>3. Purses \in Int
    <2>1. [p \in Players |-> Worth(p)] \in [Players -> Int]
      BY TermTypes DEF TermsTyped
    <2> QED BY <2>1, SumType, FinitePlayers DEF Purses
  <1>4. Prizes \in Int
    <2>1. [c \in Pairs |-> Prize(c)] \in [Pairs -> Int]
      BY TermTypes DEF TermsTyped
    <2> QED BY <2>1, SumType, FinitePlayers DEF Prizes
  <1>5. Challenged \in Int
    <2>1. [c \in Pairs |-> challenge[c]] \in [Pairs -> Int]
      BY TermTypes DEF TermsTyped
    <2> QED BY <2>1, SumType, FinitePlayers DEF Challenged
  <1> QED BY <1>1, <1>2, <1>3, <1>4, <1>5 DEF SumsTyped

LEMMA SumTypesNext == TypeOK' => SumsTyped'
  BY SumTypes, PTL

\* A step after which only what one has put in on account of q may differ
LEMMA StakedMoves ==
  ASSUME TypeOK, TypeOK', NEW p \in Players, NEW q \in Players,
         \A r \in Players : r # q => StakedOn(p, r)' = StakedOn(p, r)
  PROVE  Staked(p)' = Staked(p) + StakedOn(p, q)' - StakedOn(p, q)
  <1> DEFINE f == [r \in Players |-> StakedOn(p, r)]
             k == [r \in Players |-> StakedOn(p, r)']
  <1>1. f \in [Players -> Int]
    BY TermTypes DEF TermsTyped
  <1>2. k \in [Players -> Int]
    BY TermTypesNext DEF TermsTyped
  <1>3. f[q] = StakedOn(p, q) /\ k[q] = StakedOn(p, q)' /\ \A r \in Players : r # q => k[r] = f[r]
    OBVIOUS
  <1>4. Staked(p) = SumFunction(f) /\ Staked(p)' = SumFunction(k)
    BY DEF Staked
  <1> HIDE DEF f, k
  <1>5. SumFunction(k) = SumFunction(f) + k[q] - f[q]
    BY <1>1, <1>2, <1>3, SumUpdated, FinitePlayers
  <1> QED BY <1>3, <1>4, <1>5

\* One in which only one has a purse or an account of another worth
LEMMA WorthMoves ==
  ASSUME TypeOK, TypeOK', NEW p \in Players,
         \A r \in Players : r # p => Worth(r)' = Worth(r)
  PROVE  Purses' = Purses + Worth(p)' - Worth(p)
  <1> DEFINE f == [r \in Players |-> Worth(r)]
             k == [r \in Players |-> Worth(r)']
  <1>1. f \in [Players -> Int]
    BY TermTypes DEF TermsTyped
  <1>2. k \in [Players -> Int]
    BY TermTypesNext DEF TermsTyped
  <1>3. f[p] = Worth(p) /\ k[p] = Worth(p)' /\ \A r \in Players : r # p => k[r] = f[r]
    OBVIOUS
  <1>4. Purses' = SumFunction(k)
    BY DEF Purses
  <1>5. Purses = SumFunction(f)
    BY DEF Purses
  <1> HIDE DEF f, k
  <1>6. SumFunction(k) = SumFunction(f) + k[p] - f[p]
    BY <1>1, <1>2, <1>3, SumUpdated, FinitePlayers
  <1> QED BY <1>3, <1>4, <1>5, <1>6

\* One that changes one game
LEMMA GameMoves ==
  ASSUME TypeOK, TypeOK', NEW c \in Pairs,
         \A d \in Pairs : d # c => game'[d] = game[d]
  PROVE  /\ Prizes' = Prizes + Prize(c)' - Prize(c)
         /\ \A p \in Players : Won(p)' = Won(p) + WonIn(p, c)' - WonIn(p, c)
  <1>1. ASSUME NEW p \in Players PROVE Won(p)' = Won(p) + WonIn(p, c)' - WonIn(p, c)
    <2> DEFINE f == [d \in Pairs |-> WonIn(p, d)]
               k == [d \in Pairs |-> WonIn(p, d)']
    <2>1. f \in [Pairs -> Int]
      BY TermTypes DEF TermsTyped
    <2>2. k \in [Pairs -> Int]
      BY TermTypesNext DEF TermsTyped
    <2>3. \A d \in Pairs : d # c => WonIn(p, d)' = WonIn(p, d)
      BY DEF WonIn
    <2>4. f[c] = WonIn(p, c) /\ k[c] = WonIn(p, c)' /\ \A d \in Pairs : d # c => k[d] = f[d]
      BY <2>3
    <2>5. Won(p) = SumFunction(f) /\ Won(p)' = SumFunction(k)
      BY DEF Won
    <2> HIDE DEF f, k
    <2>6. SumFunction(k) = SumFunction(f) + k[c] - f[c]
      BY <2>1, <2>2, <2>4, SumUpdated, FinitePlayers
    <2> QED BY <2>4, <2>5, <2>6
  <1> DEFINE f == [d \in Pairs |-> Prize(d)]
             k == [d \in Pairs |-> Prize(d)']
  <1>2. f \in [Pairs -> Int]
    BY TermTypes DEF TermsTyped
  <1>3. k \in [Pairs -> Int]
    BY TermTypesNext DEF TermsTyped
  <1>4. \A d \in Pairs : d # c => Prize(d)' = Prize(d)
    BY DEF Prize, Open
  <1>5. f[c] = Prize(c) /\ k[c] = Prize(c)' /\ \A d \in Pairs : d # c => k[d] = f[d]
    BY <1>4
  <1>6. Prizes' = SumFunction(k)
    BY DEF Prizes
  <1>7. Prizes = SumFunction(f)
    BY DEF Prizes
  <1> HIDE DEF f, k
  <1>8. SumFunction(k) = SumFunction(f) + k[c] - f[c]
    BY <1>2, <1>3, <1>5, SumUpdated, FinitePlayers
  <1>9. Prizes' = Prizes + Prize(c)' - Prize(c)
    BY <1>5, <1>6, <1>7, <1>8
  <1> QED BY <1>1, <1>9

\* One that changes one challenge
LEMMA ChallengeMoves ==
  ASSUME TypeOK, TypeOK', NEW c \in Pairs,
         \A d \in Pairs : d # c => challenge'[d] = challenge[d]
  PROVE  Challenged' = Challenged + challenge'[c] - challenge[c]
  <1> DEFINE f == [d \in Pairs |-> challenge[d]]
             k == [d \in Pairs |-> challenge'[d]]
  <1>1. f \in [Pairs -> Int]
    BY TermTypes DEF TermsTyped
  <1>2. k \in [Pairs -> Int]
    BY TermTypesNext DEF TermsTyped
  <1>3. f[c] = challenge[c] /\ k[c] = challenge'[c] /\ \A d \in Pairs : d # c => k[d] = f[d]
    OBVIOUS
  <1>4. Challenged' = SumFunction(k)
    BY DEF Challenged
  <1>5. Challenged = SumFunction(f)
    BY DEF Challenged
  <1> HIDE DEF f, k
  <1>6. SumFunction(k) = SumFunction(f) + k[c] - f[c]
    BY <1>1, <1>2, <1>3, SumUpdated, FinitePlayers
  <1> QED BY <1>3, <1>4, <1>5, <1>6

\* A restart forgets the challenges.
LEMMA ChallengesForgotten ==
  ASSUME TypeOK, TypeOK', \A d \in Pairs : challenge'[d] = 0, NEW c \in Pairs
  PROVE  Challenged' <= Challenged - challenge[c]
  <1> DEFINE f == [d \in Pairs |-> challenge[d]]
             e == [d \in Pairs |-> IF d = c THEN 0 ELSE challenge[d]]
             k == [d \in Pairs |-> challenge'[d]]
  <1>1. f \in [Pairs -> Int] /\ e \in [Pairs -> Int] /\ \A d \in Pairs : f[d] >= 0
    BY TermTypes DEF TermsTyped
  <1>2. k \in [Pairs -> Int]
    OBVIOUS
  <1>3. f[c] = challenge[c] /\ e[c] = 0 /\ \A d \in Pairs : d # c => e[d] = f[d]
    OBVIOUS
  <1>4. \A d \in Pairs : k[d] <= e[d]
    BY <1>1
  <1>5. Challenged' = SumFunction(k)
    BY DEF Challenged
  <1>6. Challenged = SumFunction(f)
    BY DEF Challenged
  <1> HIDE DEF f, e, k
  <1>7. SumFunction(e) = SumFunction(f) + e[c] - f[c]
    BY <1>1, <1>3, SumUpdated, FinitePlayers
  <1>8. SumFunction(k) <= SumFunction(e)
    BY <1>1, <1>2, <1>4, SumSmaller, FinitePlayers
  <1>9. f[c] \in Int /\ SumFunction(f) \in Int /\ SumFunction(e) \in Int /\ SumFunction(k) \in Int
    BY <1>1, <1>2, SumType, FinitePlayers
  <1> QED BY <1>3, <1>5, <1>6, <1>7, <1>8, <1>9

\* A payment is written into purse and file alike; nobody else's is touched.
LEMMA PaidPurse ==
  ASSUME TypeOK, GoldFiled, NEW p \in Players, NEW r \in Int, Paid(p, r)
  PROVE  /\ own'[p].gold = own[p].gold - r
         /\ \A q \in Players : q # p => own'[q] = own[q]
         /\ GoldFiled'
  <1> DEFINE o == [own[p] EXCEPT !.gold = own[p].gold - r]
  <1>1. own[p] \in Own
    BY DEF TypeOK
  <1>2. o.gold = own[p].gold - r
    BY <1>1 DEF Own
  <1>3. own' = [own EXCEPT ![p] = o]
    BY DEF Paid
  <1> HIDE DEF o
  <1>4. own'[p] = o /\ \A q \in Players : q # p => own'[q] = own[q]
    BY <1>3 DEF TypeOK
  <1>5. file'[p] = own'[p] /\ \A q \in Players : q # p => file'[q] = file[q]
    BY DEF Paid, TypeOK
  <1>6. GoldFiled'
    BY <1>4, <1>5 DEF GoldFiled
  <1> QED BY <1>2, <1>4, <1>6

\* Cards that change their place take no gold with them.
LEMMA CardsLeavePurse ==
  ASSUME TypeOK, GoldFiled, NEW p \in Players, NEW n, NEW k, NEW command,
         Moved(p, n, k), Saved(p, command)
  PROVE  (\A q \in Players : own'[q].gold = own[q].gold) /\ GoldFiled'
  <1> DEFINE o == [gold |-> own[p].gold, hand |-> own[p].hand + n, inside |-> own[p].inside + k]
  <1>1. o.gold = own[p].gold
    OBVIOUS
  <1>2. own' = [own EXCEPT ![p] = o]
    BY DEF Moved
  <1> HIDE DEF o
  <1>3. own'[p].gold = own[p].gold /\ \A q \in Players : q # p => own'[q] = own[q]
    BY <1>1, <1>2 DEF TypeOK
  <1>4. file' = [file EXCEPT ![p] = own'[p]] \/ file' = file
    BY DEF Saved
  <1>5. \A q \in Players : file'[q] = own'[q] \/ (file'[q] = file[q])
    BY <1>4 DEF TypeOK
  <1> QED BY <1>3, <1>5 DEF GoldFiled

LEMMA MetStays ==
  ASSUME TypeOK, NEW kind, Fault(kind)
  PROVE  Met(kind)' /\ \A k : Met(k) => Met(k)'
  <1>1. faults \in Seq({"crash", "inside", "commit"}) /\ faults' = Append(faults, kind)
    BY DEF TypeOK, Fault
  <1>2. Len(faults) \in Nat /\ DOMAIN faults = 1 .. Len(faults)
    BY <1>1
  <1>3. faults'[Len(faults) + 1] = kind /\ DOMAIN faults' = 1 .. Len(faults) + 1
    BY <1>1, <1>2
  <1>4. \A i \in DOMAIN faults : faults'[i] = faults[i] /\ i \in DOMAIN faults'
    BY <1>1, <1>2, <1>3
  <1>5. Met(kind)'
    BY <1>2, <1>3 DEF Met
  <1>6. \A k : Met(k) => Met(k)'
    BY <1>4 DEF Met
  <1> QED BY <1>5, <1>6

\* Once a commit was lost only the files are spoken of.
LEMMA MoneyUncommitted ==
  ASSUME TypeOK, MoneyInv, Fault("commit"), GoldFiled',
         \A p \in Players : Registered(p) => Registered(p)', game' = game
  PROVE  MoneyInv'
  <1>1. Met("commit")'
    BY MetStays
  <1>2. Entitled'
    BY PairParts DEF MoneyInv, Entitled, Open
  <1> QED BY <1>1, <1>2 DEF MoneyInv

\* A step that touches no gold
LEMMA MoneyStays ==
  ASSUME TypeOK, TypeOK', MoneyInv, GoldFiled',
         \A p \in Players : own'[p].gold = own[p].gold,
         \A p \in Players : Credits(p)' = Credits(p) /\ (Registered(p) => Registered(p)'),
         challenge' = challenge, game' = game, voided' = voided,
         \A k : Met(k) => Met(k)'
  PROVE  MoneyInv'
  <1>1. Entitled'
    BY PairParts DEF MoneyInv, Entitled, Open
  <1>2. \A p \in Players : Worth(p)' = Worth(p)
    BY DEF Worth
  <1>3. ASSUME NEW p \in Players PROVE Staked(p)' = Staked(p) /\ Won(p)' = Won(p)
    <2>1. Staked(p)' = Staked(p)
      BY DEF Staked, StakedOn
    <2>2. Won(p)' = Won(p)
      BY DEF Won, WonIn
    <2> QED BY <2>1, <2>2
  <1>4. BooksBalance => BooksBalance'
    BY <1>2, <1>3 DEF BooksBalance
  <1>5. Purses' = Purses /\ Prizes' = Prizes /\ Challenged' = Challenged
    <2>1. [p \in Players |-> Worth(p)]' = [p \in Players |-> Worth(p)]
      BY <1>2
    <2>2. [c \in Pairs |-> Prize(c)]' = [c \in Pairs |-> Prize(c)]
      BY DEF Prize, Open
    <2> QED BY <2>1, <2>2 DEF Purses, Prizes, Challenged
  <1>6. Covered => Covered'
    BY <1>5 DEF Covered
  <1> QED BY <1>1, <1>4, <1>6 DEF MoneyInv

Balanced(p) == Worth(p) + Staked(p) = Gold + Won(p)

\* Whoever pays for a stake, or is paid a prize, keeps his books balanced.
LEMMA BooksMove ==
  ASSUME TypeOK, TypeOK', NEW p \in Players, NEW q \in Players, Balanced(p),
         \A r \in Players : r # q => StakedOn(p, r)' = StakedOn(p, r),
         Worth(p)' - Worth(p) + (StakedOn(p, q)' - StakedOn(p, q)) = Won(p)' - Won(p)
  PROVE  Balanced(p)'
  <1>1. Staked(p)' = Staked(p) + StakedOn(p, q)' - StakedOn(p, q)
    BY StakedMoves
  <1>2. Worth(p) \in Int /\ StakedOn(p, q) \in Int /\ Staked(p) \in Int /\ Won(p) \in Int
    BY TermTypes, SumTypes DEF TermsTyped, SumsTyped
  <1>3. Worth(p)' \in Int /\ StakedOn(p, q)' \in Int /\ Won(p)' \in Int
    BY TermTypesNext, SumTypesNext DEF TermsTyped, SumsTyped
  <1>4. Worth(p) + Staked(p) = Gold + Won(p)
    BY DEF Balanced
  <1>5. PICK w \in Int, x \in Int, s \in Int, n \in Int, m \in Int, i \in Int, j \in Int :
          /\ w = Worth(p) /\ x = Worth(p)' /\ s = Staked(p) /\ n = Won(p) /\ m = Won(p)'
          /\ i = StakedOn(p, q) /\ j = StakedOn(p, q)'
    BY <1>2, <1>3
  <1>6. w + s = Gold + n /\ x - w + (j - i) = m - n
    BY <1>4, <1>5
  <1>7. x + (s + j - i) = Gold + m
    BY <1>6
  <1>8. Worth(p)' + Staked(p)' = Gold + Won(p)'
    BY <1>1, <1>5, <1>7
  <1> QED BY <1>8 DEF Balanced

\* What a step takes out of purses, games and challenges covers what it puts in.
LEMMA CoveredMoves ==
  ASSUME TypeOK, TypeOK', Covered, NEW a \in Int, NEW b \in Int, NEW d \in Int, a + b + d <= 0,
         Purses' = Purses + a, Prizes' = Prizes + b, Challenged' <= Challenged + d
  PROVE  Covered'
  <1>1. Gold * Cardinality(Players) \in Int
    BY FinitePlayers, FS_CardinalityType
  <1>2. PICK w \in Int, x \in Int, y \in Int, z \in Int, n \in Int :
          /\ w = Purses /\ x = Prizes /\ y = Challenged /\ z = Challenged'
          /\ n = Gold * Cardinality(Players)
    BY <1>1, SumTypes, SumTypesNext DEF SumsTyped, Purses, Prizes, Challenged
  <1>3. w + x + y <= n
    BY <1>2 DEF Covered
  <1>4. z <= y + d
    BY <1>2
  <1>5. (w + a) + (x + b) + z <= n
    BY <1>3, <1>4
  <1>6. Purses' + Prizes' + Challenged' <= Gold * Cardinality(Players)
    BY <1>2, <1>5
  <1> QED BY <1>6 DEF Covered

LEMMA PairOf == \A c \in Pairs : c = <<c[1], c[2]>>
  BY DEF Pairs

LEMMA MoneyChallenge ==
  ASSUME TypeOK, TypeOK', MoneyInv, NEW c \in Pairs, NEW r \in Stakes, Challenge(c, r)
  PROVE  MoneyInv'
  <1> USE PairParts, PairOf
  <1>1. /\ challenge[c] = 0 /\ challenge'[c] = r /\ \A d \in Pairs : d # c => challenge'[d] = challenge[d]
        /\ Paid(c[1], r) /\ account' = account /\ game' = game /\ voided' = voided /\ faults' = faults
    BY DEF Challenge, TypeOK
  <1>2. /\ own'[c[1]].gold = own[c[1]].gold - r
        /\ \A q \in Players : q # c[1] => own'[q] = own[q]
        /\ GoldFiled'
    BY <1>1, PaidPurse DEF MoneyInv
  <1>3. Entitled'
    BY <1>1 DEF MoneyInv, Entitled, Open, Registered
  <1>4. \A p \in Players : Credits(p)' = Credits(p) /\ Credits(p) \in Int /\ own[p].gold \in Int
    BY <1>1, Parts DEF Credits, Registered
  <1>5. /\ Worth(c[1])' = Worth(c[1]) - r
        /\ \A p \in Players : p # c[1] => Worth(p)' = Worth(p)
    BY <1>2, <1>4 DEF Worth
  <1>6. \A p \in Players : Won(p)' = Won(p)
    BY <1>1 DEF Won, WonIn
  <1>7. \A p \in Players, q \in Players : <<p, q>> # c => StakedOn(p, q)' = StakedOn(p, q)
    <2>1. ASSUME NEW p \in Players, NEW q \in Players, <<p, q>> # c
          PROVE  StakedOn(p, q)' = StakedOn(p, q)
      <3>1. <<p, q>> \in Pairs /\ <<q, p>> \in Pairs
        BY DEF Pairs
      <3> QED BY <1>1, <2>1, <3>1 DEF StakedOn
    <2> QED BY <2>1
  <1>8. StakedOn(c[1], c[2])' = StakedOn(c[1], c[2]) + r
    <2>1. /\ challenge[<<c[1], c[2]>>] = 0 /\ challenge'[<<c[1], c[2]>>] = r
      BY <1>1
    <2>2. <<c[1], c[2]>> \in Pairs /\ <<c[2], c[1]>> \in Pairs
      BY DEF Pairs
    <2>3. /\ voided[<<c[1], c[2]>>] \in Nat /\ game[<<c[1], c[2]>>].stake \in Nat
          /\ game[<<c[2], c[1]>>].stake \in Nat
      BY <2>2, TermTypes DEF TermsTyped, TypeOK
    <2> QED BY <1>1, <2>1, <2>3 DEF StakedOn
  <1>9. ASSUME BooksBalance PROVE BooksBalance'
    <2>1. ASSUME NEW p \in Players PROVE Balanced(p)'
      <3>1. Balanced(p)
        BY <1>9 DEF BooksBalance, Balanced
      <3>2. /\ Worth(p) \in Int /\ Won(p) \in Int /\ \A q \in Players : StakedOn(p, q) \in Int
        BY TermTypes, SumTypes DEF TermsTyped, SumsTyped
      <3>3. CASE p = c[1]
        <4>1. \A q \in Players : q # c[2] => StakedOn(p, q)' = StakedOn(p, q)
          BY <1>7, <3>3
        <4>2. Worth(p)' - Worth(p) + (StakedOn(p, c[2])' - StakedOn(p, c[2])) = Won(p)' - Won(p)
          BY <1>5, <1>6, <1>8, <3>2, <3>3
        <4> QED BY <3>1, <4>1, <4>2, BooksMove
      <3>4. CASE p # c[1]
        <4>1. \A q \in Players : StakedOn(p, q)' = StakedOn(p, q)
          BY <1>7, <3>4
        <4>2. Worth(p)' - Worth(p) + (StakedOn(p, p)' - StakedOn(p, p)) = Won(p)' - Won(p)
          BY <1>5, <1>6, <4>1, <3>2, <3>4
        <4> QED BY <3>1, <4>1, <4>2, BooksMove
      <3> QED BY <3>3, <3>4
    <2> QED BY <2>1 DEF BooksBalance, Balanced
  <1>10. ASSUME Covered PROVE Covered'
    <2>1. Purses' = Purses + (-r)
      <3>1. Purses' = Purses + Worth(c[1])' - Worth(c[1])
        BY <1>5, WorthMoves
      <3> QED BY <1>5, <3>1, TermTypes, SumTypes DEF TermsTyped, SumsTyped
    <2>2. Prizes' = Prizes + 0
      BY <1>1, SumTypes DEF Prizes, Prize, SumsTyped
    <2>3. Challenged' <= Challenged + r
      BY <1>1, ChallengeMoves, SumTypes DEF SumsTyped
    <2> QED BY <1>10, <2>1, <2>2, <2>3, CoveredMoves
  <1>11. Met("inside")' = Met("inside") /\ Met("commit")' = Met("commit")
    BY <1>1 DEF Met
  <1> QED BY <1>2, <1>3, <1>9, <1>10, <1>11 DEF MoneyInv

\* The row an acceptance writes
LEMMA RowStakes ==
  ASSUME TypeOK, NEW c \in Pairs, Accepts(c), game' = Row(c)
  PROVE  /\ game[c].stake = 0 /\ game'[c].stake = challenge[c] /\ game'[c].winner = None
         /\ challenge[c] \in Nat /\ challenge[c] # 0
         /\ \A d \in Pairs : d # c => game'[d] = game[d]
         /\ Registered(c[1]) /\ Registered(c[2])
         /\ Prize(c) = 0 /\ Prize(c)' = challenge[c]
         /\ \A p \in Players : WonIn(p, c) = 0 /\ WonIn(p, c)' = 0
  <1> USE PairParts
  <1>1. game[c] = NoGame /\ challenge[c] # 0 /\ Ready(c)
    BY DEF Accepts
  <1> DEFINE g == [game[c] EXCEPT !.stake = challenge[c]]
  <1>2. game' = [game EXCEPT ![c] = g]
    BY DEF Row
  <1>3. g.stake = challenge[c] /\ g.winner = None /\ game[c].stake = 0
    BY <1>1 DEF NoGame
  <1> HIDE DEF g
  <1>4. game'[c] = g /\ \A d \in Pairs : d # c => game'[d] = game[d]
    BY <1>2 DEF TypeOK
  <1>5. challenge[c] \in Nat
    BY TermTypes DEF TermsTyped
  <1>6. Registered(c[1]) /\ Registered(c[2])
    BY <1>1 DEF Ready
  <1>7. Prize(c) = 0 /\ Prize(c)' = challenge[c]
    BY <1>1, <1>3, <1>4 DEF Prize, Open
  <1>8. \A p \in Players : WonIn(p, c) = 0 /\ WonIn(p, c)' = 0
    BY <1>3, <1>4 DEF WonIn
  <1> QED BY <1>1, <1>3, <1>4, <1>5, <1>6, <1>7, <1>8

\* Who plays after an acceptance has an account, for Ready asks.
LEMMA EntitledByRow ==
  ASSUME TypeOK, MoneyInv, NEW c \in Pairs, Accepts(c), game' = Row(c), account' = account
  PROVE  Entitled'
  <1>1. /\ \A d \in Pairs : d # c => game'[d] = game[d]
        /\ Registered(c[1]) /\ Registered(c[2])
    BY RowStakes
  <1>2. \A d \in Pairs : d \in Open(game') => d = c \/ d \in Open(game)
    BY <1>1 DEF Open
  <1>3. \A p \in Players : Registered(p)' = Registered(p)
    BY DEF Registered
  <1> QED BY <1>1, <1>2, <1>3, PairParts DEF MoneyInv, Entitled

LEMMA MoneyAccept ==
  ASSUME TypeOK, TypeOK', MoneyInv, NEW c \in Pairs, Accept(c)
  PROVE  MoneyInv'
  <1> USE PairParts, PairOf
  <1>1. PICK r \in Nat : r = challenge[c]
    BY TermTypes DEF TermsTyped
  <1>2. /\ challenge'[c] = 0 /\ \A d \in Pairs : d # c => challenge'[d] = challenge[d]
        /\ Accepts(c) /\ game' = Row(c)
        /\ Paid(c[2], r) /\ account' = account /\ voided' = voided /\ faults' = faults
    BY <1>1 DEF Accept, TypeOK
  <1>3. /\ own'[c[2]].gold = own[c[2]].gold - r
        /\ \A q \in Players : q # c[2] => own'[q] = own[q]
        /\ GoldFiled'
    BY <1>2, PaidPurse DEF MoneyInv
  <1>4. Entitled'
    BY <1>2, EntitledByRow
  <1>5. /\ game[c].stake = 0 /\ game'[c].stake = r /\ Prize(c) = 0 /\ Prize(c)' = r
        /\ \A d \in Pairs : d # c => game'[d] = game[d]
        /\ \A p \in Players : WonIn(p, c) = 0 /\ WonIn(p, c)' = 0
    BY <1>1, <1>2, RowStakes
  <1>6. \A p \in Players : Credits(p)' = Credits(p) /\ Credits(p) \in Int /\ own[p].gold \in Int
    BY <1>2, Parts DEF Credits, Registered
  <1>7. /\ Worth(c[2])' = Worth(c[2]) - r
        /\ \A p \in Players : p # c[2] => Worth(p)' = Worth(p)
    BY <1>3, <1>6 DEF Worth
  <1>8. \A p \in Players : Won(p)' = Won(p)
    <2>1. TAKE p \in Players
    <2>2. Won(p)' = Won(p) + WonIn(p, c)' - WonIn(p, c)
      BY <1>5, GameMoves
    <2> QED BY <1>5, <2>2, SumTypes DEF SumsTyped
  <1>9. ASSUME NEW p \in Players, NEW q \in Players, <<p, q>> # c, <<q, p>> # c
        PROVE  StakedOn(p, q)' = StakedOn(p, q)
    <2>1. <<p, q>> \in Pairs /\ <<q, p>> \in Pairs
      BY DEF Pairs
    <2> QED BY <1>2, <1>5, <1>9, <2>1 DEF StakedOn
  <1> DEFINE row == <<c[1], c[2]>>
             back == <<c[2], c[1]>>
  <1>10. row \in Pairs /\ back \in Pairs /\ row = c
    BY DEF Pairs
  <1>11. \A d \in Pairs : challenge[d] \in Nat /\ voided[d] \in Nat /\ game[d].stake \in Nat
    BY TermTypes DEF TermsTyped, TypeOK
  <1>12. challenge[row] = r /\ challenge'[row] = 0 /\ game[row].stake = 0 /\ game'[row].stake = r
    BY <1>1, <1>2, <1>5, <1>10
  <1>13. c[1] # c[2] => back # c
    BY DEF Pairs
  <1>14. ASSUME c[1] = c[2], NEW p \in Players, Balanced(p) PROVE Balanced(p)'
    <2>1. back = row
      BY <1>14
    <2>2. StakedOn(c[1], c[2])' = StakedOn(c[1], c[2]) + r
      BY <1>2, <1>10, <1>11, <1>12, <2>1 DEF StakedOn
    <2>3. /\ Worth(p) \in Int /\ Won(p) \in Int /\ \A q \in Players : StakedOn(p, q) \in Int
      BY TermTypes, SumTypes DEF TermsTyped, SumsTyped
    <2>4. CASE p = c[2]
      <3>1. \A q \in Players : q # c[2] => StakedOn(p, q)' = StakedOn(p, q)
        BY <1>9, <1>14, <2>4
      <3>2. Worth(p)' - Worth(p) + (StakedOn(p, c[2])' - StakedOn(p, c[2])) = Won(p)' - Won(p)
        BY <1>7, <1>8, <1>14, <2>2, <2>3, <2>4
      <3> QED BY <1>14, <3>1, <3>2, BooksMove
    <2>5. CASE p # c[2]
      <3>1. \A q \in Players : StakedOn(p, q)' = StakedOn(p, q)
        BY <1>9, <1>14, <2>5
      <3>2. Worth(p)' - Worth(p) + (StakedOn(p, p)' - StakedOn(p, p)) = Won(p)' - Won(p)
        BY <1>7, <1>8, <3>1, <2>3, <2>5
      <3> QED BY <1>14, <3>1, <3>2, BooksMove
    <2> QED BY <2>4, <2>5
  <1>15. ASSUME c[1] # c[2], NEW p \in Players, Balanced(p) PROVE Balanced(p)'
    <2>1. back # row /\ challenge'[back] = challenge[back] /\ game'[back] = game[back]
      BY <1>2, <1>5, <1>10, <1>13, <1>15
    <2>2. StakedOn(c[1], c[2])' = StakedOn(c[1], c[2])
      BY <1>2, <1>10, <1>11, <1>12, <2>1 DEF StakedOn
    <2>3. StakedOn(c[2], c[1])' = StakedOn(c[2], c[1]) + r
      BY <1>2, <1>10, <1>11, <1>12, <2>1 DEF StakedOn
    <2>4. /\ Worth(p) \in Int /\ Won(p) \in Int /\ \A q \in Players : StakedOn(p, q) \in Int
      BY TermTypes, SumTypes DEF TermsTyped, SumsTyped
    <2>5. CASE p = c[2]
      <3>1. \A q \in Players : q # c[1] => StakedOn(p, q)' = StakedOn(p, q)
        BY <1>9, <1>15, <2>5
      <3>2. Worth(p)' - Worth(p) + (StakedOn(p, c[1])' - StakedOn(p, c[1])) = Won(p)' - Won(p)
        BY <1>7, <1>8, <2>3, <2>4, <2>5
      <3> QED BY <1>15, <3>1, <3>2, BooksMove
    <2>6. CASE p # c[2]
      <3>1. \A q \in Players : StakedOn(p, q)' = StakedOn(p, q)
        <4>1. TAKE q \in Players
        <4>2. CASE p = c[1] /\ q = c[2]
          BY <2>2, <4>2
        <4>3. CASE ~ (p = c[1] /\ q = c[2])
          <5>1. <<p, q>> # c /\ <<q, p>> # c
            BY <2>6, <4>3
          <5> QED BY <1>9, <5>1
        <4> QED BY <4>2, <4>3
      <3>2. Worth(p)' - Worth(p) + (StakedOn(p, p)' - StakedOn(p, p)) = Won(p)' - Won(p)
        BY <1>7, <1>8, <3>1, <2>4, <2>6
      <3> QED BY <1>15, <3>1, <3>2, BooksMove
    <2> QED BY <2>5, <2>6
  <1>16. BooksBalance => BooksBalance'
    BY <1>14, <1>15 DEF BooksBalance, Balanced
  <1>17. ASSUME Covered PROVE Covered'
    <2>1. Purses' = Purses + (-r)
      <3>1. Purses' = Purses + Worth(c[2])' - Worth(c[2])
        BY <1>7, WorthMoves
      <3> QED BY <1>7, <3>1, TermTypes, SumTypes DEF TermsTyped, SumsTyped
    <2>2. Prizes' = Prizes + r
      <3>1. Prizes' = Prizes + Prize(c)' - Prize(c)
        BY <1>5, GameMoves
      <3> QED BY <1>5, <3>1, SumTypes DEF SumsTyped
    <2>3. Challenged' <= Challenged + (-r)
      <3>1. Challenged' = Challenged + challenge'[c] - challenge[c]
        BY <1>2, ChallengeMoves
      <3> QED BY <1>1, <1>2, <3>1, SumTypes DEF SumsTyped
    <2> QED BY <1>17, <2>1, <2>2, <2>3, CoveredMoves
  <1>18. Met("inside")' = Met("inside") /\ Met("commit")' = Met("commit")
    BY <1>2 DEF Met
  <1> QED BY <1>3, <1>4, <1>16, <1>17, <1>18 DEF MoneyInv

LEMMA MoneyAcceptUncommitted ==
  ASSUME TypeOK, TypeOK', MoneyInv, NEW c \in Pairs, AcceptUncommitted(c)
  PROVE  MoneyInv'
  <1>1. PICK r \in Nat : r = challenge[c]
    BY TermTypes DEF TermsTyped
  <1>2. Paid(c[2], r) /\ account' = account /\ game' = game /\ Fault("commit")
    BY <1>1 DEF AcceptUncommitted
  <1>3. GoldFiled'
    BY <1>2, PaidPurse, PairParts DEF MoneyInv
  <1>4. \A p \in Players : Registered(p) => Registered(p)'
    BY <1>2 DEF Registered
  <1> QED BY <1>2, <1>3, <1>4, MoneyUncommitted

\* A new process has the gold of the files, which is what the old one had.
LEMMA RestartedPurses ==
  ASSUME TypeOK, GoldFiled, Restarted, file' = file
  PROVE  GoldFiled' /\ \A p \in Players : own'[p].gold = own[p].gold
  BY DEF GoldFiled, Restarted

LEMMA MoneyAcceptCrash ==
  ASSUME TypeOK, TypeOK', MoneyInv, NEW c \in Pairs, AcceptCrash(c)
  PROVE  MoneyInv'
  <1>1. PICK r \in Nat : r = challenge[c]
    BY TermTypes DEF TermsTyped
  <1>2. /\ Accepts(c) /\ game' = Row(c) /\ Restarted /\ Fault("inside")
        /\ file' = file /\ account' = account
    BY DEF AcceptCrash
  <1>3. GoldFiled' /\ \A p \in Players : own'[p].gold = own[p].gold
    BY <1>2, RestartedPurses DEF MoneyInv
  <1>4. Entitled'
    BY <1>2, EntitledByRow
  <1>5. Met("inside")' /\ (Met("commit") => Met("commit")')
    BY <1>2, MetStays
  <1>6. ASSUME Covered PROVE Covered'
    <2>1. \A p \in Players : Worth(p)' = Worth(p)
      BY <1>2, <1>3 DEF Worth, Credits, Registered
    <2>2. Purses' = Purses + 0
      <3>1. [p \in Players |-> Worth(p)]' = [p \in Players |-> Worth(p)]
        BY <2>1
      <3> QED BY <3>1, SumTypes DEF Purses, SumsTyped
    <2>3. Prizes' = Prizes + r
      <3>1. Prize(c) = 0 /\ Prize(c)' = r /\ \A d \in Pairs : d # c => game'[d] = game[d]
        BY <1>1, <1>2, RowStakes
      <3>2. Prizes' = Prizes + Prize(c)' - Prize(c)
        BY <3>1, GameMoves
      <3> QED BY <3>1, <3>2, SumTypes DEF SumsTyped
    <2>4. Challenged' <= Challenged + (-r)
      <3>1. \A d \in Pairs : challenge'[d] = 0
        BY <1>2 DEF Restarted
      <3>2. Challenged' <= Challenged - challenge[c]
        BY <3>1, ChallengesForgotten
      <3> QED BY <1>1, <3>2, SumTypes DEF SumsTyped
    <2> QED BY <1>6, <2>2, <2>3, <2>4, CoveredMoves
  <1> QED BY <1>3, <1>4, <1>5, <1>6 DEF MoneyInv

LEMMA MoneyCrash ==
  ASSUME TypeOK, TypeOK', MoneyInv, Crash
  PROVE  MoneyInv'
  <1>1. /\ Restarted /\ Fault("crash") /\ file' = file /\ account' = account /\ game' = game
    BY DEF Crash, disk
  <1>2. GoldFiled' /\ \A p \in Players : own'[p].gold = own[p].gold
    BY <1>1, RestartedPurses DEF MoneyInv
  <1>3. Entitled'
    BY <1>1 DEF MoneyInv, Entitled, Open, Registered
  <1>4. \A k : Met(k) => Met(k)'
    BY <1>1, MetStays
  <1>5. \A p \in Players : Worth(p)' = Worth(p)
    BY <1>1, <1>2 DEF Worth, Credits, Registered
  <1>6. \A d \in Pairs : challenge'[d] = 0 /\ voided'[d] = voided[d] + challenge[d]
    BY <1>1 DEF Restarted
  <1>7. ASSUME NEW p \in Players, NEW q \in Players PROVE StakedOn(p, q)' = StakedOn(p, q)
    <2>1. <<p, q>> \in Pairs /\ <<q, p>> \in Pairs
      BY DEF Pairs
    <2>2. /\ challenge[<<p, q>>] \in Nat /\ voided[<<p, q>>] \in Nat /\ game[<<p, q>>].stake \in Nat
          /\ game[<<q, p>>].stake \in Nat
      BY <2>1, TermTypes DEF TermsTyped, TypeOK
    <2> QED BY <1>1, <1>6, <2>1, <2>2 DEF StakedOn
  <1>8. BooksBalance => BooksBalance'
    <2>1. ASSUME NEW p \in Players PROVE Staked(p)' = Staked(p) /\ Won(p)' = Won(p)
      <3>1. [q \in Players |-> StakedOn(p, q)]' = [q \in Players |-> StakedOn(p, q)]
        BY <1>7
      <3> QED BY <1>1, <3>1 DEF Staked, Won, WonIn
    <2> QED BY <1>5, <2>1 DEF BooksBalance
  <1>9. ASSUME Covered PROVE Covered'
    <2>1. Purses' = Purses + 0
      <3>1. [p \in Players |-> Worth(p)]' = [p \in Players |-> Worth(p)]
        BY <1>5
      <3> QED BY <3>1, SumTypes DEF Purses, SumsTyped
    <2>2. Prizes' = Prizes + 0
      BY <1>1, SumTypes DEF Prizes, Prize, SumsTyped
    <2>3. Challenged' <= Challenged + 0
      <3> DEFINE f == [d \in Pairs |-> challenge[d]]
                 k == [d \in Pairs |-> challenge'[d]]
      <3>1. f \in [Pairs -> Int] /\ k \in [Pairs -> Int] /\ \A d \in Pairs : k[d] <= f[d]
        BY <1>6, TermTypes DEF TermsTyped
      <3>2. Challenged = SumFunction(f) /\ Challenged' = SumFunction(k)
        BY DEF Challenged
      <3> HIDE DEF f, k
      <3>3. SumFunction(k) <= SumFunction(f)
        BY <3>1, SumSmaller, FinitePlayers
      <3> QED BY <3>2, <3>3, SumTypes DEF SumsTyped
    <2> QED BY <1>9, <2>1, <2>2, <2>3, CoveredMoves
  <1> QED BY <1>2, <1>3, <1>4, <1>8, <1>9 DEF MoneyInv

\* Credits become gold, in the purse and in the file.
LEMMA MoneyWithdraw ==
  ASSUME TypeOK, TypeOK', MoneyInv, NEW p \in Players, Withdraw(p)
  PROVE  MoneyInv'
  <1>1. PICK n \in Nat : n = account[p] /\ n > 0
    BY Parts DEF Withdraw
  <1>2. /\ account'[p] = 0 /\ \A q \in Players : q # p => account'[q] = account[q]
        /\ Paid(p, -n) /\ challenge' = challenge /\ game' = game /\ voided' = voided /\ faults' = faults
    BY <1>1 DEF Withdraw, TypeOK
  <1>3. /\ own'[p].gold = own[p].gold + n
        /\ \A q \in Players : q # p => own'[q] = own[q]
        /\ GoldFiled'
    <2>1. own'[p].gold = own[p].gold - (-n) /\ (\A q \in Players : q # p => own'[q] = own[q]) /\ GoldFiled'
      BY <1>1, <1>2, PaidPurse DEF MoneyInv
    <2> QED BY <1>1, <2>1, Parts
  <1>4. \A q \in Players : Registered(q) => Registered(q)'
    BY <1>1, <1>2 DEF Registered
  <1>5. Entitled'
    BY <1>2, <1>4, PairParts DEF MoneyInv, Entitled, Open
  <1>6. \A q \in Players : Worth(q)' = Worth(q)
    <2>1. Worth(p)' = Worth(p)
      BY <1>1, <1>2, <1>3, Parts DEF Worth, Credits, Registered
    <2>2. \A q \in Players : q # p => Worth(q)' = Worth(q)
      BY <1>2, <1>3 DEF Worth, Credits, Registered
    <2> QED BY <2>1, <2>2
  <1>7. \A q \in Players : Staked(q)' = Staked(q) /\ Won(q)' = Won(q)
    BY <1>2 DEF Staked, StakedOn, Won, WonIn
  <1>8. BooksBalance => BooksBalance'
    BY <1>6, <1>7 DEF BooksBalance
  <1>9. Purses' = Purses /\ Prizes' = Prizes /\ Challenged' = Challenged
    <2>1. [q \in Players |-> Worth(q)]' = [q \in Players |-> Worth(q)]
      BY <1>6
    <2> QED BY <1>2, <2>1 DEF Purses, Prizes, Prize, Challenged
  <1>10. Covered => Covered'
    BY <1>9 DEF Covered
  <1>11. Met("inside")' = Met("inside") /\ Met("commit")' = Met("commit")
    BY <1>2 DEF Met
  <1> QED BY <1>3, <1>5, <1>8, <1>10, <1>11 DEF MoneyInv

LEMMA MoneyWithdrawUncommitted ==
  ASSUME TypeOK, TypeOK', MoneyInv, NEW p \in Players, WithdrawUncommitted(p)
  PROVE  MoneyInv'
  <1>1. PICK r \in Int : r = - account[p]
    BY Parts
  <1>2. Paid(p, r) /\ account' = account /\ game' = game /\ Fault("commit")
    BY <1>1 DEF WithdrawUncommitted
  <1>3. GoldFiled'
    BY <1>2, PaidPurse DEF MoneyInv
  <1>4. \A q \in Players : Registered(q) => Registered(q)'
    BY <1>2 DEF Registered
  <1> QED BY <1>2, <1>3, <1>4, MoneyUncommitted

\* The account is empty and the purse was not filled: gold is lost, not made.
LEMMA MoneyWithdrawCrash ==
  ASSUME TypeOK, TypeOK', MoneyInv, NEW p \in Players, WithdrawCrash(p)
  PROVE  MoneyInv'
  <1>1. /\ account[p] > 0 /\ account'[p] = 0 /\ \A q \in Players : q # p => account'[q] = account[q]
        /\ Restarted /\ Fault("inside") /\ file' = file /\ game' = game
    BY DEF WithdrawCrash, TypeOK
  <1>2. GoldFiled' /\ \A q \in Players : own'[q].gold = own[q].gold
    BY <1>1, RestartedPurses DEF MoneyInv
  <1>3. Entitled'
    BY <1>1, PairParts DEF MoneyInv, Entitled, Open, Registered
  <1>4. Met("inside")' /\ (Met("commit") => Met("commit")')
    BY <1>1, MetStays
  <1>5. ASSUME Covered PROVE Covered'
    <2>1. PICK n \in Nat : n = account[p]
      BY <1>1, Parts
    <2>2. /\ Worth(p)' = Worth(p) - n
          /\ \A q \in Players : q # p => Worth(q)' = Worth(q)
      BY <1>1, <1>2, <2>1, Parts DEF Worth, Credits, Registered
    <2>3. Purses' = Purses + (-n)
      <3>1. Purses' = Purses + Worth(p)' - Worth(p)
        BY <2>2, WorthMoves
      <3> QED BY <2>2, <3>1, TermTypes, SumTypes DEF TermsTyped, SumsTyped
    <2>4. Prizes' = Prizes + 0
      BY <1>1, SumTypes DEF Prizes, Prize, SumsTyped
    <2>5. Challenged' <= Challenged + 0
      <3>1. PICK c \in Pairs : c = <<p, p>>
        BY DEF Pairs
      <3>2. \A d \in Pairs : challenge'[d] = 0
        BY <1>1 DEF Restarted
      <3>3. Challenged' <= Challenged - challenge[c]
        BY <3>2, ChallengesForgotten
      <3> QED BY <3>3, TermTypes, SumTypes, SumTypesNext DEF TermsTyped, SumsTyped
    <2> QED BY <1>5, <2>3, <2>4, <2>5, CoveredMoves
  <1> QED BY <1>2, <1>3, <1>4, <1>5 DEF MoneyInv

\* A prize goes from the game to the winner's account, once.
LEMMA MoneyDecide ==
  ASSUME TypeOK, TypeOK', MoneyInv, NEW c \in Pairs, Decide(c)
  PROVE  MoneyInv'
  <1> USE PairParts
  <1>1. PICK w \in {c[1], c[2]} :
           /\ game' = [game EXCEPT ![c].winner = w]
           /\ account' = [account EXCEPT ![w] = @ + game[c].stake]
    BY DEF Decide
  <1>2. PICK r \in Nat : r = game[c].stake
    BY TermTypes DEF TermsTyped
  <1>3. /\ c \in Open(game) /\ own' = own /\ file' = file /\ challenge' = challenge
        /\ voided' = voided /\ faults' = faults
    BY DEF Decide, memory
  <1>4. w \in Players /\ Registered(w) /\ game[c].winner = None /\ w # None
    BY <1>1, <1>3 DEF MoneyInv, Entitled, Open
  <1>5. account'[w] = account[w] + r /\ \A q \in Players : q # w => account'[q] = account[q]
    BY <1>1, <1>2, <1>4 DEF TypeOK
  <1>6. /\ game'[c].stake = r /\ game'[c].winner = w
        /\ \A d \in Pairs : d # c => game'[d] = game[d]
    <2> DEFINE g == [game[c] EXCEPT !.winner = w]
    <2>1. game[c] \in [stake : Stakes \cup {0}, winner : Players \cup {None}]
      BY DEF TypeOK
    <2>2. g.stake = r /\ g.winner = w
      BY <1>2, <2>1
    <2>3. game' = [game EXCEPT ![c] = g]
      BY <1>1
    <2> HIDE DEF g
    <2>4. game'[c] = g /\ \A d \in Pairs : d # c => game'[d] = game[d]
      BY <2>3 DEF TypeOK
    <2> QED BY <2>2, <2>4
  <1>7. Registered(w)' /\ \A q \in Players : Registered(q) => Registered(q)'
    BY <1>2, <1>4, <1>5, Parts DEF Registered
  <1>8. Entitled'
    <2>1. \A d \in Pairs : d \in Open(game') => d \in Open(game)
      BY <1>4, <1>6 DEF Open
    <2> QED BY <1>7, <2>1 DEF MoneyInv, Entitled
  <1>9. GoldFiled'
    BY <1>3 DEF MoneyInv, GoldFiled
  <1>10. /\ Worth(w)' = Worth(w) + r
         /\ \A q \in Players : q # w => Worth(q)' = Worth(q)
    <2>1. Worth(w)' = Worth(w) + r
      BY <1>2, <1>3, <1>4, <1>5, <1>7, Parts DEF Worth, Credits, Registered
    <2>2. \A q \in Players : q # w => Worth(q)' = Worth(q)
      BY <1>3, <1>5 DEF Worth, Credits, Registered
    <2> QED BY <2>1, <2>2
  <1>11. \A d \in Pairs : game'[d].stake = game[d].stake
    BY <1>2, <1>6
  <1>12. ASSUME NEW p \in Players, NEW q \in Players PROVE StakedOn(p, q)' = StakedOn(p, q)
    <2>1. <<p, q>> \in Pairs /\ <<q, p>> \in Pairs
      BY DEF Pairs
    <2> QED BY <1>3, <1>11, <2>1 DEF StakedOn
  <1>13. \A p \in Players : WonIn(p, c) = 0 /\ WonIn(p, c)' = IF p = w THEN r ELSE 0
    BY <1>4, <1>6 DEF WonIn
  <1>14. ASSUME NEW p \in Players, Balanced(p) PROVE Balanced(p)'
    <2>1. /\ Worth(p) \in Int /\ Won(p) \in Int /\ StakedOn(p, p) \in Int
      BY TermTypes, SumTypes DEF TermsTyped, SumsTyped
    <2>2. Won(p)' = Won(p) + WonIn(p, c)' - WonIn(p, c)
      BY <1>6, GameMoves
    <2>3. Worth(p)' - Worth(p) + (StakedOn(p, p)' - StakedOn(p, p)) = Won(p)' - Won(p)
      BY <1>10, <1>12, <1>13, <2>1, <2>2
    <2> QED BY <1>12, <1>14, <2>3, BooksMove
  <1>15. BooksBalance => BooksBalance'
    BY <1>14 DEF BooksBalance, Balanced
  <1>16. ASSUME Covered PROVE Covered'
    <2>1. Purses' = Purses + r
      <3>1. Purses' = Purses + Worth(w)' - Worth(w)
        BY <1>4, <1>10, WorthMoves
      <3> QED BY <1>4, <1>10, <3>1, TermTypes, SumTypes DEF TermsTyped, SumsTyped
    <2>2. Prizes' = Prizes + (-r)
      <3>1. Prize(c) = r /\ Prize(c)' = 0
        BY <1>2, <1>3, <1>4, <1>6 DEF Prize, Open
      <3>2. Prizes' = Prizes + Prize(c)' - Prize(c)
        BY <1>6, GameMoves
      <3> QED BY <3>1, <3>2, SumTypes DEF SumsTyped
    <2>3. Challenged' <= Challenged + 0
      BY <1>3, SumTypes DEF Challenged, SumsTyped
    <2> QED BY <1>16, <2>1, <2>2, <2>3, CoveredMoves
  <1>17. Met("inside")' = Met("inside") /\ Met("commit")' = Met("commit")
    BY <1>3 DEF Met
  <1> QED BY <1>8, <1>9, <1>15, <1>16, <1>17 DEF MoneyInv

LEMMA MoneyStep == TypeOK /\ TypeOK' /\ MoneyInv /\ [Next]_vars => MoneyInv'
  <1> SUFFICES ASSUME TypeOK, TypeOK', MoneyInv, [Next]_vars PROVE MoneyInv'
    OBVIOUS
  <1>1. ASSUME NEW c \in Pairs, NEW r \in Stakes, Challenge(c, r) PROVE MoneyInv'
    BY <1>1, MoneyChallenge
  <1>2. ASSUME NEW c \in Pairs, Accept(c) PROVE MoneyInv'
    BY <1>2, MoneyAccept
  <1>3. ASSUME NEW c \in Pairs, AcceptUncommitted(c) PROVE MoneyInv'
    BY <1>3, MoneyAcceptUncommitted
  <1>4. ASSUME NEW c \in Pairs, AcceptCrash(c) PROVE MoneyInv'
    BY <1>4, MoneyAcceptCrash
  <1>5. ASSUME NEW c \in Pairs, Decide(c) PROVE MoneyInv'
    BY <1>5, MoneyDecide
  <1>6. ASSUME NEW p \in Players, SetPassword(p) PROVE MoneyInv'
    <2>1. /\ own' = own /\ challenge' = challenge /\ game' = game /\ voided' = voided
          /\ faults' = faults /\ file' = file
      BY <1>6 DEF SetPassword, memory
    <2>2. \A q \in Players : Credits(q)' = Credits(q) /\ (Registered(q) => Registered(q)')
      BY <1>6 DEF SetPassword, Credits, Registered, TypeOK
    <2>3. GoldFiled' /\ \A k : Met(k) => Met(k)'
      BY <2>1 DEF MoneyInv, GoldFiled, Met
    <2> QED BY <2>1, <2>2, <2>3, MoneyStays
  <1>7. ASSUME NEW p \in Players, Withdraw(p) PROVE MoneyInv'
    BY <1>7, MoneyWithdraw
  <1>8. ASSUME NEW p \in Players, WithdrawUncommitted(p) PROVE MoneyInv'
    BY <1>8, MoneyWithdrawUncommitted
  <1>9. ASSUME NEW p \in Players, WithdrawCrash(p) PROVE MoneyInv'
    BY <1>9, MoneyWithdrawCrash
  \* Steps that leave the accounts alone
  <1> DEFINE Quiet == /\ GoldFiled' /\ (\A q \in Players : own'[q].gold = own[q].gold)
                      /\ account' = account /\ challenge' = challenge /\ game' = game /\ voided' = voided
                      /\ \A k : Met(k) => Met(k)'
  <1>10. ASSUME Quiet PROVE MoneyInv'
    <2>1. \A q \in Players : Credits(q)' = Credits(q) /\ (Registered(q) => Registered(q)')
      BY <1>10 DEF Credits, Registered
    <2> QED BY <1>10, <2>1, MoneyStays
  <1>11. ASSUME NEW p \in Players, PutCard(p) PROVE Quiet
    <2>1. GoldFiled' /\ \A q \in Players : own'[q].gold = own[q].gold
      BY <1>11, CardsLeavePurse DEF PutCard, MoneyInv
    <2> QED BY <1>11, <2>1 DEF PutCard, Met
  <1>12. ASSUME NEW p \in Players, PutStack(p) PROVE Quiet
    <2>1. PICK n \in 2 .. own[p].hand : Moved(p, - n, n)
      BY <1>12 DEF PutStack
    <2>2. GoldFiled' /\ \A q \in Players : own'[q].gold = own[q].gold
      BY <1>12, <2>1, CardsLeavePurse DEF PutStack, MoneyInv
    <2> QED BY <1>12, <2>2 DEF PutStack, Met
  <1>13. ASSUME NEW p \in Players, GetCard(p) PROVE Quiet
    <2>1. GoldFiled' /\ \A q \in Players : own'[q].gold = own[q].gold
      BY <1>13, CardsLeavePurse DEF GetCard, MoneyInv
    <2> QED BY <1>13, <2>1 DEF GetCard, Met
  <1>14. ASSUME NEW p \in Players, CardUncommitted(p) PROVE Quiet
    <2>1. GoldFiled' /\ \A q \in Players : own'[q].gold = own[q].gold
      <3>1. CASE Moved(p, -1, 0) /\ Saved(p, "put")
        BY <3>1, CardsLeavePurse DEF MoneyInv
      <3>2. CASE Moved(p, 1, 0) /\ Saved(p, "get")
        BY <3>2, CardsLeavePurse DEF MoneyInv
      <3> QED BY <1>14, <3>1, <3>2 DEF CardUncommitted
    <2>2. \A k : Met(k) => Met(k)'
      BY <1>14, MetStays DEF CardUncommitted
    <2> QED BY <1>14, <2>1, <2>2 DEF CardUncommitted
  <1>15. ASSUME NEW p \in Players, Save(p) PROVE Quiet
    <2>1. GoldFiled'
      BY <1>15 DEF Save, memory, MoneyInv, GoldFiled, TypeOK
    <2> QED BY <1>15, <2>1 DEF Save, memory, Met
  <1>16. CASE Crash
    BY <1>16, MoneyCrash
  <1>17. ASSUME ServerLoads \/ UNCHANGED vars PROVE Quiet
    BY <1>17 DEF ServerLoads, memory, disk, vars, MoneyInv, GoldFiled, Met
  <1> HIDE DEF Quiet
  <1> QED
    BY <1>1, <1>2, <1>3, <1>4, <1>5, <1>6, <1>7, <1>8, <1>9, <1>10, <1>11, <1>12, <1>13,
       <1>14, <1>15, <1>16, <1>17 DEF Next

LEMMA MoneyInit == Init => MoneyInv
  <1> SUFFICES ASSUME Init PROVE MoneyInv
    OBVIOUS
  <1>1. TypeOK
    BY DEF Init, TypeOK, Own, NoGame, Pairs
  <1>2. /\ \A p \in Players : own[p].gold = Gold /\ Credits(p) = 0
        /\ \A c \in Pairs : challenge[c] = 0 /\ voided[c] = 0 /\ game[c].stake = 0 /\ game[c].winner = None
        /\ file = own
    BY DEF Init, Credits, Registered, NoGame
  <1>3. Entitled /\ GoldFiled
    BY <1>2 DEF Entitled, Open, GoldFiled
  <1>4. \A p \in Players : Worth(p) = Gold
    BY <1>2 DEF Worth
  <1>5. ASSUME NEW p \in Players PROVE Staked(p) = 0 /\ Won(p) = 0
    <2> DEFINE f == [q \in Players |-> StakedOn(p, q)]
               k == [c \in Pairs |-> WonIn(p, c)]
    <2>1. \A q \in Players : <<p, q>> \in Pairs /\ <<q, p>> \in Pairs
      BY DEF Pairs
    <2>2. \A q \in Players : StakedOn(p, q) = 0
      BY <1>2, <2>1 DEF StakedOn
    <2>3. f \in [Players -> Int] /\ \A q \in Players : f[q] = 0
      BY <2>2
    <2>4. k \in [Pairs -> Int] /\ \A c \in Pairs : k[c] = 0
      BY <1>2 DEF WonIn
    <2>5. Staked(p) = SumFunction(f) /\ Won(p) = SumFunction(k)
      BY DEF Staked, Won
    <2> HIDE DEF f, k
    <2>6. SumFunction(f) = 0 * Cardinality(Players) /\ SumFunction(k) = 0 * Cardinality(Pairs)
      BY <2>3, <2>4, SumEqual, FinitePlayers
    <2> QED BY <2>5, <2>6, FinitePlayers, FS_CardinalityType
  <1>6. BooksBalance
    BY <1>4, <1>5 DEF BooksBalance
  <1>7. Covered
    <2> DEFINE f == [p \in Players |-> Worth(p)]
               k == [c \in Pairs |-> Prize(c)]
               e == [c \in Pairs |-> challenge[c]]
    <2>1. f \in [Players -> Int] /\ \A p \in Players : f[p] = Gold
      BY <1>4
    <2>2. k \in [Pairs -> Int] /\ \A c \in Pairs : k[c] = 0
      BY <1>2 DEF Prize
    <2>3. e \in [Pairs -> Int] /\ \A c \in Pairs : e[c] = 0
      BY <1>2
    <2>4. Purses = SumFunction(f) /\ Prizes = SumFunction(k) /\ Challenged = SumFunction(e)
      BY DEF Purses, Prizes, Challenged
    <2> HIDE DEF f, k, e
    <2>5. SumFunction(f) = Gold * Cardinality(Players)
      BY <2>1, SumEqual, FinitePlayers
    <2>6. SumFunction(k) = 0 * Cardinality(Pairs) /\ SumFunction(e) = 0 * Cardinality(Pairs)
      BY <2>2, <2>3, SumEqual, FinitePlayers
    <2>7. Cardinality(Pairs) \in Nat /\ Gold * Cardinality(Players) \in Int
      BY FinitePlayers, FS_CardinalityType
    <2>8. Prizes = 0 /\ Challenged = 0
      BY <2>4, <2>6, <2>7
    <2> QED BY <2>4, <2>5, <2>7, <2>8 DEF Covered
  <1> QED BY <1>3, <1>6, <1>7 DEF MoneyInv

\* Memory, player files and database agree about the gold of every player
\* through crashes between commands, and together never hold more of it than
\* there was, unless a commit failed unnoticed: for any number of players,
\* any stakes, challenges and games at once.
THEOREM PazaakMoneyKept == Spec => []MoneyKept
  <1>1. Init => TypeOK
    BY DEF Init, TypeOK, Own, NoGame, Pairs
  <1>2. TypeOK /\ MoneyInv => MoneyKept
    <2> SUFFICES ASSUME TypeOK, MoneyInv PROVE MoneyKept
      OBVIOUS
    <2>1. ASSUME Covered PROVE NoMoneyMade
      <3> DEFINE e == [c \in Pairs |-> challenge[c]]
                 z == [c \in Pairs |-> 0]
      <3>1. e \in [Pairs -> Int] /\ z \in [Pairs -> Int] /\ \A c \in Pairs : z[c] <= e[c] /\ z[c] = 0
        BY TermTypes DEF TermsTyped
      <3>2. Challenged = SumFunction(e)
        BY DEF Challenged
      <3> HIDE DEF e, z
      <3>3. SumFunction(z) <= SumFunction(e) /\ SumFunction(z) = 0 * Cardinality(Pairs)
        BY <3>1, SumSmaller, SumEqual, FinitePlayers
      <3>4. Challenged >= 0
        BY <3>2, <3>3, FinitePlayers, FS_CardinalityType, SumTypes DEF SumsTyped
      <3>5. Gold * Cardinality(Players) \in Int
        BY FinitePlayers, FS_CardinalityType
      <3>6. Purses + Prizes <= Gold * Cardinality(Players)
        BY <2>1, <3>4, <3>5, SumTypes DEF Covered, SumsTyped
      <3> QED BY <3>6 DEF NoMoneyMade, Purses, Prizes
    <2> QED BY <2>1 DEF MoneyInv, MoneyKept
  <1> QED BY <1>1, <1>2, MoneyInit, TypeStep, MoneyStep, PTL DEF Spec

-----------------------------------------------------------------------------
(* The background senders that acceptChallenge makes are the threads of     *)
(* ThreadPool, which says what the game loop and they do to one another.    *)

\* A thread that may still touch its object is pooled and not yet finished:
\* this is what keeps updatePool away from it.
ActiveIsPooled == \A s \in Senders : Active(s) => s \in threadPool /\ ~finished[s]

\* The sweep only ever holds pool members, and none between two sweeps.
SweepInPool ==
  /\ todo \subseteq threadPool
  /\ loop # "sweeping" => todo = {}

\* An address that was never used is known to nobody.
UnbornUnknown ==
  \A s \in Senders : heap[s] = "unborn" =>
    worker[s] = "none" /\ ~running[s] /\ ~finished[s] /\ s # current

\* The sender being sent is fresh until its thread exists.
SendingIsFresh ==
  IF loop \in {"pooling", "starting", "creating"}
  THEN /\ current \in Senders
       /\ heap[current] = "live"
       /\ worker[current] = "none"
       /\ ~finished[current]
       /\ loop # "creating" => ~running[current]
       /\ loop # "pooling" => current \in threadPool
  ELSE current = NoSender

PoolIInv ==
  /\ PoolTypeOK
  /\ ActiveIsPooled
  /\ PoolHoldsLiveObjects
  /\ SweepInPool
  /\ UnbornUnknown
  /\ SendingIsFresh
  /\ NoSenderForgotten

USE NoSenderAssumption DEF Active, WorkerStates

LEMMA PoolInitIInv == PoolInit => PoolIInv
  BY DEF PoolInit, PoolIInv, PoolTypeOK, ActiveIsPooled, PoolHoldsLiveObjects, SweepInPool,
         UnbornUnknown, SendingIsFresh, NoSenderForgotten

\* The steps of the game loop that make and start a sender.
LEMMA PoolSendIInv == PoolIInv /\ (Send \/ \E s \in Senders : NewSender(s)) => PoolIInv'
<1> USE DEF PoolIInv, PoolTypeOK, ActiveIsPooled, PoolHoldsLiveObjects, SweepInPool,
            UnbornUnknown, SendingIsFresh, NoSenderForgotten
<1> SUFFICES ASSUME PoolIInv, Send \/ \E s \in Senders : NewSender(s) PROVE PoolIInv'
  OBVIOUS
<1>1. ASSUME NEW s \in Senders, NewSender(s) PROVE PoolIInv'
  BY <1>1 DEF NewSender
<1>2. CASE AddToPool
  BY <1>2 DEF AddToPool
<1>3. CASE Start
  BY <1>3 DEF Start
<1>4. ASSUME NEW created \in BOOLEAN, Create(created) PROVE PoolIInv'
  BY <1>4 DEF Create
<1> QED
  BY <1>1, <1>2, <1>3, <1>4 DEF Send

\* The sweep.
LEMMA PoolSweepIInv == PoolIInv /\ Sweep => PoolIInv'
<1> USE DEF PoolIInv, PoolTypeOK, ActiveIsPooled, PoolHoldsLiveObjects, SweepInPool,
            UnbornUnknown, SendingIsFresh, NoSenderForgotten
<1> SUFFICES ASSUME PoolIInv, Sweep PROVE PoolIInv'
  OBVIOUS
<1>1. CASE BeginSweep
  BY <1>1 DEF BeginSweep
<1>2. CASE EndSweep
  BY <1>2 DEF EndSweep
<1>3. ASSUME NEW s \in Senders, SweepVisit(s) PROVE PoolIInv'
  BY <1>3 DEF SweepVisit
<1> QED
  BY <1>1, <1>2, <1>3 DEF Sweep

\* The steps of a worker.
LEMMA PoolWorkIInv ==
  ASSUME PoolIInv, NEW s \in Senders, Work(s)
  PROVE  PoolIInv'
<1> USE DEF PoolIInv, PoolTypeOK, ActiveIsPooled, PoolHoldsLiveObjects, SweepInPool,
            UnbornUnknown, SendingIsFresh, NoSenderForgotten
<1>1. CASE Socket(s)
  BY <1>1 DEF Socket
<1>2. CASE Connect(s)
  BY <1>2 DEF Connect
<1>3. CASE Write(s)
  BY <1>3 DEF Write
<1>4. CASE Close(s)
  BY <1>4 DEF Close
<1>5. CASE ClearRunning(s)
  BY <1>5 DEF ClearRunning
<1>6. CASE SetFinished(s)
  BY <1>6 DEF SetFinished
<1> QED
  BY <1>1, <1>2, <1>3, <1>4, <1>5, <1>6 DEF Work

\* The inductive invariant holds in every state of the pool.
LEMMA PoolInvariant == PoolSpec => []PoolIInv
<1>1. PoolIInv /\ [PoolNext]_poolVars => PoolIInv'
  <2> SUFFICES ASSUME PoolIInv, [PoolNext]_poolVars PROVE PoolIInv'
    OBVIOUS
  <2>1. CASE UNCHANGED poolVars
    BY <2>1 DEF poolVars, PoolIInv, PoolTypeOK, ActiveIsPooled, PoolHoldsLiveObjects,
                SweepInPool, UnbornUnknown, SendingIsFresh, NoSenderForgotten
  <2>2. CASE PoolNext
    BY <2>2, PoolSendIInv, PoolSweepIInv, PoolWorkIInv DEF PoolNext
  <2> QED
    BY <2>1, <2>2
<1> QED
  BY PoolInitIInv, <1>1, PTL DEF PoolSpec

\* Every variable keeps its type, for any set of senders.
THEOREM PoolTypeCorrect == PoolSpec => []PoolTypeOK
<1>1. PoolIInv => PoolTypeOK
  BY DEF PoolIInv
<1> QED
  BY PoolInvariant, <1>1, PTL

\* updatePool never deletes an object whose pthread can still touch it, and its
\* erase in the middle of the walk leaves pool and iterator on live ones.
THEOREM PoolSafe == PoolSpec => []NoUseAfterDelete
<1>1. PoolIInv => NoAccessAfterDelete
  BY DEF PoolIInv, ActiveIsPooled, PoolHoldsLiveObjects, NoAccessAfterDelete
<1>2. PoolIInv => NoUseAfterDelete
  BY <1>1 DEF PoolIInv, NoUseAfterDelete
<1> QED
  BY PoolInvariant, <1>2, PTL

\* No live object is lost to the pool, and start never finds a used sender.
THEOREM PoolComplete == PoolSpec => []NoSenderForgotten
<1>1. PoolIInv => NoSenderForgotten
  BY DEF PoolIInv
<1> QED
  BY PoolInvariant, <1>1, PTL

-----------------------------------------------------------------------------
(* Of things: what a handler does with each of a set, one after the other.  *)
(* A lemma about such a fold sets up what holds when a part of the set is   *)
(* done (Good) and one more step from there, and comes to the whole of it   *)
(* by RunReaches and StepByStep: no lemma can take the step as an operator. *)

\* h is what comes of the parts of S when `step` is done with each of a part.
Runs(h, base, step, S) ==
    h = [s \in SUBSET S |-> IF s = {} THEN base ELSE step[<<Pick(s), h[s \ {Pick(s)}]>>]]

RunsTo(h, base, step, S, n) ==
    \A t \in SUBSET S : Cardinality(t) <= n =>
        h[t] = IF t = {} THEN base ELSE step[<<Pick(t), h[t \ {Pick(t)}]>>]

LEMMA RunExists ==
  ASSUME NEW step, NEW base, NEW S, IsFiniteSet(S)
  PROVE  \E h : Runs(h, base, step, S)
  <1> DEFINE Bad == {s \in SUBSET S : ~ \E g : RunsTo(g, base, step, S, Cardinality(s))}
  <1>1. Bad = {}
    <2>1. SUFFICES ASSUME Bad # {} PROVE FALSE
      OBVIOUS
    <2>2. Bad \subseteq SUBSET S
      OBVIOUS
    <2> HIDE DEF Bad
    <2>3. PICK s \in Bad : \A t \in Bad : t \subseteq s => t = s
      BY <2>1, <2>2, Minimal
    <2> USE DEF Bad
    <2>4. IsFiniteSet(s) /\ Cardinality(s) \in Nat
      BY FS_Subset, FS_CardinalityType
    <2>5. CASE s = {}
      <3> DEFINE g == [t \in SUBSET S |-> base]
      <3>1. \A t \in SUBSET S : Cardinality(t) <= 0 => t = {}
        <4>1. TAKE t \in SUBSET S
        <4>2. IsFiniteSet(t) /\ Cardinality(t) \in Nat
          BY <4>1, FS_Subset, FS_CardinalityType
        <4> QED BY <4>2, FS_EmptySet
      <3>2. Cardinality(s) = 0
        BY <2>5, FS_EmptySet
      <3>3. RunsTo(g, base, step, S, Cardinality(s))
        BY <3>1, <3>2 DEF RunsTo
      <3> QED BY <3>3
    <2>6. CASE s # {}
      <3>1. s \ {Pick(s)} \in SUBSET S /\ s \ {Pick(s)} \notin Bad
        BY <2>3, <2>6, Picked
      <3>2. PICK g : RunsTo(g, base, step, S, Cardinality(s) - 1)
        BY <3>1, <2>6, Picked
      <3> DEFINE h == [t \in SUBSET S |-> IF Cardinality(t) <= Cardinality(s) - 1 THEN g[t]
                          ELSE step[<<Pick(t), g[t \ {Pick(t)}]>>]]
      <3>3. ASSUME NEW t \in SUBSET S, Cardinality(t) <= Cardinality(s)
            PROVE  h[t] = IF t = {} THEN base ELSE step[<<Pick(t), h[t \ {Pick(t)}]>>]
        <4>1. Cardinality(t) \in Nat
          BY FS_Subset, FS_CardinalityType
        <4>2. CASE t = {}
          <5>1. Cardinality(t) = 0 /\ Cardinality(s) # 0
            BY <2>4, <2>6, <4>2, FS_EmptySet
          <5>2. h[t] = g[t] /\ g[t] = base
            <6>1. Cardinality(t) <= Cardinality(s) - 1
              BY <2>4, <5>1
            <6>2. g[t] = base
              BY <3>2, <4>2, <6>1 DEF RunsTo
            <6> QED BY <6>1, <6>2
          <5> QED BY <4>2, <5>2
        <4>3. CASE t # {}
          <5> DEFINE u == t \ {Pick(t)}
          <5>1. u \in SUBSET S /\ Cardinality(u) = Cardinality(t) - 1
            BY <4>3, Picked
          <5>2. h[u] = g[u]
            BY <5>1, <3>3, <4>1, <2>4
          <5>3. h[t] = step[<<Pick(t), g[u]>>]
            <6>1. CASE Cardinality(t) <= Cardinality(s) - 1
              BY <6>1, <3>2, <4>3 DEF RunsTo
            <6>2. CASE ~ Cardinality(t) <= Cardinality(s) - 1
              BY <6>2
            <6> QED BY <6>1, <6>2
          <5> QED BY <4>3, <5>2, <5>3
        <4> QED BY <4>2, <4>3
      <3> HIDE DEF h
      <3>4. RunsTo(h, base, step, S, Cardinality(s))
        BY <3>3 DEF RunsTo
      <3> QED BY <3>4
    <2> QED BY <2>5, <2>6
  <1>2. S \in SUBSET S /\ S \notin Bad
    BY <1>1
  <1>3. PICK g : RunsTo(g, base, step, S, Cardinality(S))
    BY <1>2
  <1> DEFINE h == [t \in SUBSET S |-> g[t]]
  <1>4. ASSUME NEW t \in SUBSET S
        PROVE  h[t] = IF t = {} THEN base ELSE step[<<Pick(t), h[t \ {Pick(t)}]>>]
    <2>1. Cardinality(t) <= Cardinality(S)
      BY FS_Subset
    <2>2. t \ {Pick(t)} \in SUBSET S
      OBVIOUS
    <2> QED BY <1>3, <2>1, <2>2 DEF RunsTo
  <1>5. h = [t \in SUBSET S |-> h[t]]
    OBVIOUS
  <1> HIDE DEF h
  <1>6. Runs(h, base, step, S)
    <2>1. [t \in SUBSET S |-> h[t]]
             = [t \in SUBSET S |-> IF t = {} THEN base ELSE step[<<Pick(t), h[t \ {Pick(t)}]>>]]
      BY <1>4
    <2> QED BY <1>5, <2>1 DEF Runs
  <1> QED BY <1>6

\* What holds of nothing done, and still holds with each more, holds of all.
LEMMA StepByStep ==
  ASSUME NEW S, IsFiniteSet(S), NEW h, NEW I, <<{}, h[{}]>> \in I,
         \A s \in SUBSET S : s # {} /\ <<s \ {Pick(s)}, h[s \ {Pick(s)}]>> \in I => <<s, h[s]>> \in I
  PROVE  \A s \in SUBSET S : <<s, h[s]>> \in I
  <1> DEFINE Bad == {s \in SUBSET S : <<s, h[s]>> \notin I}
  <1>1. SUFFICES ASSUME Bad # {} PROVE FALSE
    OBVIOUS
  <1>2. Bad \subseteq SUBSET S
    OBVIOUS
  <1> HIDE DEF Bad
  <1>3. PICK s \in Bad : \A t \in Bad : t \subseteq s => t = s
    BY <1>1, <1>2, Minimal
  <1>4. s \in SUBSET S
    BY <1>2
  <1> USE DEF Bad
  <1>5. s # {}
    OBVIOUS
  <1>6. s \ {Pick(s)} \in SUBSET S /\ s \ {Pick(s)} \notin Bad
    BY <1>3, <1>4, <1>5, Picked
  <1> QED BY <1>3, <1>4, <1>5, <1>6

\* Each step from base on leads to a member of I.
Leads(base, step, S, I) ==
    /\ IsFiniteSet(S) /\ <<{}, base>> \in I
    /\ \A s \in SUBSET S : \A v :
         s # {} /\ <<s \ {Pick(s)}, v>> \in I => <<s, step[<<Pick(s), v>>]>> \in I

LEMMA RunReaches ==
  ASSUME NEW step, NEW base, NEW S, NEW I, Leads(base, step, S, I)
  PROVE  \E h : Runs(h, base, step, S) /\ \A s \in SUBSET S : <<s, h[s]>> \in I
  <1>1. PICK h : Runs(h, base, step, S)
    BY RunExists DEF Leads
  <1> DEFINE k == [s \in SUBSET S |-> IF s = {} THEN base ELSE step[<<Pick(s), h[s \ {Pick(s)}]>>]]
  <1>2. h = k
    BY <1>1 DEF Runs
  <1>3. \A s \in SUBSET S : k[s] = IF s = {} THEN base ELSE step[<<Pick(s), h[s \ {Pick(s)}]>>]
    OBVIOUS
  <1> HIDE DEF k
  <1>4. h[{}] = base
    BY <1>2, <1>3
  <1>5. \A s \in SUBSET S : s # {} /\ <<s \ {Pick(s)}, h[s \ {Pick(s)}]>> \in I => <<s, h[s]>> \in I
    BY <1>2, <1>3 DEF Leads
  <1>6. \A s \in SUBSET S : <<s, h[s]>> \in I
    BY <1>4, <1>5, StepByStep DEF Leads
  <1> QED BY <1>1, <1>6
-----------------------------------------------------------------------------
(* Worlds in order. *)

Thing ==
    {Clear, Extracted} \cup
    [kind : Kinds, count : Nat \ {0}, at : Spots, worn : BOOLEAN]

Worlds ==
    [obj : [Objs -> Thing], load : [Chars -> Int], number : [Chars -> Int],
     light : [Rooms -> Int], index : [Kinds -> Int], here : [Chars -> Rooms]]

\* A thing that is nowhere was left there by make_corpse, or is scraps with nothing in them; what a thing is in is there.
Hung(w, o) ==
    \/ w.obj[o].at \in {"queue", "free", "aside"} \cup Chars \cup Rooms
    \/ w.obj[o].at \in Live(w)
    \/ w.obj[o].at = Null /\ w.obj[o].kind = Scraps /\ In(w, o) = {}

\* No thing is in itself, through whatever it is in.
Rooted(w) == \A C \in SUBSET Objs : (\A c \in C : w.obj[c].at \in C) => C = {}

\* The pieces of a kind in each stack
Pieces(w, k) == [o \in Objs |-> IF w.obj[o].kind = k THEN w.obj[o].count ELSE 0]

Counted(w) == \A k \in Kinds : w.index[k] = SumFunction(Pieces(w, k))

\* Everything hangs somewhere but H, which is on its way, and is counted.
Orderly(w, H) ==
    /\ w \in Worlds /\ H \subseteq Live(w)
    /\ \A o \in Objs \ H : Hung(w, o)
    /\ Rooted(w)
    /\ Counted(w)

\* Nothing but T is moved.
Still(w, v, T) == \A y \in Objs \ T : v.obj[y].at = w.obj[y].at

\* A thing can be laid at p unless it is one of C, what p is and what it is in.
Holds(w, p, C, H) ==
    /\ C \subseteq Live(w) /\ \A c \in C : w.obj[c].at \in Objs => w.obj[c].at \in C
    /\ p \in Chars \cup Rooms \cup {"aside"} \/ (p \in C /\ (w.obj[p].at # Null \/ p \in H))

LEMMA ThingFacts ==
    /\ IsFiniteSet(Objs) /\ Chars \cap Rooms = {} /\ Objs \cap (Chars \cup Rooms) = {}
    /\ Null \notin Places \cup Kinds /\ "aside" \notin Places \cup {Null}
    /\ "queue" \notin Spots /\ "free" \notin Spots /\ Spots = Places \cup {Null, "aside"}
    /\ Quarters \in Rooms
    /\ Weight \in [Kinds -> Nat] /\ Corpse \in Kinds /\ Scraps \in Kinds
    /\ Below \in [Rooms -> Rooms \cup {Null}]
    /\ Places = Chars \cup Rooms \cup Objs
  BY ObjectsAssumption DEF Places, Spots

LEMMA WorldFields ==
  ASSUME NEW w \in Worlds
  PROVE  /\ w.obj \in [Objs -> Thing] /\ w.load \in [Chars -> Int] /\ w.number \in [Chars -> Int]
         /\ w.light \in [Rooms -> Int] /\ w.index \in [Kinds -> Int] /\ w.here \in [Chars -> Rooms]
         /\ w = [obj |-> w.obj, load |-> w.load, number |-> w.number, light |-> w.light,
                 index |-> w.index, here |-> w.here]
  BY DEF Worlds

LEMMA ThingOf ==
  ASSUME NEW w \in Worlds, NEW o \in Objs
  PROVE  /\ w.obj[o] \in Thing
         /\ o \in Live(w) <=> w.obj[o] \in [kind : Kinds, count : Nat \ {0}, at : Spots, worn : BOOLEAN]
         /\ o \in Live(w) => /\ w.obj[o].kind \in Kinds /\ w.obj[o].count \in Nat \ {0}
                             /\ w.obj[o].at \in Spots /\ w.obj[o].worn \in BOOLEAN
         /\ o \notin Live(w) => w.obj[o].kind = Null /\ w.obj[o].count = 0 /\ w.obj[o] \in {Clear, Extracted}
         /\ w.obj[o].count \in Nat
  <1>1. w.obj[o] \in Thing
    BY WorldFields
  <1>2. CASE w.obj[o] \in {Clear, Extracted}
    <2>1. w.obj[o].at \in {"free", "queue"} /\ w.obj[o].kind = Null /\ w.obj[o].count = 0
      BY <1>2 DEF Clear, Extracted
    <2>2. w.obj[o] \notin [kind : Kinds, count : Nat \ {0}, at : Spots, worn : BOOLEAN]
      BY <2>1
    <2> QED BY <1>1, <1>2, <2>1, <2>2 DEF Live
  <1>3. CASE w.obj[o] \in [kind : Kinds, count : Nat \ {0}, at : Spots, worn : BOOLEAN]
    <2>1. /\ w.obj[o].kind \in Kinds /\ w.obj[o].count \in Nat \ {0}
          /\ w.obj[o].at \in Spots /\ w.obj[o].worn \in BOOLEAN
      BY <1>3
    <2> QED BY <1>1, <1>3, <2>1, ThingFacts DEF Live
  <1> QED BY <1>1, <1>2, <1>3 DEF Thing

-----------------------------------------------------------------------------
(* Things within things, and their weight. *)

LEMMA WholeFacts ==
  ASSUME NEW w, NEW o \in Objs
  PROVE  /\ o \in Whole(w, o) /\ Whole(w, o) \subseteq Objs
         /\ \A y \in Objs : w.obj[y].at \in Whole(w, o) => y \in Whole(w, o)
         /\ \A x \in Whole(w, o) \ {o} : w.obj[x].at \in Whole(w, o)
         /\ \A C \in SUBSET Objs :
                o \in C /\ (\A y \in Objs : w.obj[y].at \in C => y \in C) => Whole(w, o) \subseteq C
  <1> DEFINE Closed(C) == o \in C /\ (\A y \in Objs : w.obj[y].at \in C => y \in C)
  <1>1. Whole(w, o) = {x \in Objs : \A C \in SUBSET Objs : Closed(C) => x \in C}
    BY DEF Whole
  <1>2. \A C \in SUBSET Objs : Closed(C) => Whole(w, o) \subseteq C
    BY <1>1
  <1>3. Closed(Whole(w, o))
    BY <1>1
  <1>4. ASSUME NEW x \in Whole(w, o) \ {o}, w.obj[x].at \notin Whole(w, o) PROVE FALSE
    <2>1. Closed(Whole(w, o) \ {x})
      BY <1>3, <1>4
    <2> QED BY <1>1, <1>2, <1>4, <2>1
  <1> QED BY <1>1, <1>2, <1>3, <1>4

LEMMA WholeLive ==
  ASSUME NEW w \in Worlds, NEW o \in Live(w)
  PROVE  Whole(w, o) \subseteq Live(w)
  <1>1. o \in Objs /\ Live(w) \in SUBSET Objs
    BY DEF Live
  <1>2. \A y \in Objs : w.obj[y].at \in Live(w) => y \in Live(w)
    BY ThingFacts DEF Live, Places
  <1> QED BY <1>1, <1>2, WholeFacts

LEMMA WeightIsInt ==
  ASSUME NEW w \in Worlds, NEW o \in Live(w)
  PROVE  WeightOf(w, o) \in Int
  <1> DEFINE f == [x \in Whole(w, o) |-> w.obj[x].count * Weight[w.obj[x].kind]]
  <1>1. o \in Objs
    BY DEF Live
  <1>2. Whole(w, o) \subseteq Live(w) /\ IsFiniteSet(Whole(w, o))
    BY <1>1, WholeLive, WholeFacts, ThingFacts, FS_Subset
  <1>3. \A a, b \in Nat : a * b \in Int
    OBVIOUS
  <1>4. ASSUME NEW x \in Whole(w, o) PROVE w.obj[x].count * Weight[w.obj[x].kind] \in Int
    <2>1. x \in Objs /\ x \in Live(w)
      BY <1>2 DEF Live
    <2>2. w.obj[x].count \in Nat /\ Weight[w.obj[x].kind] \in Nat
      BY <2>1, ThingOf, ThingFacts
    <2> QED BY <1>3, <2>2
  <1>5. f \in [Whole(w, o) -> Int]
    BY <1>4
  <1> HIDE DEF f
  <1>6. SumFunction(f) \in Int
    BY <1>2, <1>5, SumType
  <1> QED BY <1>6 DEF WeightOf, f

-----------------------------------------------------------------------------
(* The count of a kind. *)

LEMMA SumTwo ==
  ASSUME NEW S, IsFiniteSet(S), NEW f \in [S -> Int], NEW g \in [S -> Int],
         NEW i \in S, NEW j \in S, i # j, \A l \in S : l # i /\ l # j => g[l] = f[l]
  PROVE  SumFunction(g) = SumFunction(f) + g[i] - f[i] + g[j] - f[j]
  <1> DEFINE m == [f EXCEPT ![i] = g[i]]
  <1>1. m \in [S -> Int] /\ m[i] = g[i] /\ \A l \in S : l # i => m[l] = f[l]
    OBVIOUS
  <1> HIDE DEF m
  <1>2. SumFunction(m) = SumFunction(f) + m[i] - f[i]
    BY <1>1, SumUpdated
  <1>3. \A l \in S : l # j => g[l] = m[l]
    BY <1>1
  <1>4. SumFunction(g) = SumFunction(m) + g[j] - m[j]
    BY <1>1, <1>3, SumUpdated
  <1>5. SumFunction(f) \in Int /\ f[i] \in Int /\ f[j] \in Int /\ g[i] \in Int /\ g[j] \in Int
    BY SumType
  <1> QED BY <1>1, <1>2, <1>4, <1>5

LEMMA PiecesType ==
  ASSUME NEW w \in Worlds, NEW k
  PROVE  Pieces(w, k) \in [Objs -> Int] /\ SumFunction(Pieces(w, k)) \in Int
  <1>1. \A o \in Objs : w.obj[o].count \in Int
    BY ThingOf
  <1>2. Pieces(w, k) \in [Objs -> Int]
    BY <1>1 DEF Pieces
  <1> QED BY <1>2, SumType, ThingFacts

\* Nothing is counted otherwise where kinds and counts are the same.
LEMMA SameCounted ==
  ASSUME NEW w, NEW v, v.index = w.index, Counted(w),
         \A o \in Objs : v.obj[o].kind = w.obj[o].kind /\ v.obj[o].count = w.obj[o].count
  PROVE  Counted(v)
  <1>1. \A k \in Kinds : Pieces(v, k) = Pieces(w, k)
    BY DEF Pieces
  <1> QED BY <1>1 DEF Counted

-----------------------------------------------------------------------------
(* Where nothing is moved, and where one thing is. *)

LEMMA SameOrder ==
  ASSUME NEW H, NEW w, Orderly(w, H), NEW v \in Worlds, v.index = w.index,
         \A o \in Objs : /\ v.obj[o].kind = w.obj[o].kind /\ v.obj[o].count = w.obj[o].count
                         /\ v.obj[o].at = w.obj[o].at
  PROVE  Orderly(v, H)
  <1>1. Live(v) = Live(w) /\ \A o : In(v, o) = In(w, o)
    BY DEF Live, In
  <1>2. \A o \in Objs : Hung(w, o) => Hung(v, o)
    BY <1>1 DEF Hung
  <1>3. Rooted(v)
    BY DEF Orderly, Rooted
  <1>4. Counted(v)
    BY SameCounted DEF Orderly
  <1> QED BY <1>1, <1>2, <1>3, <1>4 DEF Orderly

\* Who is on his way may be said to be so.
LEMMA MoreOnTheWay ==
  ASSUME NEW w, NEW H, Orderly(w, H), NEW G, H \subseteq G, G \subseteq Live(w)
  PROVE  Orderly(w, G)
  BY DEF Orderly

LEMMA StillHolds ==
  ASSUME NEW w, NEW v, NEW T, Still(w, v, T), NEW p, NEW C, NEW H, NEW G, Holds(w, p, C, H),
         T \cap C = {}, H \cap C \subseteq G
  PROVE  Holds(v, p, C, G)
  <1>1. C \subseteq Objs /\ \A c \in C : v.obj[c].at = w.obj[c].at
    BY DEF Still, Holds, Live
  <1>2. C \subseteq Live(v)
    BY <1>1 DEF Holds, Live
  <1> QED BY <1>1, <1>2 DEF Holds

LEMMA StillOn ==
  ASSUME NEW w, NEW v, NEW u, NEW T, NEW U, Still(w, v, T), Still(v, u, U)
  PROVE  Still(w, u, T \cup U)
  BY DEF Still

-----------------------------------------------------------------------------
(* Lists and stacks. *)

LEMMA PutFacts ==
  ASSUME NEW w \in Worlds, NEW o \in Live(w), NEW p \in Spots
  PROVE  /\ Put(w, o, p) \in Worlds /\ Put(w, o, p).index = w.index /\ Put(w, o, p).here = w.here
         /\ \A y \in Objs : y # o => Put(w, o, p).obj[y] = w.obj[y]
         /\ Put(w, o, p).obj[o].kind = w.obj[o].kind /\ Put(w, o, p).obj[o].count = w.obj[o].count
         /\ Put(w, o, p).obj[o].at = p
         /\ Live(Put(w, o, p)) = Live(w)
  <1> DEFINE r == [w.obj[o] EXCEPT !.at = p]
             v == Put(w, o, p)
  <1>1. o \in Objs
    BY DEF Live
  <1>2. w.obj[o] \in [kind : Kinds, count : Nat \ {0}, at : Spots, worn : BOOLEAN]
    BY <1>1, ThingOf
  <1>3. r \in Thing /\ r.kind = w.obj[o].kind /\ r.count = w.obj[o].count /\ r.at = p
    BY <1>2 DEF Thing
  <1> HIDE DEF r
  <1>4. v = [w EXCEPT !.obj = [w.obj EXCEPT ![o] = r]]
    BY WorldFields DEF Put, r
  <1>5. /\ v.obj = [w.obj EXCEPT ![o] = r] /\ v.load = w.load /\ v.number = w.number
        /\ v.light = w.light /\ v.index = w.index /\ v.here = w.here
    BY <1>4, WorldFields
  <1>6. v.obj \in [Objs -> Thing]
    <2>1. w.obj \in [Objs -> Thing]
      BY WorldFields
    <2> HIDE DEF v
    <2> QED BY <1>3, <1>5, <2>1
  <1>7. v \in Worlds
    BY <1>4, <1>6, <1>5 DEF Worlds
  <1>8. /\ \A y \in Objs : y # o => v.obj[y] = w.obj[y]
        /\ v.obj[o] = r
    BY <1>1, <1>5, WorldFields
  <1>9. Live(v) = Live(w)
    BY <1>3, <1>8, ThingFacts DEF Live
  <1> QED BY <1>3, <1>5, <1>7, <1>8, <1>9

\* o has been taken up, from wherever it was, or laid down.
PickedUp(w, v, o, H) ==
    Orderly(v, H \cup {o}) /\ Still(w, v, {o}) /\ v.obj[o].at = Null /\ v.here = w.here

PutDown(w, v, o, H) ==
    Orderly(v, H \ {o}) /\ Still(w, v, {o}) /\ v.here = w.here

\* o may be laid down at p.
MayLie(w, o, p, C, H) ==
    Orderly(w, H) /\ o \in Live(w) /\ Holds(w, p, C, H) /\ o \notin C

LEMMA TakenUp ==
  ASSUME NEW H, NEW w, Orderly(w, H), NEW o \in Live(w)
  PROVE  PickedUp(w, Put(w, o, Null), o, H)
  <1> DEFINE v == Put(w, o, Null)
  <1>1. o \in Objs /\ w \in Worlds
    BY DEF Live, Orderly
  <1>2. /\ v \in Worlds /\ v.index = w.index /\ v.here = w.here
        /\ \A y \in Objs : y # o => v.obj[y] = w.obj[y]
        /\ v.obj[o].kind = w.obj[o].kind /\ v.obj[o].count = w.obj[o].count
        /\ v.obj[o].at = Null /\ Live(v) = Live(w)
    <2>1. Null \in Spots
      BY ThingFacts
    <2> QED BY <1>1, <2>1, PutFacts
  <1> HIDE DEF v
  <1>3. \A y \in Objs \ (H \cup {o}) : Hung(v, y)
    <2> SUFFICES ASSUME NEW y \in Objs \ (H \cup {o}) PROVE Hung(v, y)
      OBVIOUS
    <2>1. Hung(w, y) /\ v.obj[y] = w.obj[y]
      BY <1>2 DEF Orderly
    <2>2. In(v, y) \subseteq In(w, y)
      BY <1>2, ThingFacts DEF In, Places
    <2> QED BY <1>2, <2>1, <2>2 DEF Hung
  <1>4. Rooted(v)
    <2> SUFFICES ASSUME NEW D \in SUBSET Objs, \A d \in D : v.obj[d].at \in D PROVE D = {}
      BY DEF Rooted
    <2>1. o \notin D
      BY <1>2, ThingFacts DEF Places
    <2>2. \A d \in D : w.obj[d].at \in D
      BY <1>2, <2>1
    <2> QED BY <2>2 DEF Orderly, Rooted
  <1>5. Counted(v)
    BY <1>2, SameCounted DEF Orderly
  <1>6. Orderly(v, H \cup {o}) /\ Still(w, v, {o})
    BY <1>2, <1>3, <1>4, <1>5 DEF Orderly, Still
  <1>7. PickedUp(w, v, o, H)
    BY <1>2, <1>6 DEF PickedUp
  <1> QED BY <1>7 DEF v

LEMMA LaidDown ==
  ASSUME NEW H, NEW w, NEW o, NEW p, NEW C, MayLie(w, o, p, C, H)
  PROVE  PutDown(w, Put(w, o, p), o, H) /\ Put(w, o, p).obj[o].at = p
  <1> DEFINE v == Put(w, o, p)
  <1> USE DEF MayLie
  <1>1. o \in Objs /\ w \in Worlds
    BY DEF Live, Orderly
  <1>2. C \subseteq Objs /\ p \in Spots
    BY ThingFacts DEF Holds, Live
  <1>3. /\ v \in Worlds /\ v.index = w.index /\ v.here = w.here
        /\ \A y \in Objs : y # o => v.obj[y] = w.obj[y]
        /\ v.obj[o].kind = w.obj[o].kind /\ v.obj[o].count = w.obj[o].count
        /\ v.obj[o].at = p /\ Live(v) = Live(w)
    BY <1>2, <1>1, PutFacts
  <1> HIDE DEF v
  <1>4. ASSUME NEW y \in Objs \ (H \ {o}) PROVE Hung(v, y)
    <2>1. CASE y = o
      BY <1>3, <2>1 DEF Hung, Holds
    <2>2. CASE y # o
      <3>1. Hung(w, y) /\ v.obj[y] = w.obj[y]
        BY <1>3, <2>2 DEF Orderly
      <3>2. w.obj[y].at = Null => p # y
        BY <2>2, <1>2, ThingFacts DEF Holds
      <3>3. w.obj[y].at = Null => In(v, y) \subseteq In(w, y)
        BY <1>3, <3>2 DEF In
      <3> QED BY <1>3, <3>1, <3>3 DEF Hung
    <2> QED BY <2>1, <2>2
  <1>5. Rooted(v)
    <2> SUFFICES ASSUME NEW D \in SUBSET Objs, \A d \in D : v.obj[d].at \in D PROVE D = {}
      BY DEF Rooted
    <2>1. o \notin D
      <3> SUFFICES ASSUME o \in D PROVE FALSE
        OBVIOUS
      <3>1. p \in D /\ p \in C
        BY <1>3, ThingFacts DEF Holds, Places
      <3>2. \A c \in C \cap D : w.obj[c].at \in C \cap D
        BY <1>2, <1>3 DEF Holds
      <3>3. C \cap D = {}
        BY <1>2, <3>2 DEF Orderly, Rooted
      <3> QED BY <3>1, <3>3
    <2>2. \A d \in D : w.obj[d].at \in D
      BY <1>3, <2>1
    <2> QED BY <2>2 DEF Orderly, Rooted
  <1>6. Counted(v)
    BY <1>3, SameCounted DEF Orderly
  <1>7. Orderly(v, H \ {o}) /\ Still(w, v, {o})
    BY <1>3, <1>4, <1>5, <1>6 DEF Orderly, Still
  <1>8. PutDown(w, v, o, H)
    BY <1>3, <1>7 DEF PutDown
  <1> QED BY <1>3, <1>8 DEF v

\* A thing joins a stack of its kind.
Joined(w, o, t) == [w EXCEPT !.obj[t].count = @ + w.obj[o].count, !.obj[o] = Extracted]

LEMMA JoinsStack ==
  ASSUME NEW H, NEW w, Orderly(w, H), NEW o \in Live(w), NEW t \in Live(w), t # o,
         w.obj[t].kind = w.obj[o].kind, In(w, o) = {}
  PROVE  PutDown(w, Joined(w, o, t), o, H) /\ Joined(w, o, t).obj[o].at = "queue"
  <1> DEFINE v == Joined(w, o, t)
             r == [w.obj[t] EXCEPT !.count = @ + w.obj[o].count]
  <1>1. o \in Objs /\ t \in Objs /\ w \in Worlds
    BY DEF Live, Orderly
  <1>2. /\ w.obj[t] \in [kind : Kinds, count : Nat \ {0}, at : Spots, worn : BOOLEAN]
        /\ w.obj[o].count \in Nat \ {0} /\ w.obj[t].count \in Nat \ {0} /\ w.obj[o].kind \in Kinds
    BY <1>1, ThingOf
  <1>3. /\ r \in Thing /\ r.kind = w.obj[t].kind /\ r.count = w.obj[t].count + w.obj[o].count
        /\ r.at = w.obj[t].at
    BY <1>2 DEF Thing
  <1> HIDE DEF r
  <1>4. v = [w EXCEPT !.obj = [[w.obj EXCEPT ![t] = r] EXCEPT ![o] = Extracted]]
    BY <1>1, WorldFields DEF Joined, r
  <1>5. /\ v.obj = [[w.obj EXCEPT ![t] = r] EXCEPT ![o] = Extracted] /\ v.load = w.load /\ v.number = w.number
        /\ v.light = w.light /\ v.index = w.index /\ v.here = w.here
    BY <1>4, WorldFields
  <1>6. v.obj \in [Objs -> Thing]
    <2>1. Extracted \in Thing
      BY DEF Thing
    <2> QED BY <1>1, <1>3, <1>5, <2>1, WorldFields
  <1>7. v \in Worlds
    BY <1>4, <1>6, <1>5, WorldFields, <1>1 DEF Worlds
  <1>8. /\ \A y \in Objs : y # o /\ y # t => v.obj[y] = w.obj[y]
        /\ v.obj[o] = Extracted /\ v.obj[t] = r
    BY <1>1, <1>5, WorldFields
  <1>9. \A y \in Objs : y # o => v.obj[y].at = w.obj[y].at /\ v.obj[y].kind = w.obj[y].kind
    BY <1>3, <1>8
  <1>10. v.obj[o].at = "queue" /\ v.obj[o].kind = Null /\ v.obj[o].count = 0
    BY <1>8 DEF Extracted, Clear
  <1> HIDE DEF v
  <1>11. Live(v) = Live(w) \ {o}
    BY <1>9, <1>10 DEF Live
  <1>12. ASSUME NEW y \in Objs \ (H \ {o}) PROVE Hung(v, y)
    <2>1. CASE y = o
      BY <1>10, <2>1 DEF Hung
    <2>2. CASE y # o
      <3>1. Hung(w, y) /\ w.obj[y].at # o
        BY <2>2 DEF Orderly, In
      <3>2. In(v, y) \subseteq In(w, y)
        BY <1>9, <1>10, ThingFacts DEF In, Places
      <3> QED BY <1>9, <1>11, <2>2, <3>1, <3>2 DEF Hung
    <2> QED BY <2>1, <2>2
  <1>13. Rooted(v)
    <2> SUFFICES ASSUME NEW D \in SUBSET Objs, \A d \in D : v.obj[d].at \in D PROVE D = {}
      BY DEF Rooted
    <2>1. o \notin D
      BY <1>10, ThingFacts DEF Places
    <2>2. \A d \in D : w.obj[d].at \in D
      BY <1>9, <2>1
    <2> QED BY <2>2 DEF Orderly, Rooted
  <1>14. Counted(v)
    <2> SUFFICES ASSUME NEW k \in Kinds PROVE v.index[k] = SumFunction(Pieces(v, k))
      BY DEF Counted
    <2> DEFINE f == Pieces(w, k)
               g == Pieces(v, k)
    <2>1. f \in [Objs -> Int] /\ g \in [Objs -> Int] /\ SumFunction(f) \in Int
      BY <1>1, <1>7, PiecesType
    <2>2. \A y \in Objs : y # o /\ y # t => g[y] = f[y]
      BY <1>8 DEF Pieces
    <2>3. Null # k
      BY ThingFacts
    <2>4. /\ g[o] = 0 /\ f[o] = IF w.obj[o].kind = k THEN w.obj[o].count ELSE 0
          /\ f[t] = IF w.obj[t].kind = k THEN w.obj[t].count ELSE 0
          /\ g[t] = IF w.obj[t].kind = k THEN w.obj[t].count + w.obj[o].count ELSE 0
      BY <1>1, <1>3, <1>8, <1>10, <2>3 DEF Pieces
    <2> HIDE DEF f, g
    <2>5. SumFunction(g) = SumFunction(f) + g[t] - f[t] + g[o] - f[o]
      BY <1>1, <2>1, <2>2, SumTwo, ThingFacts
    <2>6. g[t] - f[t] + g[o] - f[o] = 0
      BY <1>2, <2>4
    <2>7. SumFunction(g) = SumFunction(f)
      BY <1>1, <2>1, <2>5, <2>6
    <2>8. w.index[k] = SumFunction(f)
      BY DEF Orderly, Counted, f
    <2> QED BY <1>5, <2>7, <2>8 DEF g, v
  <1>15. H \ {o} \subseteq Live(v)
    BY <1>11 DEF Orderly
  <1>16. Orderly(v, H \ {o}) /\ Still(w, v, {o})
    <2> HIDE DEF v
    <2>1. Still(w, v, {o})
      BY <1>9 DEF Still
    <2>2. Orderly(v, H \ {o})
      BY <1>7, <1>12, <1>13, <1>14, <1>15 DEF Orderly
    <2> QED BY <2>1, <2>2
  <1>17. PutDown(w, v, o, H)
    BY <1>5, <1>16 DEF PutDown, v
  <1> QED BY <1>10, <1>17 DEF v

\* Either way a thing that is laid down has arrived.
LEMMA Grouped ==
  ASSUME NEW H, NEW w, NEW o, NEW p, NEW C, MayLie(w, o, p, C, H)
  PROVE  PutDown(w, Group(w, o, p), o, H) /\ Group(w, o, p).obj[o].at \in {p, "queue"}
  <1>1. CASE Stacks(w, o, p) = {}
    <2>1. Group(w, o, p) = Put(w, o, p)
      BY <1>1 DEF Group
    <2> QED BY <2>1, LaidDown
  <1>2. CASE Stacks(w, o, p) # {}
    <2> DEFINE t == CHOOSE t \in Stacks(w, o, p) : TRUE
    <2>1. t \in Stacks(w, o, p)
      BY <1>2
    <2>2. Group(w, o, p) = Joined(w, o, t)
      BY <1>2 DEF Group, Joined
    <2> HIDE DEF t
    <2>3. t \in Objs /\ w.obj[t].at = p /\ t # o /\ w.obj[t].kind = w.obj[o].kind /\ In(w, o) = {}
      BY <2>1 DEF Stacks, Alike, In
    <2>4. p \in Spots /\ Orderly(w, H) /\ o \in Live(w)
      BY ThingFacts DEF MayLie, Holds, Live
    <2>5. t \in Live(w)
      BY <2>3, <2>4, ThingFacts DEF Live
    <2>6. PutDown(w, Joined(w, o, t), o, H) /\ Joined(w, o, t).obj[o].at = "queue"
      BY <2>3, <2>4, <2>5, JoinsStack
    <2> QED BY <2>2, <2>6
  <1> QED BY <1>1, <1>2

-----------------------------------------------------------------------------
(* The sums kept beside the lists are numbers, and move nothing.            *)

Reckons(w, v) == v \in Worlds /\ v.obj = w.obj /\ v.index = w.index /\ v.here = w.here

LEMMA ReckonedOrder ==
  ASSUME NEW H, NEW w, Orderly(w, H), NEW v, Reckons(w, v)
  PROVE  Orderly(v, H) /\ Still(w, v, {}) /\ Live(v) = Live(w) /\ v.here = w.here
  <1>1. Orderly(v, H)
    BY SameOrder DEF Reckons
  <1> QED BY <1>1 DEF Reckons, Still, Live

LEMMA LoadReckoned ==
  ASSUME NEW w \in Worlds, NEW c \in Chars, NEW n \in Int
  PROVE  Reckons(w, [w EXCEPT !.load[c] = @ + n]) /\ Reckons(w, [w EXCEPT !.load[c] = @ - n])
  <1>1. ASSUME NEW m \in Int PROVE Reckons(w, [w EXCEPT !.load[c] = m])
    <2> DEFINE v == [w EXCEPT !.load[c] = m]
    <2>1. v = [w EXCEPT !.load = [w.load EXCEPT ![c] = m]]
      BY WorldFields
    <2>2. /\ v.load = [w.load EXCEPT ![c] = m] /\ v.obj = w.obj /\ v.number = w.number
          /\ v.light = w.light /\ v.index = w.index /\ v.here = w.here
      BY <2>1, WorldFields
    <2>3. v.load \in [Chars -> Int]
      BY <2>2, WorldFields
    <2> QED BY <2>1, <2>2, <2>3, WorldFields DEF Reckons, Worlds
  <1>2. w.load[c] \in Int
    BY WorldFields
  <1>3. w.load[c] + n \in Int /\ w.load[c] - n \in Int
    BY <1>2
  <1>4. /\ [w EXCEPT !.load[c] = @ + n] = [w EXCEPT !.load[c] = w.load[c] + n]
        /\ [w EXCEPT !.load[c] = @ - n] = [w EXCEPT !.load[c] = w.load[c] - n]
    BY WorldFields
  <1> QED BY <1>1, <1>3, <1>4

LEMMA BurdenReckoned ==
  ASSUME NEW w \in Worlds, NEW c \in Chars, NEW n \in Int, NEW m \in Int
  PROVE  /\ Reckons(w, [w EXCEPT !.number[c] = @ + n, !.load[c] = @ + m])
         /\ Reckons(w, [w EXCEPT !.number[c] = @ - n, !.load[c] = @ - m])
  <1>1. ASSUME NEW i \in Int, NEW j \in Int PROVE Reckons(w, [w EXCEPT !.number[c] = i, !.load[c] = j])
    <2> DEFINE v == [w EXCEPT !.number[c] = i, !.load[c] = j]
    <2>1. v = [w EXCEPT !.number = [w.number EXCEPT ![c] = i], !.load = [w.load EXCEPT ![c] = j]]
      BY WorldFields
    <2>2. /\ v.load = [w.load EXCEPT ![c] = j] /\ v.obj = w.obj /\ v.number = [w.number EXCEPT ![c] = i]
          /\ v.light = w.light /\ v.index = w.index /\ v.here = w.here
      BY <2>1, WorldFields
    <2>3. v.load \in [Chars -> Int] /\ v.number \in [Chars -> Int]
      BY <2>2, WorldFields
    <2> QED BY <2>1, <2>2, <2>3, WorldFields DEF Reckons, Worlds
  <1>2. w.load[c] \in Int /\ w.number[c] \in Int
    BY WorldFields
  <1>3. w.load[c] + m \in Int /\ w.load[c] - m \in Int /\ w.number[c] + n \in Int /\ w.number[c] - n \in Int
    BY <1>2
  <1>4. /\ [w EXCEPT !.number[c] = @ + n, !.load[c] = @ + m]
             = [w EXCEPT !.number[c] = w.number[c] + n, !.load[c] = w.load[c] + m]
        /\ [w EXCEPT !.number[c] = @ - n, !.load[c] = @ - m]
             = [w EXCEPT !.number[c] = w.number[c] - n, !.load[c] = w.load[c] - m]
    BY WorldFields
  <1> QED BY <1>1, <1>3, <1>4

LEMMA LightReckoned ==
  ASSUME NEW w \in Worlds, NEW r \in Rooms, NEW n \in Int
  PROVE  /\ Reckons(w, [w EXCEPT !.light[r] = n])
         /\ Reckons(w, [w EXCEPT !.light[r] = @ + n]) /\ Reckons(w, [w EXCEPT !.light[r] = @ - n])
  <1>1. ASSUME NEW m \in Int PROVE Reckons(w, [w EXCEPT !.light[r] = m])
    <2> DEFINE v == [w EXCEPT !.light[r] = m]
    <2>1. v = [w EXCEPT !.light = [w.light EXCEPT ![r] = m]]
      BY WorldFields
    <2>2. /\ v.light = [w.light EXCEPT ![r] = m] /\ v.obj = w.obj /\ v.number = w.number
          /\ v.load = w.load /\ v.index = w.index /\ v.here = w.here
      BY <2>1, WorldFields
    <2>3. v.light \in [Rooms -> Int]
      BY <2>2, WorldFields
    <2> QED BY <2>1, <2>2, <2>3, WorldFields DEF Reckons, Worlds
  <1>2. w.light[r] \in Int
    BY WorldFields
  <1>3. w.light[r] + n \in Int /\ w.light[r] - n \in Int
    BY <1>2
  <1>4. /\ [w EXCEPT !.light[r] = @ + n] = [w EXCEPT !.light[r] = w.light[r] + n]
        /\ [w EXCEPT !.light[r] = @ - n] = [w EXCEPT !.light[r] = w.light[r] - n]
    BY WorldFields
  <1> QED BY <1>1, <1>3, <1>4

-----------------------------------------------------------------------------
(* Into a hand, onto the floor, into a container.                           *)

LEMMA StillDown ==
  ASSUME NEW H, NEW w, NEW g, NEW o, PutDown(w, g, o, H), NEW v, Reckons(g, v)
  PROVE  PutDown(w, v, o, H)
  <1>1. Orderly(v, H \ {o})
    <2> DEFINE G == H \ {o}
    <2>1. Orderly(g, G)
      BY DEF PutDown
    <2> HIDE DEF G
    <2>2. Orderly(v, G)
      BY <2>1, ReckonedOrder
    <2> QED BY <2>2 DEF G
  <1> QED BY <1>1 DEF PutDown, Reckons, Still

LEMMA ToChar ==
  ASSUME NEW H, NEW w, Orderly(w, H), NEW o \in Live(w), NEW c \in Chars
  PROVE  PutDown(w, ObjToChar(w, o, c), o, H)
  <1> DEFINE g == Group(w, o, c)
             n == w.obj[o].count
             m == WeightOf(w, o)
  <1>1. w \in Worlds /\ o \in Objs
    BY DEF Orderly, Live
  <1>2. n \in Int /\ m \in Int
    BY <1>1, ThingOf, WeightIsInt
  <1>3. PutDown(w, g, o, H)
    <2>1. MayLie(w, o, c, {}, H)
      BY DEF MayLie, Holds
    <2> QED BY <2>1, Grouped
  <1>4. ObjToChar(w, o, c) = [g EXCEPT !.number[c] = @ + n, !.load[c] = @ + m]
    BY DEF ObjToChar
  <1> HIDE DEF g, n, m
  <1>5. g \in Worlds
    BY <1>3 DEF PutDown, Orderly
  <1>6. Reckons(g, [g EXCEPT !.number[c] = @ + n, !.load[c] = @ + m])
    BY <1>5, <1>2, BurdenReckoned
  <1>7. Reckons(g, ObjToChar(w, o, c))
    BY <1>4, <1>6
  <1> QED BY <1>3, <1>7, StillDown

LEMMA LaidInRoom ==
  ASSUME NEW H, NEW w, Orderly(w, H), NEW o \in Live(w), NEW r \in Rooms
  PROVE  PutDown(w, Lay(w, o, r), o, H) /\ Lay(w, o, r).obj[o].at \in {r, "queue"}
  <1> DEFINE g == Group(w, o, r)
             n == IF g.obj[o].at = r /\ IsA(w, o, Glowing) THEN w.obj[o].count ELSE 0
  <1>1. w \in Worlds /\ o \in Objs
    BY DEF Orderly, Live
  <1>2. n \in Int
    BY <1>1, ThingOf
  <1>3. PutDown(w, g, o, H) /\ g.obj[o].at \in {r, "queue"}
    <2>1. MayLie(w, o, r, {}, H)
      BY DEF MayLie, Holds
    <2> QED BY <2>1, Grouped
  <1>4. Lay(w, o, r) = [g EXCEPT !.light[r] = @ + n]
    BY DEF Lay
  <1> HIDE DEF g, n
  <1>5. g \in Worlds
    BY <1>3 DEF PutDown, Orderly
  <1>6. Reckons(g, [g EXCEPT !.light[r] = @ + n])
    BY <1>5, <1>2, LightReckoned
  <1>7. Reckons(g, Lay(w, o, r))
    BY <1>4, <1>6
  <1>8. Lay(w, o, r).obj = g.obj
    BY <1>7 DEF Reckons
  <1> QED BY <1>3, <1>7, <1>8, StillDown

LEMMA ToObj ==
  ASSUME NEW H, NEW w, NEW o, NEW b, NEW C, MayLie(w, o, b, C, H)
  PROVE  PutDown(w, ObjToObj(w, o, b), o, H)
  <1> DEFINE g == Group(w, o, b)
             m == WeightOf(w, o)
             c == w.obj[b].at
  <1>1. w \in Worlds /\ o \in Live(w)
    BY DEF MayLie, Orderly
  <1>2. m \in Int
    BY <1>1, WeightIsInt
  <1>3. PutDown(w, g, o, H)
    BY Grouped
  <1>4. ObjToObj(w, o, b) = IF c \in Chars THEN [g EXCEPT !.load[c] = @ + m] ELSE g
    BY DEF ObjToObj
  <1> HIDE DEF g, m, c
  <1>5. Reckons(g, ObjToObj(w, o, b))
    <2>1. CASE c \in Chars
      <3>1. g \in Worlds
        BY <1>3 DEF PutDown, Orderly
      <3>2. Reckons(g, [g EXCEPT !.load[c] = @ + m])
        BY <1>2, <2>1, <3>1, LoadReckoned
      <3> QED BY <1>4, <2>1, <3>2
    <2>2. CASE c \notin Chars
      BY <1>3, <1>4, <2>2 DEF PutDown, Orderly, Reckons
    <2> QED BY <2>1, <2>2
  <1> QED BY <1>3, <1>5, StillDown

LEMMA Unloaded ==
  ASSUME NEW w \in Worlds, NEW o \in Live(w), NEW root
  PROVE  Reckons(w, Unload(w, o, root))
  <1>1. CASE root \in Chars
    BY <1>1, WeightIsInt, LoadReckoned DEF Unload
  <1>2. CASE root \notin Chars
    BY <1>2 DEF Unload, Reckons
  <1> QED BY <1>1, <1>2

\* Whatever is taken off stays where it is.
LEMMA TakenOff ==
  ASSUME NEW H, NEW w, Orderly(w, H), NEW o \in Live(w), w.obj[o].at \in Chars
  PROVE  /\ Orderly(UnequipChar(w, o), H) /\ Still(w, UnequipChar(w, o), {})
         /\ UnequipChar(w, o).here = w.here /\ Live(UnequipChar(w, o)) = Live(w)
         /\ \A y \in Objs : UnequipChar(w, o).obj[y].kind = w.obj[y].kind
  <1> DEFINE c == w.obj[o].at
             r == [w.obj[o] EXCEPT !.worn = FALSE]
             n == w.obj[o].count
             m == IF IsA(w, o, Forces) THEN WeightOf(w, o) ELSE 0
             room == w.here[c]
             l == IF IsA(w, o, Lamps) /\ w.light[room] > 0 THEN w.light[room] - 1 ELSE w.light[room]
             u == [w EXCEPT !.obj[o].worn = FALSE]
             g == [u EXCEPT !.number[c] = @ + n, !.load[c] = @ + m]
             v == UnequipChar(w, o)
  <1>1. w \in Worlds /\ o \in Objs /\ room \in Rooms
    BY WorldFields DEF Orderly, Live
  <1>2. n \in Int /\ m \in Int /\ l \in Int
    <2>1. w.light[room] \in Int
      BY <1>1, WorldFields
    <2> QED BY <1>1, <2>1, ThingOf, WeightIsInt
  <1>3. r \in Thing /\ r.kind = w.obj[o].kind /\ r.count = w.obj[o].count /\ r.at = w.obj[o].at
    <2>1. w.obj[o] \in [kind : Kinds, count : Nat \ {0}, at : Spots, worn : BOOLEAN]
      BY <1>1, ThingOf
    <2> QED BY <2>1 DEF Thing
  <1>4. /\ u.obj = [w.obj EXCEPT ![o] = r] /\ u.load = w.load /\ u.number = w.number
        /\ u.light = w.light /\ u.index = w.index /\ u.here = w.here
        /\ u = [w EXCEPT !.obj = [w.obj EXCEPT ![o] = r]]
    BY <1>1, WorldFields
  <1>5. v = [g EXCEPT !.light[room] = l]
    BY <1>1, WorldFields DEF UnequipChar
  <1> HIDE DEF r, n, m, l, u
  <1>6. u.obj \in [Objs -> Thing]
    BY <1>1, <1>3, <1>4, WorldFields
  <1>7. u \in Worlds
    BY <1>1, <1>4, <1>6, WorldFields DEF Worlds
  <1>8. \A y \in Objs : /\ u.obj[y].kind = w.obj[y].kind /\ u.obj[y].count = w.obj[y].count
                        /\ u.obj[y].at = w.obj[y].at
    BY <1>1, <1>3, <1>4, WorldFields
  <1>9. Orderly(u, H)
    BY <1>4, <1>7, <1>8, SameOrder
  <1>10. c \in Chars
    OBVIOUS
  <1> HIDE DEF room, c
  <1>11. Reckons(u, g)
    BY <1>10, <1>2, <1>7, BurdenReckoned
  <1> HIDE DEF g
  <1>12. g \in Worlds
    BY <1>11 DEF Reckons
  <1>13. Reckons(g, [g EXCEPT !.light[room] = l])
    BY <1>1, <1>2, <1>12, LightReckoned
  <1>14. Reckons(g, v)
    BY <1>5, <1>13
  <1>15. Reckons(u, v)
    BY <1>11, <1>14 DEF Reckons
  <1>16. Orderly(v, H)
    BY <1>9, <1>15, ReckonedOrder
  <1>17. Still(w, v, {}) /\ Live(v) = Live(w) /\ v.here = w.here /\ \A y \in Objs : v.obj[y].kind = w.obj[y].kind
    BY <1>4, <1>8, <1>15 DEF Reckons, Still, Live
  <1> QED BY <1>16, <1>17

-----------------------------------------------------------------------------
(* Out of a hand, off the floor, out of a container.                        *)

LEMMA ObjsFinite ==
  ASSUME NEW S \in SUBSET Objs
  PROVE  IsFiniteSet(S)
  BY ThingFacts, FS_Subset

\* o has left the list it was in; what it covered, and nothing else, may be elsewhere.
Departed(w, v, o, H) ==
    /\ Orderly(v, H \cup {o}) /\ Still(w, v, {o} \cup In(w, o))
    /\ v.obj[o].at = Null /\ v.here = w.here

\* o has arrived, likewise.
Arrived(w, v, o, H) ==
    Orderly(v, H \ {o}) /\ Still(w, v, {o} \cup In(w, o)) /\ v.here = w.here

LEMMA FromChar ==
  ASSUME NEW H, NEW w, Orderly(w, H), NEW o \in Live(w), w.obj[o].at \in Chars,
         \A x \in H : w.obj[x].at # o
  PROVE  Departed(w, ObjFromChar(w, o), o, H)
  <1> DEFINE c == w.obj[o].at
             off == IF w.obj[o].worn THEN UnequipChar(w, o) ELSE w
             base == Put(off, o, Null)
             S == Under(w, o)
             Bare(x, v) == ObjToChar([v EXCEPT !.load[c] = @ - WeightOf(v, x)], x, c)
             Left(v) == [v EXCEPT !.number[c] = @ - v.obj[o].count, !.load[c] = @ - WeightOf(v, o)]
             Good(s, v) == /\ Orderly(v, H \cup {o}) /\ Still(w, v, {o} \cup s)
                           /\ v.obj[o].at = Null /\ v.here = w.here
             Q == {a \in (SUBSET S) \X Worlds : Good(a[1], a[2])}
  <1>1. w \in Worlds /\ o \in Objs /\ c \in Chars
    BY DEF Orderly, Live
  <1>2. /\ S \subseteq Objs /\ IsFiniteSet(S) /\ o \notin S /\ S \cap H = {}
        /\ \A x \in S : x \in Objs /\ w.obj[x].at = o
    <2>1. S \subseteq In(w, o)
      BY DEF Under
    <2> QED BY <1>1, <2>1, ThingFacts, ObjsFinite DEF In
  <1>3. Good({}, base)
    <2>1. Orderly(off, H) /\ Still(w, off, {}) /\ off.here = w.here /\ o \in Live(off)
      BY TakenOff DEF Still
    <2> HIDE DEF off
    <2>2. PickedUp(off, base, o, H)
      BY <2>1, TakenUp
    <2> HIDE DEF base
    <2> QED BY <2>1, <2>2 DEF PickedUp, Still
  <1>4. ASSUME NEW s \in SUBSET S, NEW x \in s, NEW v, Good(s \ {x}, v)
        PROVE  Good(s, Bare(x, v))
    <2> DEFINE u == [v EXCEPT !.load[c] = @ - WeightOf(v, x)]
    <2>1. x \in Objs /\ x # o /\ x \notin H /\ v \in Worlds /\ v.obj[x].at = o
      BY <1>2, <1>4 DEF Orderly, Still
    <2>2. x \in Live(v)
      BY <1>1, <2>1, ThingFacts DEF Live, Places
    <2>3. WeightOf(v, x) \in Int
      BY <2>1, <2>2, WeightIsInt
    <2> HIDE DEF c
    <2>4. Reckons(v, u)
      BY <1>1, <2>1, <2>3, LoadReckoned
    <2>5. Orderly(u, H \cup {o}) /\ Still(v, u, {}) /\ Live(u) = Live(v) /\ u.here = v.here
      BY <1>4, <2>4, ReckonedOrder
    <2> HIDE DEF u
    <2>9. x \in Live(u)
      BY <2>2, <2>5
    <2> DEFINE G == H \cup {o}
    <2>10. Orderly(u, G)
      BY <2>5
    <2> HIDE DEF G
    <2> DEFINE z == ObjToChar(u, x, c)
    <2>6. PutDown(u, z, x, G)
      BY <1>1, <2>9, <2>10, ToChar
    <2>7. G \ {x} = G
      BY <2>1 DEF G
    <2>8. Bare(x, v) = z
      BY DEF u
    <2> HIDE DEF Bare, z
    <2>11. Orderly(z, G) /\ Still(u, z, {x}) /\ z.here = u.here
      BY <2>6, <2>7 DEF PutDown
    <2>12. Still(w, z, {o} \cup s)
      BY <1>4, <2>1, <2>5, <2>11 DEF Still
    <2>13. z.obj[o].at = Null
      BY <1>1, <1>4, <2>1, <2>5, <2>11 DEF Still
    <2> QED BY <1>4, <2>5, <2>8, <2>11, <2>12, <2>13 DEF G
  <1> DEFINE step == [a \in S \X Worlds |-> Bare(a[1], a[2])]
             Eq(h) == h = [s \in SUBSET S |-> IF s = {} THEN base ELSE Bare(Pick(s), h[s \ {Pick(s)}])]
             it == CHOOSE h : Eq(h)
  <1>5. FoldSet(Bare, base, S) = it[S]
    BY DEF FoldSet, MapThenFoldSet, Pick
  <1>6. \A s \in SUBSET S : \A v : <<s, v>> \in Q <=> Good(s, v)
    BY DEF Orderly
  <1>7. \A s, v : Good(s, v) => v \in Worlds
    BY DEF Orderly
  <1> HIDE DEF Good, base, S
  <1> HIDE DEF Bare
  <1>8. ASSUME NEW s \in SUBSET S, s # {}, NEW v, Good(s \ {Pick(s)}, v)
        PROVE  Pick(s) \in s /\ Good(s, Bare(Pick(s), v)) /\ <<Pick(s), v>> \in S \X Worlds
    <2>1. Pick(s) \in s
      BY <1>8 DEF Pick
    <2>2. Good(s, Bare(Pick(s), v)) /\ v \in Worlds
      BY <1>4, <1>8, <1>7, <2>1
    <2> QED BY <2>1, <2>2
  <1>9. \A s \in SUBSET S : \A v : s # {} /\ Good(s \ {Pick(s)}, v) =>
           step[<<Pick(s), v>>] = Bare(Pick(s), v)
    BY <1>8
  <1> HIDE DEF step, Q
  <1>10. \A s \in SUBSET S : \A v :
           s # {} /\ <<s \ {Pick(s)}, v>> \in Q => <<s, step[<<Pick(s), v>>]>> \in Q
    BY <1>6, <1>8, <1>9
  <1>11. <<{}, base>> \in Q
    BY <1>3, <1>6
  <1>12. PICK h : Runs(h, base, step, S) /\ \A s \in SUBSET S : <<s, h[s]>> \in Q
    <2>1. Leads(base, step, S, Q)
      BY <1>2, <1>10, <1>11 DEF Leads
    <2> QED BY <2>1, RunReaches
  <1>13. Eq(h)
    <2>1. \A s \in SUBSET S : s # {} => step[<<Pick(s), h[s \ {Pick(s)}]>>] = Bare(Pick(s), h[s \ {Pick(s)}])
      BY <1>6, <1>9, <1>12
    <2> QED BY <1>12, <2>1 DEF Runs
  <1>14. Eq(it)
    BY <1>13
  <1> HIDE DEF it
  <1>15. it[{}] = base /\ \A s \in SUBSET S : s # {} => it[s] = Bare(Pick(s), it[s \ {Pick(s)}])
    BY <1>14
  <1>16. \A s \in SUBSET S : <<s, it[s]>> \in Q
    <2>1. \A s \in SUBSET S : s # {} /\ <<s \ {Pick(s)}, it[s \ {Pick(s)}]>> \in Q => <<s, it[s]>> \in Q
      BY <1>6, <1>8, <1>15
    <2> QED BY <1>2, <1>11, <1>15, <2>1, StepByStep
  <1> DEFINE v == it[S]
  <1>17. Good(S, v)
    BY <1>6, <1>16
  <1>18. ObjFromChar(w, o) = Left(v)
    BY <1>5 DEF ObjFromChar, Bare, base, S
  <1> HIDE DEF v
  <1>19. v \in Worlds /\ o \in Live(v) /\ v.obj[o].count \in Int /\ WeightOf(v, o) \in Int
    <2>1. v \in Worlds /\ o \in Live(v)
      BY <1>17 DEF Good, Orderly
    <2> QED BY <1>1, <2>1, ThingOf, WeightIsInt
  <1> HIDE DEF c
  <1>20. Reckons(v, Left(v))
    BY <1>1, <1>19, BurdenReckoned
  <1> HIDE DEF Left
  <1>21. Orderly(Left(v), H \cup {o}) /\ Still(v, Left(v), {}) /\ Left(v).here = v.here
    BY <1>17, <1>20, ReckonedOrder DEF Good
  <1>22. S \subseteq In(w, o)
    BY DEF Under, S
  <1> QED BY <1>1, <1>17, <1>18, <1>21, <1>22 DEF Good, Still, Departed

LEMMA FromRoom ==
  ASSUME NEW H, NEW w, Orderly(w, H), NEW o \in Live(w), w.obj[o].at \in Rooms,
         \A x \in H : w.obj[x].at # o
  PROVE  Departed(w, ObjFromRoom(w, o), o, H)
  <1> DEFINE r == w.obj[o].at
             base == Put(w, o, Null)
             S == Under(w, o)
             Bare(x, v) == Lay(Put(v, x, Null), x, r)
             n == IF IsA(w, o, Glowing) THEN w.obj[o].count ELSE 0
             Left(v) == [v EXCEPT !.light[r] = @ - n]
             Good(s, v) == /\ Orderly(v, H \cup {o}) /\ Still(w, v, {o} \cup s)
                           /\ v.obj[o].at = Null /\ v.here = w.here
             Q == {a \in (SUBSET S) \X Worlds : Good(a[1], a[2])}
  <1>1. w \in Worlds /\ o \in Objs /\ r \in Rooms
    BY DEF Orderly, Live
  <1>2. /\ S \subseteq Objs /\ IsFiniteSet(S) /\ o \notin S /\ S \cap H = {}
        /\ \A x \in S : x \in Objs /\ w.obj[x].at = o
    <2>1. S \subseteq In(w, o)
      BY DEF Under
    <2> QED BY <1>1, <2>1, ThingFacts, ObjsFinite DEF In
  <1>3. Good({}, base)
    <2>1. PickedUp(w, base, o, H)
      BY TakenUp
    <2> HIDE DEF base
    <2> QED BY <2>1 DEF PickedUp, Still
  <1>4. ASSUME NEW s \in SUBSET S, NEW x \in s, NEW v, Good(s \ {x}, v)
        PROVE  Good(s, Bare(x, v))
    <2> DEFINE G == H \cup {o}
               u == Put(v, x, Null)
    <2>1. x \in Objs /\ x # o /\ x \notin H /\ v \in Worlds /\ v.obj[x].at = o
      BY <1>2, <1>4 DEF Orderly, Still
    <2>2. x \in Live(v)
      BY <1>1, <2>1, ThingFacts DEF Live, Places
    <2>3. Orderly(v, G)
      BY <1>4
    <2> HIDE DEF r, G
    <2>4. Orderly(u, G \cup {x}) /\ Still(v, u, {x}) /\ u.here = v.here /\ x \in Live(u)
      <3>1. PickedUp(v, u, x, G)
        BY <2>2, <2>3, TakenUp
      <3> HIDE DEF u
      <3> QED BY <3>1 DEF PickedUp, Orderly
    <2> DEFINE F == G \cup {x}
    <2>5. Orderly(u, F)
      BY <2>4
    <2> HIDE DEF u, F
    <2> DEFINE z == Lay(u, x, r)
    <2>6. PutDown(u, z, x, F)
      BY <1>1, <2>4, <2>5, LaidInRoom
    <2>7. F \ {x} = G
      BY <2>1 DEF F, G
    <2>8. Bare(x, v) = z
      BY DEF u
    <2> HIDE DEF Bare, z
    <2>9. Orderly(z, G) /\ Still(u, z, {x}) /\ z.here = u.here
      BY <2>6, <2>7 DEF PutDown
    <2>10. Still(w, z, {o} \cup s)
      BY <1>4, <2>1, <2>4, <2>9 DEF Still
    <2>11. z.obj[o].at = Null
      BY <1>1, <1>4, <2>1, <2>4, <2>9 DEF Still
    <2> QED BY <1>4, <2>4, <2>8, <2>9, <2>10, <2>11 DEF G
  <1> DEFINE step == [a \in S \X Worlds |-> Bare(a[1], a[2])]
             Eq(h) == h = [s \in SUBSET S |-> IF s = {} THEN base ELSE Bare(Pick(s), h[s \ {Pick(s)}])]
             it == CHOOSE h : Eq(h)
  <1>5. FoldSet(Bare, base, S) = it[S]
    BY DEF FoldSet, MapThenFoldSet, Pick
  <1>6. \A s \in SUBSET S : \A v : <<s, v>> \in Q <=> Good(s, v)
    BY DEF Orderly
  <1>7. \A s, v : Good(s, v) => v \in Worlds
    BY DEF Orderly
  <1> HIDE DEF Good, base, S
  <1> HIDE DEF Bare
  <1>8. ASSUME NEW s \in SUBSET S, s # {}, NEW v, Good(s \ {Pick(s)}, v)
        PROVE  Pick(s) \in s /\ Good(s, Bare(Pick(s), v)) /\ <<Pick(s), v>> \in S \X Worlds
    <2>1. Pick(s) \in s
      BY <1>8 DEF Pick
    <2>2. Good(s, Bare(Pick(s), v)) /\ v \in Worlds
      BY <1>4, <1>8, <1>7, <2>1
    <2> QED BY <2>1, <2>2
  <1>9. \A s \in SUBSET S : \A v : s # {} /\ Good(s \ {Pick(s)}, v) =>
           step[<<Pick(s), v>>] = Bare(Pick(s), v)
    BY <1>8
  <1> HIDE DEF step, Q
  <1>10. \A s \in SUBSET S : \A v :
           s # {} /\ <<s \ {Pick(s)}, v>> \in Q => <<s, step[<<Pick(s), v>>]>> \in Q
    BY <1>6, <1>8, <1>9
  <1>11. <<{}, base>> \in Q
    BY <1>3, <1>6
  <1>12. PICK h : Runs(h, base, step, S) /\ \A s \in SUBSET S : <<s, h[s]>> \in Q
    <2>1. Leads(base, step, S, Q)
      BY <1>2, <1>10, <1>11 DEF Leads
    <2> QED BY <2>1, RunReaches
  <1>13. Eq(h)
    <2>1. \A s \in SUBSET S : s # {} => step[<<Pick(s), h[s \ {Pick(s)}]>>] = Bare(Pick(s), h[s \ {Pick(s)}])
      BY <1>6, <1>9, <1>12
    <2> QED BY <1>12, <2>1 DEF Runs
  <1>14. Eq(it)
    BY <1>13
  <1> HIDE DEF it
  <1>15. it[{}] = base /\ \A s \in SUBSET S : s # {} => it[s] = Bare(Pick(s), it[s \ {Pick(s)}])
    BY <1>14
  <1>16. \A s \in SUBSET S : <<s, it[s]>> \in Q
    <2>1. \A s \in SUBSET S : s # {} /\ <<s \ {Pick(s)}, it[s \ {Pick(s)}]>> \in Q => <<s, it[s]>> \in Q
      BY <1>6, <1>8, <1>15
    <2> QED BY <1>2, <1>11, <1>15, <2>1, StepByStep
  <1> DEFINE v == it[S]
  <1>17. Good(S, v)
    BY <1>6, <1>16
  <1>18. ObjFromRoom(w, o) = Left(v)
    BY <1>5 DEF ObjFromRoom, Bare, base, S
  <1> HIDE DEF v
  <1>19. v \in Worlds /\ n \in Int
    BY <1>1, <1>17, ThingOf DEF Good, Orderly
  <1> HIDE DEF r, n
  <1>20. Reckons(v, Left(v))
    BY <1>1, <1>19, LightReckoned
  <1> HIDE DEF Left
  <1>21. Orderly(Left(v), H \cup {o}) /\ Still(v, Left(v), {}) /\ Left(v).here = v.here
    BY <1>17, <1>20, ReckonedOrder DEF Good
  <1>22. S \subseteq In(w, o)
    BY DEF Under, S
  <1> QED BY <1>1, <1>17, <1>18, <1>20, <1>21, <1>22 DEF Good, Still, Departed, Reckons

LEMMA NotInItself ==
  ASSUME NEW w, Rooted(w), NEW o \in Objs
  PROVE  w.obj[o].at # o
  <1>1. SUFFICES ASSUME w.obj[o].at = o PROVE FALSE
    OBVIOUS
  <1>2. {o} \in SUBSET Objs /\ \A d \in {o} : w.obj[d].at \in {o}
    BY <1>1
  <1>3. {o} = {}
    BY <1>2 DEF Rooted
  <1> QED BY <1>3

\* What a thing is in, and all else, can hold it.
LEMMA ParentHolds ==
  ASSUME NEW w, Orderly(w, {}), NEW o \in Live(w), w.obj[o].at \in Objs
  PROVE  Holds(w, w.obj[o].at, Live(w) \ Whole(w, o), {})
  <1> DEFINE p == w.obj[o].at
             C == Live(w) \ Whole(w, o)
  <1>1. w \in Worlds /\ o \in Objs /\ Live(w) \subseteq Objs /\ p \in Objs
    BY DEF Orderly, Live
  <1>2. p \in Live(w) /\ w.obj[p].at # Null
    <2>1. Hung(w, o)
      BY <1>1 DEF Orderly
    <2>2. p \in Live(w)
      BY <1>1, <2>1, ThingFacts DEF Hung, Places
    <2>3. Hung(w, p) /\ In(w, p) # {}
      BY <1>1 DEF Orderly, In
    <2> QED BY <1>1, <2>2, <2>3, ThingFacts DEF Hung, Places, Live
  <1>3. p \notin Whole(w, o)
    <2> SUFFICES ASSUME p \in Whole(w, o) PROVE FALSE
      OBVIOUS
    <2>1. o \in Whole(w, o) /\ Whole(w, o) \in SUBSET Objs /\ \A x \in Whole(w, o) : w.obj[x].at \in Whole(w, o)
      BY <1>1, WholeFacts
    <2> QED BY <2>1 DEF Orderly, Rooted
  <1>4. ASSUME NEW x \in C, w.obj[x].at \in Objs PROVE w.obj[x].at \in C
    <2>1. Hung(w, x) /\ x \in Objs
      BY <1>1, <1>4 DEF Orderly
    <2>2. w.obj[x].at \in Live(w)
      BY <1>4, <2>1, ThingFacts DEF Hung, Places
    <2>3. w.obj[x].at \notin Whole(w, o)
      BY <1>1, <1>4, <2>1, WholeFacts
    <2> QED BY <2>2, <2>3
  <1> QED BY <1>1, <1>2, <1>3, <1>4 DEF Holds

LEMMA FromObj ==
  ASSUME NEW w, Orderly(w, {}), NEW o \in Live(w), w.obj[o].at \in Objs
  PROVE  Departed(w, ObjFromObj(w, o), o, {})
  <1> DEFINE b == w.obj[o].at
             root == RootOf(w, o)
             C == Live(w) \ Whole(w, o)
             H == {o}
             base == Put(w, o, Null)
             S == Under(w, o)
             Bare(x, v) == IF Fits(v, x, b)
                           THEN ObjToObj(Put(Unload(v, x, root), x, Null), x, b) ELSE v
             Good(s, v) == /\ Orderly(v, H) /\ Still(w, v, {o} \cup s)
                           /\ v.obj[o].at = Null /\ v.here = w.here
             Q == {a \in (SUBSET S) \X Worlds : Good(a[1], a[2])}
  <1>1. w \in Worlds /\ o \in Objs /\ b \in Objs /\ b # o
    <2>1. w \in Worlds /\ o \in Objs
      BY DEF Orderly, Live
    <2>2. b # o
      BY <2>1, NotInItself DEF Orderly
    <2> QED BY <2>1, <2>2
  <1>2. /\ S \subseteq Objs /\ IsFiniteSet(S) /\ o \notin S
        /\ \A x \in S : x \in Objs /\ w.obj[x].at = o /\ x \in Whole(w, o)
    <2>1. S \subseteq In(w, o)
      BY DEF Under
    <2>2. \A x \in In(w, o) : x \in Objs /\ w.obj[x].at = o /\ x \in Whole(w, o)
      BY <1>1, WholeFacts DEF In
    <2> QED BY <1>1, <2>1, <2>2, ThingFacts, ObjsFinite DEF In
  <1>3. Holds(w, b, C, {}) /\ o \notin C
    BY <1>1, ParentHolds, WholeFacts
  <1>4. Good({}, base)
    <2>1. {} \cup {o} = H
      OBVIOUS
    <2>2. PickedUp(w, base, o, {})
      BY TakenUp
    <2> HIDE DEF base, H
    <2> QED BY <2>1, <2>2 DEF PickedUp, Still
  <1>5. ASSUME NEW s \in SUBSET S, NEW x \in s, NEW v, Good(s \ {x}, v)
        PROVE  Good(s, Bare(x, v))
    <2> DEFINE u == Unload(v, x, root)
               z == Put(u, x, Null)
    <2>1. x \in Objs /\ x # o /\ v \in Worlds /\ v.obj[x].at = o
      BY <1>2, <1>5 DEF Orderly, Still
    <2>2. x \in Live(v)
      BY <1>1, <2>1, ThingFacts DEF Live, Places
    <2>3. Holds(v, b, C, H) /\ x \notin C
      <3>1. ({o} \cup (s \ {x})) \cap C = {}
        BY <1>2, <1>3
      <3>2. {} \cap C \subseteq H
        OBVIOUS
      <3>3. Still(w, v, {o} \cup (s \ {x}))
        BY <1>5
      <3>4. Holds(v, b, C, H)
        BY <1>3, <3>1, <3>2, <3>3, StillHolds
      <3> QED BY <1>2, <3>4
    <2> HIDE DEF b, root, C, H
    <2>4. Orderly(u, H) /\ Still(v, u, {}) /\ u.here = v.here /\ x \in Live(u)
      <3>1. Reckons(v, u)
        BY <2>1, <2>2, Unloaded
      <3>2. Orderly(v, H)
        BY <1>5
      <3> QED BY <2>2, <3>1, <3>2, ReckonedOrder
    <2> HIDE DEF u
    <2> DEFINE F == H \cup {x}
    <2>5. Orderly(z, F) /\ Still(u, z, {x}) /\ z.here = u.here
      <3>1. PickedUp(u, z, x, H)
        BY <2>4, TakenUp
      <3> HIDE DEF z
      <3> QED BY <3>1 DEF PickedUp
    <2>6. x \in Live(z)
      BY <2>5 DEF Orderly
    <2>7. Holds(z, b, C, F)
      <3>1. Still(v, z, {x}) /\ {x} \cap C = {} /\ H \cap C \subseteq F
        BY <2>3, <2>4, <2>5 DEF Still
      <3> QED BY <2>3, <3>1, StillHolds
    <2> HIDE DEF z, F
    <2> DEFINE y == ObjToObj(z, x, b)
    <2>8. PutDown(z, y, x, F)
      <3>1. MayLie(z, x, b, C, F)
        BY <2>3, <2>5, <2>6, <2>7 DEF MayLie
      <3> QED BY <3>1, ToObj
    <2>9. F \ {x} = H
      BY <2>1 DEF F, H
    <2> HIDE DEF y
    <2>10. Orderly(y, H) /\ Still(z, y, {x}) /\ y.here = z.here
      BY <2>8, <2>9 DEF PutDown
    <2>11. Still(w, y, {o} \cup s)
      BY <1>5, <2>1, <2>4, <2>5, <2>10 DEF Still
    <2>12. y.obj[o].at = Null
      BY <1>1, <1>5, <2>1, <2>4, <2>5, <2>10 DEF Still
    <2>13. Good(s, y)
      BY <1>5, <2>4, <2>5, <2>10, <2>11, <2>12
    <2>14. Good(s, v)
      BY <1>5 DEF Still
    <2> QED BY <2>13, <2>14 DEF u, z, y
  <1> DEFINE step == [a \in S \X Worlds |-> Bare(a[1], a[2])]
             Eq(h) == h = [s \in SUBSET S |-> IF s = {} THEN base ELSE Bare(Pick(s), h[s \ {Pick(s)}])]
             it == CHOOSE h : Eq(h)
  <1>6. FoldSet(Bare, base, S) = it[S]
    BY DEF FoldSet, MapThenFoldSet, Pick
  <1>7. \A s \in SUBSET S : \A v : <<s, v>> \in Q <=> Good(s, v)
    BY DEF Orderly
  <1>8. \A s, v : Good(s, v) => v \in Worlds
    BY DEF Orderly
  <1> HIDE DEF Good, base, S
  <1> HIDE DEF Bare
  <1>9. ASSUME NEW s \in SUBSET S, s # {}, NEW v, Good(s \ {Pick(s)}, v)
        PROVE  Pick(s) \in s /\ Good(s, Bare(Pick(s), v)) /\ <<Pick(s), v>> \in S \X Worlds
    <2>1. Pick(s) \in s
      BY <1>9 DEF Pick
    <2>2. Good(s, Bare(Pick(s), v)) /\ v \in Worlds
      BY <1>5, <1>9, <1>8, <2>1
    <2> QED BY <2>1, <2>2
  <1>10. \A s \in SUBSET S : \A v : s # {} /\ Good(s \ {Pick(s)}, v) =>
           step[<<Pick(s), v>>] = Bare(Pick(s), v)
    BY <1>9
  <1> HIDE DEF step, Q
  <1>11. \A s \in SUBSET S : \A v :
           s # {} /\ <<s \ {Pick(s)}, v>> \in Q => <<s, step[<<Pick(s), v>>]>> \in Q
    BY <1>7, <1>9, <1>10
  <1>12. <<{}, base>> \in Q
    BY <1>4, <1>7
  <1>13. PICK h : Runs(h, base, step, S) /\ \A s \in SUBSET S : <<s, h[s]>> \in Q
    <2>1. Leads(base, step, S, Q)
      BY <1>2, <1>11, <1>12 DEF Leads
    <2> QED BY <2>1, RunReaches
  <1>14. Eq(h)
    <2>1. \A s \in SUBSET S : s # {} => step[<<Pick(s), h[s \ {Pick(s)}]>>] = Bare(Pick(s), h[s \ {Pick(s)}])
      BY <1>7, <1>10, <1>13
    <2> QED BY <1>13, <2>1 DEF Runs
  <1>15. Eq(it)
    BY <1>14
  <1> HIDE DEF it
  <1>16. it[{}] = base /\ \A s \in SUBSET S : s # {} => it[s] = Bare(Pick(s), it[s \ {Pick(s)}])
    BY <1>15
  <1>17. \A s \in SUBSET S : <<s, it[s]>> \in Q
    <2>1. \A s \in SUBSET S : s # {} /\ <<s \ {Pick(s)}, it[s \ {Pick(s)}]>> \in Q => <<s, it[s]>> \in Q
      BY <1>7, <1>9, <1>16
    <2> QED BY <1>2, <1>12, <1>16, <2>1, StepByStep
  <1> DEFINE v == it[S]
  <1>18. Good(S, v)
    BY <1>7, <1>17
  <1>19. ObjFromObj(w, o) = Unload(v, o, root)
    BY <1>6 DEF ObjFromObj, Bare, base, S
  <1> HIDE DEF v
  <1>20. v \in Worlds /\ o \in Live(v)
    BY <1>1, <1>18 DEF Good, Orderly
  <1> HIDE DEF root
  <1>21. Reckons(v, Unload(v, o, root))
    BY <1>1, <1>20, Unloaded
  <1>22. Orderly(v, H)
    BY <1>18 DEF Good
  <1> HIDE DEF H
  <1> DEFINE u == Unload(v, o, root)
  <1> HIDE DEF u
  <1>23. Orderly(u, H) /\ Still(v, u, {}) /\ u.here = v.here
    BY <1>22, <1>21, ReckonedOrder DEF u
  <1>24. S \subseteq In(w, o)
    BY DEF Under, S
  <1>25. ObjFromObj(w, o) = u /\ Reckons(v, u)
    BY <1>19, <1>21 DEF u
  <1> QED BY <1>1, <1>18, <1>25, <1>23, <1>24 DEF Good, Still, Reckons, H, Departed

-----------------------------------------------------------------------------
(* To a room, where a thing may fall; from and to any place. *)

LEMMA ToRoom ==
  ASSUME NEW H, NEW w, Orderly(w, H), NEW o \in Live(w), NEW r \in Rooms,
         \A x \in H : w.obj[x].at # o
  PROVE  Arrived(w, ObjToRoom(w, o, r), o, H)
  <1> DEFINE v == Lay(w, o, r)
             u == ObjFromRoom(v, o)
             G == H \ {o}
  <1>1. w \in Worlds /\ o \in Objs
    BY DEF Orderly, Live
  <1>2. Orderly(v, G) /\ Still(w, v, {o}) /\ v.obj[o].at \in {r, "queue"} /\ v.here = w.here
    <2>1. PutDown(w, v, o, H) /\ v.obj[o].at \in {r, "queue"}
      BY LaidInRoom
    <2> HIDE DEF v
    <2> QED BY <2>1 DEF PutDown
  <1> HIDE DEF v
  <1>3. ASSUME v.obj[o].at = r, Below[r] # Null
        PROVE  LET z == Lay(u, o, Below[r]) IN Orderly(z, G) /\ Still(w, z, {o} \cup In(w, o)) /\ z.here = w.here
    <2>1. o \in Live(v) /\ Below[r] \in Rooms
      BY <1>1, <1>3, ThingFacts DEF Live, Places
    <2>2. \A x \in G : v.obj[x].at # o
      BY <1>2 DEF Still, Orderly, Live
    <2> HIDE DEF G
    <2>9. Departed(v, u, o, G)
      BY <1>2, <1>3, <2>1, <2>2, FromRoom
    <2>3. /\ Orderly(u, G \cup {o}) /\ Still(v, u, {o} \cup In(v, o)) /\ u.here = v.here
      BY <2>9 DEF Departed
    <2> HIDE DEF u
    <2> DEFINE F == G \cup {o}
               z == Lay(u, o, Below[r])
    <2>4. Orderly(u, F) /\ o \in Live(u)
      BY <2>3 DEF Orderly
    <2> HIDE DEF F
    <2>5. Orderly(z, F \ {o}) /\ Still(u, z, {o}) /\ z.here = u.here
      <3>1. PutDown(u, z, o, F)
        BY <2>1, <2>4, LaidInRoom
      <3> HIDE DEF z
      <3> QED BY <3>1 DEF PutDown
    <2> HIDE DEF z
    <2>6. F \ {o} = G
      BY DEF F, G
    <2>7. In(v, o) \subseteq In(w, o) \cup {o}
      BY <1>2 DEF In, Still
    <2>8. Orderly(z, G) /\ Still(w, z, {o} \cup In(w, o)) /\ z.here = w.here
      BY <1>2, <2>3, <2>5, <2>6, <2>7 DEF Still
    <2> QED BY <2>8 DEF z
  <1>4. \/ ObjToRoom(w, o, r) = v
        \/ v.obj[o].at = r /\ Below[r] # Null /\ ObjToRoom(w, o, r) = Lay(u, o, Below[r])
    BY DEF ObjToRoom, v
  <1> HIDE DEF u
  <1> QED BY <1>2, <1>3, <1>4 DEF Still, Arrived

\* o is in no list, and what was under it is bare.
Loose(w, v, o) ==
    /\ Orderly(v, {o}) /\ Still(w, v, {o} \cup In(w, o))
    /\ v.obj[o].at \in {Null, "aside"} /\ v.here = w.here

LEMMA Left ==
  ASSUME NEW w, Orderly(w, {}), NEW o \in Live(w)
  PROVE  /\ Loose(w, Leave(w, o), o)
         /\ w.obj[o].at \in Places => Departed(w, Leave(w, o), o, {})
  <1>1. o \in Objs /\ w \in Worlds /\ w.obj[o].at \in Spots
    BY ThingOf DEF Live, Orderly
  <1> DEFINE p == w.obj[o].at
  <1>0. {} \cup {o} = {o}
    OBVIOUS
  <1>6. ASSUME NEW v, Departed(w, v, o, {}) PROVE Loose(w, v, o)
    BY <1>0, <1>6 DEF Departed, Loose
  <1>2. CASE p \in Chars
    <2>1. Leave(w, o) = ObjFromChar(w, o)
      BY <1>2, ThingFacts DEF Leave
    <2>2. Departed(w, Leave(w, o), o, {})
      BY <1>2, <2>1, FromChar
    <2> QED BY <1>6, <2>2
  <1>3. CASE p \in Rooms
    <2>1. Leave(w, o) = ObjFromRoom(w, o)
      BY <1>3, ThingFacts DEF Leave
    <2>2. Departed(w, Leave(w, o), o, {})
      BY <1>3, <2>1, FromRoom
    <2> QED BY <1>6, <2>2
  <1>4. CASE p \in Objs
    <2>1. Leave(w, o) = ObjFromObj(w, o)
      BY <1>4, ThingFacts DEF Leave
    <2>2. Departed(w, Leave(w, o), o, {})
      BY <1>4, <2>1, FromObj
    <2> QED BY <1>6, <2>2
  <1>5. CASE p \notin Places
    <2>1. Leave(w, o) = w
      BY <1>5, ThingFacts DEF Leave
    <2>2. Orderly(w, {o}) /\ p \in {Null, "aside"}
      BY <1>1, <1>5, MoreOnTheWay, ThingFacts
    <2> QED BY <1>5, <2>1, <2>2 DEF Still, Loose
  <1> QED BY <1>1, <1>2, <1>3, <1>4, <1>5, ThingFacts

\* o, which holds nothing that is on its way, may go to p.
MayEnter(w, o, p, C, H) == MayLie(w, o, p, C, H) /\ \A x \in H : w.obj[x].at # o

LEMMA Entered ==
  ASSUME NEW H, NEW w, NEW o, NEW p, NEW C, MayEnter(w, o, p, C, H)
  PROVE  Arrived(w, Enter(w, o, p), o, H)
  <1>1. Orderly(w, H) /\ o \in Live(w) /\ \A x \in H : w.obj[x].at # o
    BY DEF MayEnter, MayLie
  <1>2. ASSUME NEW v, PutDown(w, v, o, H) PROVE Arrived(w, v, o, H)
    BY <1>2 DEF PutDown, Arrived, Still
  <1>3. CASE p \in Chars
    <2>1. Enter(w, o, p) = ObjToChar(w, o, p)
      BY <1>3, ThingFacts DEF Enter
    <2>2. PutDown(w, ObjToChar(w, o, p), o, H)
      BY <1>1, <1>3, ToChar
    <2> QED BY <1>2, <2>1, <2>2
  <1>4. CASE p \in Rooms
    <2>1. Enter(w, o, p) = ObjToRoom(w, o, p)
      BY <1>4, ThingFacts DEF Enter
    <2> QED BY <1>1, <1>4, <2>1, ToRoom
  <1>5. CASE p \notin Chars \cup Rooms
    <2>1. Enter(w, o, p) = ObjToObj(w, o, p)
      BY <1>5 DEF Enter
    <2>2. PutDown(w, ObjToObj(w, o, p), o, H)
      BY ToObj DEF MayEnter
    <2> QED BY <1>2, <2>1, <2>2
  <1> QED BY <1>3, <1>4, <1>5

-----------------------------------------------------------------------------
(* Out of the world. *)

\* What is cut from a sum is what it sums to by itself.
LEMMA SumCut ==
  ASSUME NEW S, IsFiniteSet(S), NEW f \in [S -> Int], NEW T \in SUBSET S,
         NEW h \in [T -> Int], \A l \in T : h[l] = f[l]
  PROVE  SumFunction([l \in S |-> IF l \in T THEN 0 ELSE f[l]]) = SumFunction(f) - SumFunction(h)
  <1> DEFINE Cut(t) == [l \in S |-> IF l \in t THEN 0 ELSE f[l]]
  <1>1. IsFiniteSet(T)
    BY FS_Subset
  <1>2. PICK g : Terms(g, h, T) /\ SumFunction(h) = g[T]
    BY <1>1, SumFolds
  <1>3. \A t \in SUBSET T : g[t] \in Int
    BY <1>1, <1>2, FoldType
  <1>4. \A t \in SUBSET T : g[t] = IF t = {} THEN 0 ELSE h[Pick(t)] + g[t \ {Pick(t)}]
    BY <1>2 DEF Terms
  <1>5. \A t \in SUBSET T : Cut(t) \in [S -> Int]
    OBVIOUS
  <1>6. \A t \in SUBSET T : \A l \in S : Cut(t)[l] = IF l \in t THEN 0 ELSE f[l]
    OBVIOUS
  <1>7. SumFunction(f) \in Int /\ \A t \in SUBSET T : SumFunction(Cut(t)) \in Int
    BY <1>5, SumType
  <1>8. Cut({}) = f
    OBVIOUS
  <1> HIDE DEF Cut
  <1> DEFINE Bad == {t \in SUBSET T : SumFunction(Cut(t)) # SumFunction(f) - g[t]}
  <1>9. Bad = {}
    <2>1. SUFFICES ASSUME Bad # {} PROVE FALSE
      OBVIOUS
    <2>2. Bad \subseteq SUBSET T
      OBVIOUS
    <2> HIDE DEF Bad
    <2>3. PICK t \in Bad : \A r \in Bad : r \subseteq t => r = t
      BY <1>1, <2>1, <2>2, Minimal
    <2>4. t \in SUBSET T
      BY <2>2
    <2> USE DEF Bad
    <2>5. t # {}
      <3>1. g[{}] = 0
        BY <1>4
      <3> QED BY <1>7, <1>8, <3>1
    <2> DEFINE p == Pick(t)
               r == t \ {p}
    <2>6. p \in t /\ r \in SUBSET T /\ r \notin Bad
      <3> HIDE DEF Bad
      <3>1. Pick(t) \in t /\ t \ {Pick(t)} \in SUBSET T /\ t \ {Pick(t)} \subseteq t /\ t \ {Pick(t)} # t
        BY <1>1, <2>4, <2>5, Picked
      <3>2. p \in t /\ r \in SUBSET T /\ r \subseteq t /\ r # t
        BY <3>1
      <3> HIDE DEF r, p
      <3> QED BY <2>3, <3>2
    <2>7. g[t] = h[p] + g[r]
      BY <1>4, <2>4, <2>5
    <2>8. SumFunction(Cut(r)) = SumFunction(f) - g[r]
      BY <2>6
    <2>9. h[p] = f[p] /\ f[p] \in Int /\ p \in S
      BY <2>4, <2>6
    <2> HIDE DEF p, Bad
    <2>10. SumFunction(Cut(t)) = SumFunction(Cut(r)) + Cut(t)[p] - Cut(r)[p]
      <3>1. \A l \in S : l # p => Cut(t)[l] = Cut(r)[l]
        BY <1>6, <2>4, <2>6
      <3>2. Cut(t) \in [S -> Int] /\ Cut(r) \in [S -> Int]
        BY <1>5, <2>4, <2>6
      <3> HIDE DEF r
      <3> QED BY <2>9, <3>1, <3>2, SumUpdated
    <2>11. Cut(t)[p] = 0 /\ Cut(r)[p] = f[p]
      BY <1>6, <2>4, <2>6, <2>9
    <2>12. SumFunction(Cut(t)) = SumFunction(f) - g[t]
      BY <1>3, <1>7, <2>4, <2>6, <2>7, <2>8, <2>9, <2>10, <2>11
    <2> QED BY <2>3, <2>12 DEF Bad
  <1>10. T \in SUBSET T /\ T \notin Bad
    BY <1>9
  <1> QED BY <1>2, <1>10 DEF Cut

LEMMA Undone ==
  ASSUME NEW v \in Worlds, Counted(v), NEW gone \in SUBSET Objs
  PROVE  /\ Undo(v, gone) \in Worlds /\ Undo(v, gone).here = v.here /\ Counted(Undo(v, gone))
         /\ \A y \in Objs : Undo(v, gone).obj[y] = IF y \in gone THEN Extracted ELSE v.obj[y]
  <1> DEFINE u == Undo(v, gone)
             some(k) == [x \in gone |-> IF Kind(v, x) = k THEN v.obj[x].count ELSE 0]
             map == [x \in Objs |-> IF x \in gone THEN Extracted ELSE v.obj[x]]
             ix == [k \in Kinds |-> v.index[k] - SumFunction(some(k))]
  <1>1. u = [v EXCEPT !.obj = map, !.index = ix]
    BY WorldFields DEF Undo
  <1>2. /\ u.obj = map /\ u.index = ix /\ u.load = v.load /\ u.number = v.number
        /\ u.light = v.light /\ u.here = v.here
    BY <1>1, WorldFields
  <1>3. map \in [Objs -> Thing]
    <2>1. Extracted \in Thing
      BY DEF Thing
    <2> QED BY <2>1, WorldFields
  <1>4. ASSUME NEW k \in Kinds
        PROVE  some(k) \in [gone -> Int] /\ SumFunction(some(k)) \in Int
    <2>1. \A x \in gone : v.obj[x].count \in Int
      BY ThingOf
    <2>2. some(k) \in [gone -> Int]
      BY <2>1
    <2> HIDE DEF some
    <2> QED BY <2>2, ObjsFinite, SumType
  <1>5. \A k \in Kinds : v.index[k] \in Int
    BY WorldFields
  <1>6. ix \in [Kinds -> Int]
    BY <1>4, <1>5
  <1>7. u \in Worlds
    BY <1>1, <1>2, <1>3, <1>6, WorldFields DEF Worlds
  <1>8. ASSUME NEW k \in Kinds PROVE u.index[k] = SumFunction(Pieces(u, k))
    <2>1. u.index[k] = SumFunction(Pieces(v, k)) - SumFunction(some(k))
      BY <1>2, <1>8 DEF Counted
    <2>2. Pieces(v, k) \in [Objs -> Int]
      BY PiecesType
    <2>3. \A l \in gone : some(k)[l] = Pieces(v, k)[l]
      BY DEF Pieces, Kind
    <2>4. Pieces(u, k) = [l \in Objs |-> IF l \in gone THEN 0 ELSE Pieces(v, k)[l]]
      <3>1. \A l \in Objs : u.obj[l] = IF l \in gone THEN Extracted ELSE v.obj[l]
        BY <1>2
      <3>2. Extracted.count = 0
        BY DEF Extracted, Clear
      <3> HIDE DEF u
      <3> QED BY <3>1, <3>2 DEF Pieces
    <2>5. some(k) \in [gone -> Int]
      BY <1>4
    <2> DEFINE f == Pieces(v, k)
               h == some(k)
    <2> HIDE DEF f, h, some, u
    <2>6. SumFunction([l \in Objs |-> IF l \in gone THEN 0 ELSE f[l]]) = SumFunction(f) - SumFunction(h)
      BY <2>2, <2>3, <2>5, SumCut, ThingFacts DEF f, h
    <2> QED BY <2>1, <2>4, <2>6 DEF f, h
  <1>9. Counted(u)
    BY <1>8 DEF Counted
  <1> QED BY <1>2, <1>7, <1>9

\* What is in o is still in o, or comes out of it, when nothing else is moved.
LEMMA WholeShrinks ==
  ASSUME NEW w, NEW v, NEW o \in Objs, Still(w, v, Whole(w, o))
  PROVE  Whole(v, o) \subseteq Whole(w, o)
  <1>1. o \in Whole(w, o) /\ Whole(w, o) \in SUBSET Objs
    BY WholeFacts
  <1>2. ASSUME NEW y \in Objs, v.obj[y].at \in Whole(w, o), y \notin Whole(w, o) PROVE FALSE
    <2>1. w.obj[y].at \in Whole(w, o)
      BY <1>2 DEF Still
    <2> QED BY <1>2, <2>1, WholeFacts
  <1> QED BY <1>1, <1>2, WholeFacts

\* When what is not kept is gone, what was kept in it is on its way.
Cast(w, o, kept, gone) ==
    /\ o \in Live(w) /\ Orderly(w, {o}) /\ w.obj[o].at \in {Null, "aside"}
    /\ kept = {x \in Whole(w, o) \ {o} : IsA(w, x, InQuest)}
    /\ gone = Whole(w, o) \ UNION {Whole(w, x) : x \in kept}

Rescues(w, v, o, kept, gone) ==
    /\ Orderly(v, {x \in kept : w.obj[x].at \in gone})
    /\ Still(w, v, gone) /\ v.here = w.here
    /\ kept \cap gone = {} /\ gone \subseteq Whole(w, o)

LEMMA GoneOrder ==
  ASSUME NEW w, NEW o, NEW kept, NEW gone, Cast(w, o, kept, gone)
  PROVE  Rescues(w, Undo(w, gone), o, kept, gone)
  <1> USE DEF Cast
  <1> DEFINE u == Undo(w, gone)
             H == {x \in kept : w.obj[x].at \in gone}
  <1>1. w \in Worlds /\ o \in Objs /\ Counted(w) /\ Rooted(w) /\ Whole(w, o) \subseteq Live(w)
    BY WholeLive DEF Live, Orderly
  <1>2. Whole(w, o) \subseteq Objs /\ gone \in SUBSET Objs /\ kept \subseteq Whole(w, o) \ {o}
    BY <1>1, WholeFacts
  <1>3. /\ u \in Worlds /\ u.here = w.here /\ Counted(u)
        /\ \A y \in Objs : u.obj[y] = IF y \in gone THEN Extracted ELSE w.obj[y]
    BY <1>1, <1>2, Undone
  <1>4. Extracted.at = "queue"
    BY DEF Extracted, Clear
  <1> HIDE DEF u
  <1>5. /\ \A y \in Objs \ gone : u.obj[y] = w.obj[y]
        /\ \A y \in gone : u.obj[y].at = "queue"
    BY <1>2, <1>3, <1>4
  <1>6. kept \cap gone = {}
    <2>1. \A x \in kept : x \in Whole(w, x)
      BY <1>2, WholeFacts
    <2> QED BY <2>1
  <1>7. o \in gone
    <2>1. o \in Whole(w, o)
      BY <1>1, WholeFacts
    <2>2. ASSUME NEW x \in kept, o \in Whole(w, x) PROVE FALSE
      <3>1. x \in Objs /\ x # o
        BY <1>2
      <3>2. w.obj[o].at \in Objs
        BY <2>2, <3>1, WholeFacts
      <3> QED BY <3>2, ThingFacts DEF Places
    <2> QED BY <2>1, <2>2
  <1>8. \A y \in Objs : y \in Live(u) <=> y \in Live(w) /\ y \notin gone
    BY <1>2, <1>5 DEF Live
  <1>9. ASSUME NEW y \in Objs \ gone, w.obj[y].at \in gone PROVE y \in H
    <2>1. y \in Whole(w, o)
      BY <1>1, <1>9, WholeFacts
    <2>2. PICK x \in kept : y \in Whole(w, x)
      BY <1>9, <2>1
    <2>3. y = x
      <3>1. SUFFICES ASSUME y # x PROVE FALSE
        OBVIOUS
      <3>2. w.obj[y].at \in Whole(w, x)
        BY <1>2, <2>2, <3>1, WholeFacts
      <3> QED BY <1>9, <3>2
    <2> QED BY <1>9, <2>2, <2>3
  <1>10. ASSUME NEW y \in Objs \ H PROVE Hung(u, y)
    <2>1. CASE y \in gone
      BY <1>5, <2>1 DEF Hung
    <2>2. CASE y \notin gone
      <3>1. Hung(w, y) /\ u.obj[y] = w.obj[y] /\ w.obj[y].at \notin gone
        BY <1>5, <1>7, <1>9, <1>10, <2>2 DEF Orderly
      <3>2. w.obj[y].at \in Live(w) => w.obj[y].at \in Live(u)
        BY <1>8, <3>1 DEF Live
      <3>3. In(u, y) \subseteq In(w, y)
        BY <1>5, ThingFacts DEF In, Places
      <3> QED BY <3>1, <3>2, <3>3 DEF Hung
    <2> QED BY <2>1, <2>2
  <1>11. Rooted(u)
    <2> SUFFICES ASSUME NEW D \in SUBSET Objs, \A d \in D : u.obj[d].at \in D PROVE D = {}
      BY DEF Rooted
    <2>1. D \cap gone = {}
      BY <1>5, ThingFacts DEF Places
    <2>2. \A d \in D : w.obj[d].at \in D
      BY <1>5, <2>1
    <2> QED BY <1>1, <2>2 DEF Rooted
  <1>12. H \subseteq Live(u)
    BY <1>1, <1>2, <1>6, <1>8
  <1>13. Still(w, u, gone)
    BY <1>5 DEF Still
  <1>14. Orderly(u, H)
    BY <1>3, <1>10, <1>11, <1>12 DEF Orderly
  <1> QED BY <1>3, <1>6, <1>13, <1>14 DEF u, Rescues

\* Whatever is taken out of the world leaves the rest in order.
LEMMA Extracts ==
  ASSUME NEW w, Orderly(w, {}), NEW o \in Live(w)
  PROVE  /\ Orderly(ExtractObj(w, o), {}) /\ Still(w, ExtractObj(w, o), Whole(w, o))
         /\ ExtractObj(w, o).here = w.here
  <1> DEFINE W == Whole(w, o)
             p == IF w.obj[o].at \in Places THEN w.obj[o].at ELSE Quarters
             C == IF p \in Objs THEN Live(w) \ W ELSE {}
             left == Leave(w, o)
             kept == {x \in Whole(left, o) \ {o} : IsA(left, x, InQuest)}
             gone == Whole(left, o) \ UNION {Whole(left, x) : x \in kept}
             base == Undo(left, gone)
             S == {x \in kept : left.obj[x].at \in gone}
             Rescued(x, v) == Enter(Put(v, x, Null), x, p)
             Good(s, v) == /\ Orderly(v, S \ s) /\ Still(w, v, W) /\ v.here = w.here
                           /\ \A y \in S \ s : v.obj[y].at \in gone
             Q == {a \in (SUBSET S) \X Worlds : Good(a[1], a[2])}
  <1>1. w \in Worlds /\ o \in Objs /\ o \in W /\ W \subseteq Objs /\ In(w, o) \subseteq W
    BY WholeFacts DEF Orderly, Live, In
  <1>2. Orderly(left, {o}) /\ Still(w, left, W) /\ left.obj[o].at \in {Null, "aside"} /\ left.here = w.here
    <2>1. Loose(w, left, o)
      BY Left
    <2> HIDE DEF left
    <2> QED BY <1>1, <2>1 DEF Still, Loose
  <1> HIDE DEF left
  <1>3. o \in Live(left) /\ Whole(left, o) \subseteq W
    BY <1>1, <1>2, WholeShrinks DEF Orderly
  <1>4. /\ Orderly(base, S) /\ Still(left, base, gone) /\ base.here = left.here
        /\ kept \cap gone = {} /\ gone \subseteq W /\ kept \subseteq W
    <2>1. kept = {x \in Whole(left, o) \ {o} : IsA(left, x, InQuest)}
      OBVIOUS
    <2>2. gone = Whole(left, o) \ UNION {Whole(left, x) : x \in kept}
      OBVIOUS
    <2>3. kept \subseteq Whole(left, o)
      OBVIOUS
    <2> HIDE DEF kept, gone
    <2>4. /\ Orderly(base, S) /\ Still(left, base, gone) /\ base.here = left.here
          /\ kept \cap gone = {} /\ gone \subseteq Whole(left, o)
      <3>1. Cast(left, o, kept, gone)
        BY <1>2, <1>3, <2>1, <2>2 DEF Cast
      <3>2. Rescues(left, base, o, kept, gone)
        BY <3>1, GoneOrder
      <3> HIDE DEF base
      <3> QED BY <3>2 DEF Rescues
    <2> HIDE DEF base, S, W
    <2> QED BY <1>3, <2>3, <2>4
  <1> HIDE DEF kept, gone
  <1>5. S \subseteq Objs /\ IsFiniteSet(S) /\ S \subseteq W
    BY <1>1, <1>4, ObjsFinite
  <1>6. S # {} => Holds(w, p, C, {}) /\ C \cap W = {}
    <2>1. CASE p \in Objs
      <3>1. p = w.obj[o].at
        BY <2>1, ThingFacts
      <3> QED BY <2>1, <3>1, ParentHolds
    <2>2. CASE p \in Chars \cup Rooms
      BY <2>2, ThingFacts DEF Holds
    <2> QED BY <2>1, <2>2, ThingFacts
  <1>7. Good({}, base)
    <2>1. S \ {} = S
      OBVIOUS
    <2>2. Still(w, base, W)
      BY <1>2, <1>4 DEF Still
    <2>3. \A y \in S : base.obj[y].at \in gone
      BY <1>5, <1>4 DEF Still
    <2> HIDE DEF base, S
    <2> QED BY <1>2, <1>4, <2>1, <2>2, <2>3
  <1>8. ASSUME NEW s \in SUBSET S, NEW x \in s, NEW v, Good(s \ {x}, v)
        PROVE  Good(s, Rescued(x, v))
    <2> DEFINE H == S \ (s \ {x})
               u == Put(v, x, Null)
               z == Enter(u, x, p)
    <2>1. x \in Objs /\ x \in H /\ v \in Worlds /\ x \in W /\ x \in kept /\ H \ {x} = S \ s
      BY <1>5, <1>8 DEF Orderly
    <2>2. x \in Live(v) /\ Orderly(v, H)
      BY <1>8, <2>1 DEF Orderly
    <2>3. \A y \in H : v.obj[y].at \in gone /\ v.obj[y].at # x
      BY <1>8, <1>4, <2>1
    <2>4. In(v, x) \subseteq W
      <3>1. \A y \in Objs : w.obj[y].at \in W => y \in W
        BY <1>1, WholeFacts
      <3> QED BY <1>8, <2>1, <3>1 DEF In, Still
    <2> HIDE DEF H, W
    <2>5. /\ Orderly(u, H) /\ Still(v, u, {x}) /\ u.obj[x].at = Null /\ u.here = v.here
      <3>1. H \cup {x} = H
        BY <2>1
      <3>2. PickedUp(v, u, x, H)
        BY <2>2, TakenUp
      <3> HIDE DEF u
      <3> QED BY <3>1, <3>2 DEF PickedUp
    <2> HIDE DEF u
    <2>6. x \in Live(u) /\ \A y \in H : u.obj[y].at # x
      <3>1. H \subseteq Objs
        BY <2>2 DEF Orderly, Live
      <3>2. x # Null
        BY <2>1, ThingFacts DEF Places
      <3> QED BY <2>1, <2>3, <2>5, <3>1, <3>2 DEF Orderly, Still
    <2>7. Holds(u, p, C, H) /\ x \notin C
      <3>1. Still(w, u, W) /\ Holds(w, p, C, {}) /\ W \cap C = {} /\ {} \cap C \subseteq H
        BY <1>8, <1>6, <2>1, <2>5 DEF Still
      <3>2. Holds(u, p, C, H)
        BY <3>1, StillHolds
      <3> QED BY <2>1, <3>1, <3>2
    <2> HIDE DEF C, p
    <2>8. Orderly(z, H \ {x}) /\ Still(u, z, {x} \cup In(u, x)) /\ z.here = u.here
      <3>1. MayEnter(u, x, p, C, H)
        BY <2>5, <2>6, <2>7 DEF MayEnter, MayLie
      <3>2. Arrived(u, z, x, H)
        BY <3>1, Entered
      <3> QED BY <3>2 DEF Arrived
    <2> HIDE DEF z
    <2>9. In(u, x) \subseteq In(v, x) \cup {x}
      BY <2>5 DEF In, Still
    <2>10. Still(w, z, W)
      BY <1>8, <2>1, <2>4, <2>5, <2>8, <2>9 DEF Still
    <2>11. \A y \in S \ s : z.obj[y].at \in gone
      <3>1. \A y \in S \ s : y \in H /\ y # x /\ y \in Objs
        BY <1>5, <2>1
      <3>2. \A y \in S \ s : y \notin In(v, x)
        BY <2>3, <3>1 DEF In
      <3> QED BY <2>3, <2>5, <2>8, <2>9, <3>1, <3>2 DEF Still
    <2>12. Orderly(z, S \ s)
      BY <2>1, <2>8
    <2>13. Good(s, z)
      BY <1>8, <2>5, <2>8, <2>10, <2>11, <2>12
    <2> QED BY <2>13 DEF z, u, p
  <1> DEFINE step == [a \in S \X Worlds |-> Rescued(a[1], a[2])]
             Eq(h) == h = [s \in SUBSET S |-> IF s = {} THEN base ELSE Rescued(Pick(s), h[s \ {Pick(s)}])]
             it == CHOOSE h : Eq(h)
  <1>9. FoldSet(Rescued, base, S) = it[S]
    BY DEF FoldSet, MapThenFoldSet, Pick
  <1>10. \A s \in SUBSET S : \A v : <<s, v>> \in Q <=> Good(s, v)
    BY DEF Orderly
  <1>11. \A s, v : Good(s, v) => v \in Worlds
    BY DEF Orderly
  <1> HIDE DEF Good, base, S
  <1> HIDE DEF Rescued
  <1>12. ASSUME NEW s \in SUBSET S, s # {}, NEW v, Good(s \ {Pick(s)}, v)
        PROVE  Pick(s) \in s /\ Good(s, Rescued(Pick(s), v)) /\ <<Pick(s), v>> \in S \X Worlds
    <2>1. Pick(s) \in s
      BY <1>12 DEF Pick
    <2>2. Good(s, Rescued(Pick(s), v)) /\ v \in Worlds
      BY <1>8, <1>12, <1>11, <2>1
    <2> QED BY <2>1, <2>2
  <1>13. \A s \in SUBSET S : \A v : s # {} /\ Good(s \ {Pick(s)}, v) =>
           step[<<Pick(s), v>>] = Rescued(Pick(s), v)
    BY <1>12
  <1> HIDE DEF step, Q
  <1>14. \A s \in SUBSET S : \A v :
           s # {} /\ <<s \ {Pick(s)}, v>> \in Q => <<s, step[<<Pick(s), v>>]>> \in Q
    BY <1>10, <1>12, <1>13
  <1>15. <<{}, base>> \in Q
    BY <1>7, <1>10
  <1>16. PICK h : Runs(h, base, step, S) /\ \A s \in SUBSET S : <<s, h[s]>> \in Q
    <2>1. Leads(base, step, S, Q)
      BY <1>5, <1>14, <1>15 DEF Leads
    <2> QED BY <2>1, RunReaches
  <1>17. Eq(h)
    <2>1. \A s \in SUBSET S : s # {} => step[<<Pick(s), h[s \ {Pick(s)}]>>] = Rescued(Pick(s), h[s \ {Pick(s)}])
      BY <1>10, <1>13, <1>16
    <2> QED BY <1>16, <2>1 DEF Runs
  <1>18. Eq(it)
    BY <1>17
  <1> HIDE DEF it
  <1>19. it[{}] = base /\ \A s \in SUBSET S : s # {} => it[s] = Rescued(Pick(s), it[s \ {Pick(s)}])
    BY <1>18
  <1>20. \A s \in SUBSET S : <<s, it[s]>> \in Q
    <2>1. \A s \in SUBSET S : s # {} /\ <<s \ {Pick(s)}, it[s \ {Pick(s)}]>> \in Q => <<s, it[s]>> \in Q
      BY <1>10, <1>12, <1>19
    <2> QED BY <1>5, <1>15, <1>19, <2>1, StepByStep
  <1> DEFINE v == it[S]
  <1>21. Good(S, v)
    BY <1>10, <1>20
  <1>22. ExtractObj(w, o) = v
    BY <1>9 DEF ExtractObj, Rescued, base, S, kept, gone, left
  <1> QED BY <1>22, <1>21 DEF Good, S

-----------------------------------------------------------------------------
(* Made and split. *)

\* All that lives lives on where it is.
LivesOn(w, v) ==
    /\ Orderly(v, {}) /\ v.here = w.here
    /\ \A y \in Live(w) : y \in Live(v) /\ v.obj[y].at = w.obj[y].at

LEMMA FreshFacts ==
  ASSUME NEW w, Orderly(w, {}), NEW f \in Fresh(w)
  PROVE  /\ f \in Objs /\ f \notin Live(w) /\ In(w, f) = {} /\ f \notin Chars \cup Rooms
         /\ w.obj[f].count = 0 /\ w.obj[f].at = "free" /\ w.obj[f].kind = Null
  <1>1. f \in Objs /\ f \notin Live(w) /\ w.obj[f].at = "free" /\ w \in Worlds
    BY DEF Fresh, Live, Orderly
  <1>2. ASSUME NEW y \in In(w, f) PROVE FALSE
    <2>1. Hung(w, y) /\ w.obj[y].at = f
      BY DEF Orderly, In
    <2> QED BY <1>1, <2>1, ThingFacts DEF Hung, Places
  <1> QED BY <1>1, <1>2, ThingOf, ThingFacts

LEMMA SplitsOff ==
  ASSUME NEW w, Orderly(w, {}), NEW o \in Live(w), NEW n \in Nat \ {0}, Clonable(w, o, n)
  PROVE  LivesOn(w, Split(w, o, n))
  <1>1. w \in Worlds /\ o \in Objs
    BY DEF Orderly, Live
  <1>2. CASE w.obj[o].count <= n
    BY <1>2 DEF Split, LivesOn
  <1>3. CASE ~ w.obj[o].count <= n
    <2> DEFINE m == w.obj[o].count
               rest == New(w)
               a == [w.obj[o] EXCEPT !.count = m - n]
               b == [w.obj[o] EXCEPT !.count = n]
               v == Split(w, o, n)
    <2>1. m \in Nat /\ m > n
      BY <1>1, <1>3, ThingOf
    <2>2. rest \in Fresh(w)
      BY <2>1 DEF New, Clonable
    <2> HIDE DEF rest
    <2>3. /\ rest \in Objs /\ rest \notin Live(w) /\ In(w, rest) = {} /\ rest # o
          /\ rest \notin Chars \cup Rooms /\ w.obj[rest].count = 0 /\ w.obj[rest].kind = Null
      BY <2>2, FreshFacts
    <2>4. /\ a \in Thing /\ a.kind = w.obj[o].kind /\ a.at = w.obj[o].at /\ a.count = m - n
          /\ b \in Thing /\ b.kind = w.obj[o].kind /\ b.at = w.obj[o].at /\ b.count = n
      <3>1. w.obj[o] \in [kind : Kinds, count : Nat \ {0}, at : Spots, worn : BOOLEAN]
        BY <1>1, ThingOf
      <3>2. m - n \in Nat \ {0}
        BY <2>1
      <3> QED BY <3>1, <3>2 DEF Thing
    <2> HIDE DEF a, b
    <2>5. v = [w EXCEPT !.obj = [[w.obj EXCEPT ![rest] = a] EXCEPT ![o] = b]]
      BY <1>1, <1>3, <2>3, WorldFields DEF Split, a, b, rest
    <2>6. /\ v.obj = [[w.obj EXCEPT ![rest] = a] EXCEPT ![o] = b] /\ v.load = w.load /\ v.number = w.number
          /\ v.light = w.light /\ v.index = w.index /\ v.here = w.here
      BY <1>1, <2>5, WorldFields
    <2>7. v.obj \in [Objs -> Thing]
      BY <1>1, <2>4, <2>6, WorldFields
    <2>8. v \in Worlds
      BY <1>1, <2>5, <2>6, <2>7, WorldFields DEF Worlds
    <2>9. /\ \A y \in Objs : y # o /\ y # rest => v.obj[y] = w.obj[y]
          /\ v.obj[rest] = a /\ v.obj[o] = b
      BY <1>1, <2>3, <2>6, WorldFields
    <2> HIDE DEF v
    <2>10. /\ \A y \in Objs \ {rest} : v.obj[y].at = w.obj[y].at /\ v.obj[y].kind = w.obj[y].kind
           /\ v.obj[rest].at = w.obj[o].at /\ v.obj[rest].kind = w.obj[o].kind
      BY <1>1, <2>4, <2>9
    <2>11. Live(w) \subseteq Live(v)
      BY <2>3, <2>10 DEF Live
    <2>12. w.obj[o].at # rest
      <3>1. o \notin In(w, rest)
        BY <2>3
      <3> QED BY <1>1, <3>1 DEF In
    <2>13. ASSUME NEW y \in Objs PROVE Hung(v, y)
      <3>0. w.obj[o].at # y \/ w.obj[y].at # Null
        <4>1. Hung(w, y) /\ (w.obj[o].at = y => o \in In(w, y))
          BY <1>1 DEF Orderly, In
        <4> QED BY <4>1, ThingFacts DEF Hung, Places, Live
      <3>1. CASE y = rest
        <4>1. Hung(w, o)
          BY <1>1 DEF Orderly
        <4>2. In(v, rest) = {}
          BY <2>3, <2>10, <2>12 DEF In
        <4> QED BY <2>10, <2>11, <3>1, <4>1, <4>2 DEF Hung
      <3>2. CASE y # rest
        <4>1. Hung(w, y)
          BY DEF Orderly
        <4>2. w.obj[y].at = Null => In(v, y) \subseteq In(w, y)
          BY <2>10, <3>0 DEF In
        <4> QED BY <2>10, <2>11, <3>2, <4>1, <4>2 DEF Hung
      <3> QED BY <3>1, <3>2
    <2>14. Rooted(v)
      <3> SUFFICES ASSUME NEW D \in SUBSET Objs, \A d \in D : v.obj[d].at \in D PROVE D = {}
        BY DEF Rooted
      <3> DEFINE E == D \ {rest}
      <3>1. \A d \in E : w.obj[d].at \in E
        <4>1. \A d \in E : d \notin In(w, rest)
          BY <2>3
        <4> QED BY <2>10, <4>1 DEF In
      <3>2. E = {}
        <4>1. E \in SUBSET Objs
          OBVIOUS
        <4> HIDE DEF E
        <4> QED BY <3>1, <4>1 DEF Orderly, Rooted
      <3>3. rest \notin D
        BY <2>10, <2>12, <3>2
      <3> QED BY <3>2, <3>3
    <2>15. Counted(v)
      <3> SUFFICES ASSUME NEW k \in Kinds PROVE v.index[k] = SumFunction(Pieces(v, k))
        BY DEF Counted
      <3> DEFINE f == Pieces(w, k)
                 g == Pieces(v, k)
      <3>1. f \in [Objs -> Int] /\ g \in [Objs -> Int] /\ SumFunction(f) \in Int
        BY <1>1, <2>8, PiecesType
      <3>2. \A y \in Objs : y # o /\ y # rest => g[y] = f[y]
        BY <2>9 DEF Pieces
      <3>3. /\ f[rest] = 0 /\ f[o] = IF w.obj[o].kind = k THEN m ELSE 0
            /\ g[rest] = (IF w.obj[o].kind = k THEN m - n ELSE 0)
            /\ g[o] = IF w.obj[o].kind = k THEN n ELSE 0
        BY <1>1, <2>3, <2>4, <2>9, ThingFacts DEF Pieces
      <3> HIDE DEF f, g
      <3>4. SumFunction(g) = SumFunction(f) + g[o] - f[o] + g[rest] - f[rest]
        BY <1>1, <2>3, <3>1, <3>2, SumTwo, ThingFacts
      <3> HIDE DEF m
      <3>5. g[o] - f[o] + g[rest] - f[rest] = 0
        BY <2>1, <3>3
      <3>6. SumFunction(g) = SumFunction(f)
        BY <1>1, <2>3, <3>1, <3>4, <3>5
      <3>7. w.index[k] = SumFunction(f)
        BY DEF Orderly, Counted, f
      <3> QED BY <2>6, <3>6, <3>7 DEF g, v
    <2>16. Orderly(v, {})
      BY <2>8, <2>13, <2>14, <2>15 DEF Orderly
    <2>17. v.here = w.here
      BY <2>6 DEF v
    <2>18. \A y \in Live(w) : y \in Live(v) /\ v.obj[y].at = w.obj[y].at
      <3>1. \A y \in Live(w) : y \in Objs \ {rest}
        BY <2>3 DEF Live
      <3> QED BY <2>10, <2>11, <3>1
    <2> QED BY <2>16, <2>17, <2>18 DEF LivesOn, v
  <1> QED BY <1>2, <1>3

\* f is a new thing of kind k, that is nowhere yet.
Created(w, v, f, k) ==
    /\ Orderly(v, {f}) /\ v.here = w.here
    /\ \A y \in Objs \ {f} : v.obj[y] = w.obj[y]
    /\ f \in Objs /\ v.obj[f].at = Null /\ v.obj[f].kind = k /\ In(v, f) = {} /\ f \notin Live(w)

LEMMA Creates ==
  ASSUME NEW w, Orderly(w, {}), NEW f \in Fresh(w), NEW k \in Kinds
  PROVE  Created(w, CreateObject(w, f, k), f, k)
  <1> DEFINE v == CreateObject(w, f, k)
             r == [kind |-> k, count |-> 1, at |-> Null, worn |-> FALSE]
  <1>1. w \in Worlds
    BY DEF Orderly
  <1>2. /\ f \in Objs /\ f \notin Live(w) /\ In(w, f) = {} /\ f \notin Chars \cup Rooms
        /\ w.obj[f].count = 0 /\ w.obj[f].kind = Null
    BY FreshFacts
  <1>3. r \in Thing /\ r.kind = k /\ r.count = 1 /\ r.at = Null
    BY DEF Thing, Spots
  <1>4. w.index[k] + 1 \in Int /\ \A j \in Kinds : w.index[j] \in Int
    BY <1>1, WorldFields
  <1> HIDE DEF r
  <1>5. v = [w EXCEPT !.obj = [w.obj EXCEPT ![f] = r], !.index = [w.index EXCEPT ![k] = w.index[k] + 1]]
    BY <1>1, WorldFields DEF CreateObject, r
  <1>6. /\ v.obj = [w.obj EXCEPT ![f] = r] /\ v.load = w.load /\ v.number = w.number /\ v.light = w.light
        /\ v.index = [w.index EXCEPT ![k] = w.index[k] + 1] /\ v.here = w.here
    BY <1>1, <1>5, WorldFields
  <1>7. v.obj \in [Objs -> Thing] /\ v.index \in [Kinds -> Int]
    <2>1. w.obj \in [Objs -> Thing] /\ w.index \in [Kinds -> Int]
      BY <1>1, WorldFields
    <2>2. [w.index EXCEPT ![k] = w.index[k] + 1] \in [Kinds -> Int]
      BY <1>4, <2>1
    <2>3. [w.obj EXCEPT ![f] = r] \in [Objs -> Thing]
      BY <1>3, <2>1
    <2> QED BY <1>6, <2>2, <2>3
  <1>8. v \in Worlds
    BY <1>1, <1>5, <1>6, <1>7, WorldFields DEF Worlds
  <1>9. v.obj[f] = r /\ \A y \in Objs \ {f} : v.obj[y] = w.obj[y]
    BY <1>1, <1>2, <1>6, WorldFields
  <1>10. \A j \in Kinds : v.index[j] = IF j = k THEN w.index[k] + 1 ELSE w.index[j]
    BY <1>1, <1>6, WorldFields
  <1>11. v.here = w.here
    BY <1>6
  <1> HIDE DEF v
  <1>12. In(v, f) = {}
    BY <1>2, <1>3, <1>9, ThingFacts DEF In, Places
  <1>13. Live(v) = Live(w) \cup {f}
    BY <1>2, <1>3, <1>9, ThingFacts DEF Live
  <1>14. ASSUME NEW y \in Objs \ {f} PROVE Hung(v, y)
    <2>1. Hung(w, y) /\ v.obj[y] = w.obj[y]
      BY <1>9 DEF Orderly
    <2>2. In(v, y) \subseteq In(w, y)
      BY <1>3, <1>9, ThingFacts DEF In, Places
    <2> QED BY <1>13, <2>1, <2>2 DEF Hung
  <1>15. Rooted(v)
    <2> SUFFICES ASSUME NEW D \in SUBSET Objs, \A d \in D : v.obj[d].at \in D PROVE D = {}
      BY DEF Rooted
    <2>1. f \notin D
      BY <1>3, <1>9, ThingFacts DEF Places
    <2>2. \A d \in D : w.obj[d].at \in D
      BY <1>9, <2>1
    <2> QED BY <2>2 DEF Orderly, Rooted
  <1>16. Counted(v)
    <2> SUFFICES ASSUME NEW j \in Kinds PROVE v.index[j] = SumFunction(Pieces(v, j))
      BY DEF Counted
    <2> DEFINE a == Pieces(w, j)
               b == Pieces(v, j)
    <2>1. a \in [Objs -> Int] /\ b \in [Objs -> Int] /\ SumFunction(a) \in Int
      BY <1>1, <1>8, PiecesType
    <2>2. \A y \in Objs : y # f => b[y] = a[y]
      BY <1>9 DEF Pieces
    <2>3. a[f] = 0 /\ b[f] = IF j = k THEN 1 ELSE 0
      BY <1>2, <1>3, <1>9, ThingFacts DEF Pieces
    <2> HIDE DEF a, b
    <2>4. SumFunction(b) = SumFunction(a) + b[f] - a[f]
      BY <1>2, <2>1, <2>2, SumUpdated, ThingFacts
    <2>5. w.index[j] = SumFunction(a)
      BY DEF Orderly, Counted, a
    <2> QED BY <1>10, <2>1, <2>3, <2>4, <2>5 DEF b
  <1>17. Orderly(v, {f})
    BY <1>8, <1>13, <1>14, <1>15, <1>16 DEF Orderly
  <1> QED BY <1>2, <1>3, <1>9, <1>11, <1>12, <1>17 DEF Created, v

-----------------------------------------------------------------------------
(* Whole moves. *)

\* o has left one list for another, and all is in order.
Shifted(w, v, o) ==
    Orderly(v, {}) /\ Still(w, v, {o} \cup In(w, o)) /\ v.here = w.here

\* What is in a thing may have moved, what is not in one has not.
Settles(w, v) ==
    /\ Orderly(v, {}) /\ v.here = w.here
    /\ \A y \in Live(w) : w.obj[y].at \notin Objs => v.obj[y].at = w.obj[y].at

LEMMA Away ==
  ASSUME NEW w, NEW v, NEW o \in Objs, Departed(w, v, o, {})
  PROVE  /\ Orderly(v, {o}) /\ o \in Live(v) /\ v.obj[o].at = Null /\ v.here = w.here
         /\ Still(w, v, {o} \cup In(w, o)) /\ In(v, o) \subseteq In(w, o)
  <1>1. {} \cup {o} = {o}
    OBVIOUS
  <1>2. Orderly(v, {o}) /\ v.obj[o].at = Null /\ v.here = w.here /\ Still(w, v, {o} \cup In(w, o))
    BY <1>1 DEF Departed
  <1>3. In(v, o) \subseteq In(w, o)
    BY <1>2, ThingFacts DEF In, Still, Places
  <1> QED BY <1>2, <1>3 DEF Orderly

LEMMA Settled ==
  ASSUME NEW w, NEW v, NEW o \in Objs, Departed(w, v, o, {}), NEW p,
         p \in Chars \cup Rooms \/ (p \in Live(w) /\ p # o /\ w.obj[p].at \in Chars \cup Rooms)
  PROVE  Shifted(w, Enter(v, o, p), o)
  <1> DEFINE C == IF p \in Chars \cup Rooms THEN {} ELSE {p}
             H == {o}
             z == Enter(v, o, p)
  <1>1. /\ Orderly(v, H) /\ o \in Live(v) /\ v.obj[o].at = Null /\ v.here = w.here
        /\ Still(w, v, {o} \cup In(w, o)) /\ In(v, o) \subseteq In(w, o)
    BY Away
  <1>2. Holds(v, p, C, H) /\ o \notin C
    <2>1. CASE p \in Chars \cup Rooms
      BY <2>1 DEF Holds
    <2>2. CASE p \notin Chars \cup Rooms
      <3>1. p \in Live(w) /\ p # o /\ w.obj[p].at \in Chars \cup Rooms /\ p \in Objs
        BY <2>2 DEF Live
      <3>2. p \notin {o} \cup In(w, o)
        BY <3>1, ThingFacts DEF In
      <3>3. v.obj[p].at = w.obj[p].at
        BY <1>1, <3>1, <3>2 DEF Still
      <3> QED BY <2>2, <3>1, <3>3, ThingFacts DEF Holds, Live, Places
    <2> QED BY <2>1, <2>2
  <1>3. MayEnter(v, o, p, C, H)
    <2>1. \A x \in H : v.obj[x].at # o
      BY <1>1, ThingFacts DEF Places
    <2> QED BY <1>1, <1>2, <2>1 DEF MayEnter, MayLie
  <1> HIDE DEF C, H
  <1>4. Arrived(v, z, o, H)
    BY <1>3, Entered
  <1>5. H \ {o} = {}
    BY DEF H
  <1> HIDE DEF z
  <1>6. Orderly(z, {}) /\ Still(v, z, {o} \cup In(v, o)) /\ z.here = v.here
    BY <1>4, <1>5 DEF Arrived
  <1>7. Shifted(w, z, o)
    BY <1>1, <1>6 DEF Shifted, Still
  <1> QED BY <1>7 DEF z

LEMMA EnterIs ==
  ASSUME NEW w, NEW o, NEW p
  PROVE  /\ p \in Chars => Enter(w, o, p) = ObjToChar(w, o, p)
         /\ p \in Rooms => Enter(w, o, p) = ObjToRoom(w, o, p)
         /\ p \in Objs => Enter(w, o, p) = ObjToObj(w, o, p)
  BY ThingFacts DEF Enter

\* Out of a hand, off the floor, out of a thing
LEMMA LeaveIs ==
  ASSUME NEW w, Orderly(w, {}), NEW o \in Live(w)
  PROVE  /\ w.obj[o].at \in Chars => Departed(w, ObjFromChar(w, o), o, {})
         /\ w.obj[o].at \in Rooms => Departed(w, ObjFromRoom(w, o), o, {})
         /\ w.obj[o].at \in Objs => Departed(w, ObjFromObj(w, o), o, {})
  <1>1. w.obj[o].at \in Chars => Leave(w, o) = ObjFromChar(w, o)
    BY ThingFacts DEF Leave
  <1>2. w.obj[o].at \in Rooms => Leave(w, o) = ObjFromRoom(w, o)
    BY ThingFacts DEF Leave
  <1>3. w.obj[o].at \in Objs => Leave(w, o) = ObjFromObj(w, o)
    BY ThingFacts DEF Leave
  <1>4. w.obj[o].at \in Places => Departed(w, Leave(w, o), o, {})
    BY Left
  <1> QED BY <1>1, <1>2, <1>3, <1>4, ThingFacts

LEMMA ShiftedSettles ==
  ASSUME NEW w, NEW v, NEW o \in Live(w), Shifted(w, v, o), w.obj[o].at \in Objs
  PROVE  Settles(w, v)
  <1>1. ASSUME NEW y \in Live(w), w.obj[y].at \notin Objs PROVE v.obj[y].at = w.obj[y].at
    <2>1. y \in Objs /\ y # o /\ y \notin In(w, o)
      BY <1>1 DEF Live, In
    <2> QED BY <2>1 DEF Shifted, Still
  <1> QED BY <1>1 DEF Shifted, Settles

\* T is still in b.
Emptying(w, v, b, T) == Settles(w, v) /\ \A z \in T : v.obj[z].at = b

LEMMA EmptiedOne ==
  ASSUME NEW w, NEW y, NEW b \in Objs, NEW T \in SUBSET Objs, Emptying(w, y, b, T), NEW x \in T,
         NEW v, Shifted(y, v, x), NEW U, U \subseteq T, x \notin U
  PROVE  Emptying(w, v, b, U)
  <1>1. y.obj[x].at = b /\ x # b /\ x \in Objs
    <2>1. y.obj[x].at = b /\ x \in Objs
      BY DEF Emptying
    <2>2. Rooted(y)
      BY DEF Emptying, Settles, Orderly
    <2> QED BY <2>1, <2>2, NotInItself
  <1>2. ASSUME NEW z \in U PROVE v.obj[z].at = b
    <2>1. z \in Objs /\ z # x /\ y.obj[z].at = b
      BY <1>2 DEF Emptying
    <2>2. z \notin In(y, x)
      BY <1>1, <2>1 DEF In
    <2> QED BY <2>1, <2>2 DEF Shifted, Still
  <1>3. ASSUME NEW z \in Live(w), w.obj[z].at \notin Objs PROVE v.obj[z].at = w.obj[z].at
    <2>1. y.obj[z].at = w.obj[z].at /\ z \in Objs
      BY <1>3 DEF Emptying, Settles, Live
    <2>2. z # x /\ z \notin In(y, x)
      BY <1>1, <1>3, <2>1 DEF In
    <2> QED BY <2>1, <2>2 DEF Shifted, Still
  <1> QED BY <1>2, <1>3 DEF Emptying, Settles, Shifted

LEMMA Poured ==
  ASSUME NEW w, Orderly(w, {}), NEW o \in Live(w), w.obj[o].at \in Objs, NEW p,
         p \in Chars \cup Rooms \/ (p \in Live(w) /\ p # o /\ w.obj[p].at \in Chars \cup Rooms)
  PROVE  /\ Shifted(w, Enter(ObjFromObj(w, o), o, p), o)
         /\ p \in Chars => Shifted(w, ObjToChar(ObjFromObj(w, o), o, p), o)
         /\ p \in Rooms => Shifted(w, ObjToRoom(ObjFromObj(w, o), o, p), o)
         /\ p \in Objs => Shifted(w, ObjToObj(ObjFromObj(w, o), o, p), o)
  <1> DEFINE v == ObjFromObj(w, o)
  <1>1. o \in Objs /\ Departed(w, v, o, {})
    BY LeaveIs DEF Live
  <1> HIDE DEF v
  <1>2. Shifted(w, Enter(v, o, p), o)
    BY <1>1, Settled
  <1>3. /\ p \in Chars => Enter(v, o, p) = ObjToChar(v, o, p)
        /\ p \in Rooms => Enter(v, o, p) = ObjToRoom(v, o, p)
        /\ p \in Objs => Enter(v, o, p) = ObjToObj(v, o, p)
    BY EnterIs
  <1> QED BY <1>2, <1>3 DEF v

\* empty_obj to the floor
LEMMA Spilt ==
  ASSUME NEW w, Orderly(w, {}), NEW b \in Objs, NEW r, In(w, b) # {} => r \in Rooms
  PROVE  Settles(w, Spill(w, b, r))
  <1> DEFINE base == w
             S == In(w, b)
             Op(x, v) == ObjToRoom(ObjFromObj(v, x), x, r)
             Good(s, v) == v \in Worlds /\ Emptying(w, v, b, S \ s)
             Q == {a \in (SUBSET S) \X Worlds : Good(a[1], a[2])}
  <1>1. S \subseteq Objs /\ IsFiniteSet(S) /\ \A x \in S : w.obj[x].at = b
    BY ObjsFinite DEF In
  <1>2. Good({}, base)
    BY <1>1 DEF Emptying, Settles, Orderly
  <1>3. ASSUME NEW s \in SUBSET S, NEW x \in s, NEW v, Good(s \ {x}, v)
        PROVE  Good(s, Op(x, v))
    <2> DEFINE T == S \ (s \ {x})
               U == S \ s
               z == Op(x, v)
    <2>1. T \in SUBSET Objs /\ U \subseteq T /\ x \in T /\ x \notin U /\ x \in Objs /\ r \in Rooms
      BY <1>1
    <2>2. Emptying(w, v, b, T)
      BY <1>3
    <2> HIDE DEF T, U
    <2>3. Orderly(v, {}) /\ v.obj[x].at = b /\ x \in Live(v)
      BY <2>1, <2>2, ThingFacts DEF Emptying, Settles, Live, Places
    <2>4. Shifted(v, z, x)
      BY <2>1, <2>3, Poured
    <2> HIDE DEF z
    <2>5. Emptying(w, z, b, U)
      BY <2>1, <2>2, <2>4, EmptiedOne
    <2>6. z \in Worlds
      BY <2>4 DEF Shifted, Orderly
    <2> QED BY <2>5, <2>6 DEF U, z
  <1> DEFINE step == [a \in S \X Worlds |-> Op(a[1], a[2])]
             Eq(h) == h = [s \in SUBSET S |-> IF s = {} THEN base ELSE Op(Pick(s), h[s \ {Pick(s)}])]
             it == CHOOSE h : Eq(h)
  <1>4. Spill(w, b, r) = it[S]
    BY DEF FoldSet, MapThenFoldSet, Pick, Spill
  <1>5. \A s \in SUBSET S : \A v : <<s, v>> \in Q <=> Good(s, v)
    BY DEF Orderly
  <1>6. \A s, v : Good(s, v) => v \in Worlds
    BY DEF Orderly
  <1> HIDE DEF Good, base, S
  <1> HIDE DEF Op
  <1>7. ASSUME NEW s \in SUBSET S, s # {}, NEW v, Good(s \ {Pick(s)}, v)
        PROVE  Pick(s) \in s /\ Good(s, Op(Pick(s), v)) /\ <<Pick(s), v>> \in S \X Worlds
    <2>1. Pick(s) \in s
      BY <1>7 DEF Pick
    <2>2. Good(s, Op(Pick(s), v)) /\ v \in Worlds
      BY <1>3, <1>7, <1>6, <2>1
    <2> QED BY <2>1, <2>2
  <1>8. \A s \in SUBSET S : \A v : s # {} /\ Good(s \ {Pick(s)}, v) =>
           step[<<Pick(s), v>>] = Op(Pick(s), v)
    BY <1>7
  <1> HIDE DEF step, Q
  <1>9. \A s \in SUBSET S : \A v :
           s # {} /\ <<s \ {Pick(s)}, v>> \in Q => <<s, step[<<Pick(s), v>>]>> \in Q
    BY <1>5, <1>7, <1>8
  <1>10. <<{}, base>> \in Q
    BY <1>2, <1>5
  <1>11. PICK h : Runs(h, base, step, S) /\ \A s \in SUBSET S : <<s, h[s]>> \in Q
    <2>1. Leads(base, step, S, Q)
      BY <1>1, <1>9, <1>10 DEF Leads
    <2> QED BY <2>1, RunReaches
  <1>12. Eq(h)
    <2>1. \A s \in SUBSET S : s # {} => step[<<Pick(s), h[s \ {Pick(s)}]>>] = Op(Pick(s), h[s \ {Pick(s)}])
      BY <1>5, <1>8, <1>11
    <2> QED BY <1>11, <2>1 DEF Runs
  <1>13. Eq(it)
    BY <1>12
  <1> HIDE DEF it
  <1>14. it[{}] = base /\ \A s \in SUBSET S : s # {} => it[s] = Op(Pick(s), it[s \ {Pick(s)}])
    BY <1>13
  <1>15. \A s \in SUBSET S : <<s, it[s]>> \in Q
    <2>1. \A s \in SUBSET S : s # {} /\ <<s \ {Pick(s)}, it[s \ {Pick(s)}]>> \in Q => <<s, it[s]>> \in Q
      BY <1>5, <1>7, <1>14
    <2> QED BY <1>1, <1>10, <1>14, <2>1, StepByStep
  <1> DEFINE v == it[S]
  <1>16. Good(S, v)
    BY <1>5, <1>15
  <1>17. Spill(w, b, r) = v
    BY <1>4
  <1> QED BY <1>17, <1>16 DEF Good, Emptying

\* empty_obj into another container
LEMMA PouredOut ==
  ASSUME NEW w, Orderly(w, {}), NEW b \in Objs, NEW d \in Live(w), w.obj[d].at \in Chars \cup Rooms
  PROVE  Settles(w, Pour(w, b, d))
  <1> DEFINE base == w
             S == In(w, b)
             Op(x, v) == IF Fits(v, x, d) THEN ObjToObj(ObjFromObj(v, x), x, d) ELSE v
             Good(s, v) == v \in Worlds /\ Emptying(w, v, b, S \ s)
             Q == {a \in (SUBSET S) \X Worlds : Good(a[1], a[2])}
  <1>1. d \in Objs
    BY DEF Live
  <1>2. S \subseteq Objs /\ IsFiniteSet(S) /\ \A x \in S : w.obj[x].at = b
    BY ObjsFinite DEF In
  <1>3. Good({}, base)
    BY <1>2 DEF Emptying, Settles, Orderly
  <1>4. ASSUME NEW s \in SUBSET S, NEW x \in s, NEW v, Good(s \ {x}, v)
        PROVE  Good(s, Op(x, v))
    <2> DEFINE T == S \ (s \ {x})
               U == S \ s
               z == ObjToObj(ObjFromObj(v, x), x, d)
    <2>1. T \in SUBSET Objs /\ U \subseteq T /\ x \in T /\ x \notin U /\ x \in Objs
      BY <1>2
    <2>2. Emptying(w, v, b, T) /\ v \in Worlds
      BY <1>4
    <2> HIDE DEF T, U
    <2>3. Orderly(v, {}) /\ v.obj[x].at = b /\ x \in Live(v)
      BY <2>1, <2>2, ThingFacts DEF Emptying, Settles, Live, Places
    <2>4. v.obj[d].at \in Chars \cup Rooms /\ d # x /\ d \in Live(v)
      <3>1. v.obj[d].at = w.obj[d].at
        BY <2>2, ThingFacts DEF Emptying, Settles
      <3> QED BY <1>1, <2>3, <3>1, ThingFacts DEF Live, Places
    <2>5. Shifted(v, z, x)
      BY <1>1, <2>3, <2>4, Poured
    <2> HIDE DEF z
    <2>6. Emptying(w, z, b, U)
      BY <2>1, <2>2, <2>5, EmptiedOne
    <2>7. z \in Worlds
      BY <2>5 DEF Shifted, Orderly
    <2>8. Emptying(w, v, b, U)
      BY <2>1, <2>2 DEF Emptying
    <2> QED BY <2>2, <2>6, <2>7, <2>8 DEF U, z
  <1> DEFINE step == [a \in S \X Worlds |-> Op(a[1], a[2])]
             Eq(h) == h = [s \in SUBSET S |-> IF s = {} THEN base ELSE Op(Pick(s), h[s \ {Pick(s)}])]
             it == CHOOSE h : Eq(h)
  <1>5. Pour(w, b, d) = it[S]
    BY DEF FoldSet, MapThenFoldSet, Pick, Pour
  <1>6. \A s \in SUBSET S : \A v : <<s, v>> \in Q <=> Good(s, v)
    BY DEF Orderly
  <1>7. \A s, v : Good(s, v) => v \in Worlds
    BY DEF Orderly
  <1> HIDE DEF Good, base, S
  <1> HIDE DEF Op
  <1>8. ASSUME NEW s \in SUBSET S, s # {}, NEW v, Good(s \ {Pick(s)}, v)
        PROVE  Pick(s) \in s /\ Good(s, Op(Pick(s), v)) /\ <<Pick(s), v>> \in S \X Worlds
    <2>1. Pick(s) \in s
      BY <1>8 DEF Pick
    <2>2. Good(s, Op(Pick(s), v)) /\ v \in Worlds
      BY <1>4, <1>8, <1>7, <2>1
    <2> QED BY <2>1, <2>2
  <1>9. \A s \in SUBSET S : \A v : s # {} /\ Good(s \ {Pick(s)}, v) =>
           step[<<Pick(s), v>>] = Op(Pick(s), v)
    BY <1>8
  <1> HIDE DEF step, Q
  <1>10. \A s \in SUBSET S : \A v :
           s # {} /\ <<s \ {Pick(s)}, v>> \in Q => <<s, step[<<Pick(s), v>>]>> \in Q
    BY <1>6, <1>8, <1>9
  <1>11. <<{}, base>> \in Q
    BY <1>3, <1>6
  <1>12. PICK h : Runs(h, base, step, S) /\ \A s \in SUBSET S : <<s, h[s]>> \in Q
    <2>1. Leads(base, step, S, Q)
      BY <1>2, <1>10, <1>11 DEF Leads
    <2> QED BY <2>1, RunReaches
  <1>13. Eq(h)
    <2>1. \A s \in SUBSET S : s # {} => step[<<Pick(s), h[s \ {Pick(s)}]>>] = Op(Pick(s), h[s \ {Pick(s)}])
      BY <1>6, <1>9, <1>12
    <2> QED BY <1>12, <2>1 DEF Runs
  <1>14. Eq(it)
    BY <1>13
  <1> HIDE DEF it
  <1>15. it[{}] = base /\ \A s \in SUBSET S : s # {} => it[s] = Op(Pick(s), it[s \ {Pick(s)}])
    BY <1>14
  <1>16. \A s \in SUBSET S : <<s, it[s]>> \in Q
    <2>1. \A s \in SUBSET S : s # {} /\ <<s \ {Pick(s)}, it[s \ {Pick(s)}]>> \in Q => <<s, it[s]>> \in Q
      BY <1>6, <1>8, <1>15
    <2> QED BY <1>2, <1>11, <1>15, <2>1, StepByStep
  <1> DEFINE v == it[S]
  <1>17. Good(S, v)
    BY <1>6, <1>16
  <1>18. Pour(w, b, d) = v
    BY <1>5
  <1> QED BY <1>18, <1>17 DEF Good, Emptying

\* do_fill out of another container
LEMMA FilledUp ==
  ASSUME NEW w, Orderly(w, {}), NEW c, NEW t \in Objs, NEW held \in SUBSET Objs, \A x \in held : w.obj[x].at = t,
         NEW d \in Live(w), w.obj[d].at \in Chars \cup Rooms
  PROVE  Settles(w, FillUp(w, c, t, d, held))
  <1> DEFINE base == w
             S == held
             Fitting(v, x) ==
                /\ v.number[c] + v.obj[x].count <= CarryN
                /\ v.load[c] + WeightOf(v, x) <= CarryW
                /\ WeightOf(v, t) + WeightOf(v, d) \div v.obj[d].count <= Size[Kind(v, d)]
             Op(x, v) == IF Fitting(v, x) THEN ObjToObj(ObjFromObj(v, x), x, d) ELSE v
             Good(s, v) == v \in Worlds /\ Emptying(w, v, t, S \ s)
             Q == {a \in (SUBSET S) \X Worlds : Good(a[1], a[2])}
  <1>1. d \in Objs
    BY DEF Live
  <1>2. S \subseteq Objs /\ IsFiniteSet(S) /\ \A x \in S : w.obj[x].at = t
    BY ObjsFinite
  <1>3. Good({}, base)
    BY <1>2 DEF Emptying, Settles, Orderly
  <1>4. ASSUME NEW s \in SUBSET S, NEW x \in s, NEW v, Good(s \ {x}, v)
        PROVE  Good(s, Op(x, v))
    <2> DEFINE T == S \ (s \ {x})
               U == S \ s
               z == ObjToObj(ObjFromObj(v, x), x, d)
    <2>1. T \in SUBSET Objs /\ U \subseteq T /\ x \in T /\ x \notin U /\ x \in Objs
      BY <1>2
    <2>2. Emptying(w, v, t, T) /\ v \in Worlds
      BY <1>4
    <2> HIDE DEF T, U
    <2>3. Orderly(v, {}) /\ v.obj[x].at = t /\ x \in Live(v)
      BY <2>1, <2>2, ThingFacts DEF Emptying, Settles, Live, Places
    <2>4. v.obj[d].at \in Chars \cup Rooms /\ d # x /\ d \in Live(v)
      <3>1. v.obj[d].at = w.obj[d].at
        BY <2>2, ThingFacts DEF Emptying, Settles
      <3> QED BY <1>1, <2>3, <3>1, ThingFacts DEF Live, Places
    <2>5. Shifted(v, z, x)
      BY <1>1, <2>3, <2>4, Poured
    <2> HIDE DEF z, Fitting
    <2>6. Emptying(w, z, t, U)
      BY <2>1, <2>2, <2>5, EmptiedOne
    <2>7. z \in Worlds
      BY <2>5 DEF Shifted, Orderly
    <2>8. Emptying(w, v, t, U)
      BY <2>1, <2>2 DEF Emptying
    <2> QED BY <2>2, <2>6, <2>7, <2>8 DEF U, z
  <1> DEFINE step == [a \in S \X Worlds |-> Op(a[1], a[2])]
             Eq(h) == h = [s \in SUBSET S |-> IF s = {} THEN base ELSE Op(Pick(s), h[s \ {Pick(s)}])]
             it == CHOOSE h : Eq(h)
  <1>5. FillUp(w, c, t, d, held) = it[S]
    BY DEF FoldSet, MapThenFoldSet, Pick, FillUp
  <1>6. \A s \in SUBSET S : \A v : <<s, v>> \in Q <=> Good(s, v)
    BY DEF Orderly
  <1>7. \A s, v : Good(s, v) => v \in Worlds
    BY DEF Orderly
  <1> HIDE DEF Good, base, S
  <1> HIDE DEF Op
  <1>8. ASSUME NEW s \in SUBSET S, s # {}, NEW v, Good(s \ {Pick(s)}, v)
        PROVE  Pick(s) \in s /\ Good(s, Op(Pick(s), v)) /\ <<Pick(s), v>> \in S \X Worlds
    <2>1. Pick(s) \in s
      BY <1>8 DEF Pick
    <2>2. Good(s, Op(Pick(s), v)) /\ v \in Worlds
      BY <1>4, <1>8, <1>7, <2>1
    <2> QED BY <2>1, <2>2
  <1>9. \A s \in SUBSET S : \A v : s # {} /\ Good(s \ {Pick(s)}, v) =>
           step[<<Pick(s), v>>] = Op(Pick(s), v)
    BY <1>8
  <1> HIDE DEF step, Q
  <1>10. \A s \in SUBSET S : \A v :
           s # {} /\ <<s \ {Pick(s)}, v>> \in Q => <<s, step[<<Pick(s), v>>]>> \in Q
    BY <1>6, <1>8, <1>9
  <1>11. <<{}, base>> \in Q
    BY <1>3, <1>6
  <1>12. PICK h : Runs(h, base, step, S) /\ \A s \in SUBSET S : <<s, h[s]>> \in Q
    <2>1. Leads(base, step, S, Q)
      BY <1>2, <1>10, <1>11 DEF Leads
    <2> QED BY <2>1, RunReaches
  <1>13. Eq(h)
    <2>1. \A s \in SUBSET S : s # {} => step[<<Pick(s), h[s \ {Pick(s)}]>>] = Op(Pick(s), h[s \ {Pick(s)}])
      BY <1>6, <1>9, <1>12
    <2> QED BY <1>12, <2>1 DEF Runs
  <1>14. Eq(it)
    BY <1>13
  <1> HIDE DEF it
  <1>15. it[{}] = base /\ \A s \in SUBSET S : s # {} => it[s] = Op(Pick(s), it[s \ {Pick(s)}])
    BY <1>14
  <1>16. \A s \in SUBSET S : <<s, it[s]>> \in Q
    <2>1. \A s \in SUBSET S : s # {} /\ <<s \ {Pick(s)}, it[s \ {Pick(s)}]>> \in Q => <<s, it[s]>> \in Q
      BY <1>6, <1>8, <1>15
    <2> QED BY <1>2, <1>11, <1>15, <2>1, StepByStep
  <1> DEFINE v == it[S]
  <1>17. Good(S, v)
    BY <1>6, <1>16
  <1>18. FillUp(w, c, t, d, held) = v
    BY <1>5
  <1> QED BY <1>18, <1>17 DEF Good, Emptying

-----------------------------------------------------------------------------
(* What the commands are made of. *)

MayMove(w, o, p) ==
    /\ Orderly(w, {}) /\ o \in Live(w)
    /\ p \in Chars \cup Rooms \/ (p \in Live(w) /\ p # o /\ w.obj[p].at \in Chars \cup Rooms)

\* From one list to another
LEMMA Moves ==
  ASSUME NEW w, NEW o, NEW p, MayMove(w, o, p)
  PROVE  /\ w.obj[o].at \in Chars /\ p \in Chars => Orderly(ObjToChar(ObjFromChar(w, o), o, p), {})
         /\ w.obj[o].at \in Chars /\ p \in Rooms => Orderly(ObjToRoom(ObjFromChar(w, o), o, p), {})
         /\ w.obj[o].at \in Chars /\ p \in Objs => Orderly(ObjToObj(ObjFromChar(w, o), o, p), {})
         /\ w.obj[o].at \in Rooms /\ p \in Chars => Orderly(ObjToChar(ObjFromRoom(w, o), o, p), {})
         /\ w.obj[o].at \in Rooms /\ p \in Objs => Orderly(ObjToObj(ObjFromRoom(w, o), o, p), {})
         /\ w.obj[o].at \in Objs /\ p \in Chars => Orderly(ObjToChar(ObjFromObj(w, o), o, p), {})
  <1>1. Orderly(w, {}) /\ o \in Live(w) /\ o \in Objs
    BY DEF MayMove, Live
  <1>2. /\ w.obj[o].at \in Chars => Departed(w, ObjFromChar(w, o), o, {})
        /\ w.obj[o].at \in Rooms => Departed(w, ObjFromRoom(w, o), o, {})
        /\ w.obj[o].at \in Objs => Departed(w, ObjFromObj(w, o), o, {})
    BY <1>1, LeaveIs
  <1>3. ASSUME NEW v, Departed(w, v, o, {})
        PROVE  /\ p \in Chars => Orderly(ObjToChar(v, o, p), {})
               /\ p \in Rooms => Orderly(ObjToRoom(v, o, p), {})
               /\ p \in Objs => Orderly(ObjToObj(v, o, p), {})
    <2>1. Shifted(w, Enter(v, o, p), o)
      BY <1>1, <1>3, Settled DEF MayMove
    <2>2. Orderly(Enter(v, o, p), {})
      BY <2>1 DEF Shifted
    <2>3. /\ p \in Chars => Enter(v, o, p) = ObjToChar(v, o, p)
          /\ p \in Rooms => Enter(v, o, p) = ObjToRoom(v, o, p)
          /\ p \in Objs => Enter(v, o, p) = ObjToObj(v, o, p)
      BY EnterIs
    <2> QED BY <2>2, <2>3
  <1> QED BY <1>2, <1>3

\* A new thing is laid somewhere, or lies nowhere when it is scraps.
LEMMA Makes ==
  ASSUME NEW w, Orderly(w, {}), NEW f \in Fresh(w), NEW k \in Kinds
  PROVE  /\ \A p \in Places : (p \in Objs => w.obj[p].at \in Chars \cup Rooms) =>
                LivesOn(w, Enter(CreateObject(w, f, k), f, p))
         /\ k = Scraps => LivesOn(w, CreateObject(w, f, k))
  <1> DEFINE v == CreateObject(w, f, k)
             H == {f}
  <1>1. Created(w, v, f, k)
    BY Creates
  <1> HIDE DEF v
  <1>2. /\ Orderly(v, H) /\ v.here = w.here /\ f \in Objs /\ v.obj[f].at = Null /\ v.obj[f].kind = k
        /\ In(v, f) = {} /\ f \notin Live(w) /\ \A y \in Objs \ {f} : v.obj[y] = w.obj[y]
    BY <1>1 DEF Created
  <1>3. \A y \in Live(w) : y \in Objs /\ y # f /\ y \in Live(v) /\ v.obj[y].at = w.obj[y].at
    BY <1>2 DEF Live
  <1>4. f \in Live(v)
    BY <1>2 DEF Orderly
  <1>5. ASSUME NEW p \in Places, p \in Objs => w.obj[p].at \in Chars \cup Rooms
        PROVE  LivesOn(w, Enter(v, f, p))
    <2> DEFINE C == IF p \in Chars \cup Rooms THEN {} ELSE {p}
               z == Enter(v, f, p)
    <2>1. Holds(v, p, C, H) /\ f \notin C
      <3>1. CASE p \in Chars \cup Rooms
        BY <3>1 DEF Holds
      <3>2. CASE p \notin Chars \cup Rooms
        <4>1. p \in Objs /\ w.obj[p].at \in Chars \cup Rooms /\ p \in Live(w)
          BY <1>5, <3>2, ThingFacts DEF Live, Places
        <4> QED BY <1>3, <3>2, <4>1, ThingFacts DEF Holds, Places
      <3> QED BY <3>1, <3>2
    <2>2. MayEnter(v, f, p, C, H)
      <3>1. \A x \in H : v.obj[x].at # f
        BY <1>2, ThingFacts DEF Places
      <3> QED BY <1>2, <1>4, <2>1, <3>1 DEF MayEnter, MayLie
    <2> HIDE DEF C, H
    <2>3. Arrived(v, z, f, H)
      BY <2>2, Entered
    <2>4. H \ {f} = {}
      BY DEF H
    <2> HIDE DEF z
    <2>5. Orderly(z, {}) /\ Still(v, z, {f}) /\ z.here = v.here
      BY <1>2, <2>3, <2>4 DEF Arrived, Still
    <2>6. \A y \in Live(w) : y \in Live(z) /\ z.obj[y].at = w.obj[y].at
      BY <1>3, <2>5 DEF Still, Live
    <2> QED BY <1>2, <2>5, <2>6 DEF LivesOn, z
  <1>6. ASSUME k = Scraps PROVE LivesOn(w, v)
    <2>1. Hung(v, f)
      BY <1>2, <1>6 DEF Hung
    <2>2. Orderly(v, {})
      BY <1>2, <2>1 DEF Orderly
    <2> QED BY <1>2, <1>3, <2>2 DEF LivesOn
  <1> QED BY <1>5, <1>6 DEF v

\* What is worn is taken off.
LEMMA TakesOff ==
  ASSUME NEW w, Orderly(w, {}), NEW c \in Chars, NEW worn \in SUBSET Objs, \A x \in worn : w.obj[x].at = c
  PROVE  LivesOn(w, TakeOff(w, worn))
  <1> DEFINE base == w
             S == worn
             Op(x, v) == UnequipChar(v, x)
             Good(s, v) == Orderly(v, {}) /\ Still(w, v, {}) /\ v.here = w.here
             Q == {a \in (SUBSET S) \X Worlds : Good(a[1], a[2])}
  <1>1. S \subseteq Objs /\ IsFiniteSet(S) /\ \A x \in S : w.obj[x].at = c
    BY ObjsFinite
  <1>2. Good({}, base)
    BY DEF Still
  <1>3. ASSUME NEW s \in SUBSET S, NEW x \in s, NEW v, Good(s \ {x}, v)
        PROVE  Good(s, Op(x, v))
    <2>1. x \in Objs /\ v.obj[x].at = c
      BY <1>1, <1>3 DEF Still
    <2>2. x \in Live(v) /\ v.obj[x].at \in Chars
      BY <2>1, ThingFacts DEF Live, Places
    <2>3. /\ Orderly(UnequipChar(v, x), {}) /\ Still(v, UnequipChar(v, x), {})
          /\ UnequipChar(v, x).here = v.here
      BY <1>3, <2>2, TakenOff
    <2> QED BY <1>3, <2>3 DEF Still
  <1> DEFINE step == [a \in S \X Worlds |-> Op(a[1], a[2])]
             Eq(h) == h = [s \in SUBSET S |-> IF s = {} THEN base ELSE Op(Pick(s), h[s \ {Pick(s)}])]
             it == CHOOSE h : Eq(h)
  <1>4. TakeOff(w, worn) = it[S]
    BY DEF FoldSet, MapThenFoldSet, Pick, TakeOff
  <1>5. \A s \in SUBSET S : \A v : <<s, v>> \in Q <=> Good(s, v)
    BY DEF Orderly
  <1>6. \A s, v : Good(s, v) => v \in Worlds
    BY DEF Orderly
  <1> HIDE DEF Good, base, S
  <1> HIDE DEF Op
  <1>7. ASSUME NEW s \in SUBSET S, s # {}, NEW v, Good(s \ {Pick(s)}, v)
        PROVE  Pick(s) \in s /\ Good(s, Op(Pick(s), v)) /\ <<Pick(s), v>> \in S \X Worlds
    <2>1. Pick(s) \in s
      BY <1>7 DEF Pick
    <2>2. Good(s, Op(Pick(s), v)) /\ v \in Worlds
      BY <1>3, <1>7, <1>6, <2>1
    <2> QED BY <2>1, <2>2
  <1>8. \A s \in SUBSET S : \A v : s # {} /\ Good(s \ {Pick(s)}, v) =>
           step[<<Pick(s), v>>] = Op(Pick(s), v)
    BY <1>7
  <1> HIDE DEF step, Q
  <1>9. \A s \in SUBSET S : \A v :
           s # {} /\ <<s \ {Pick(s)}, v>> \in Q => <<s, step[<<Pick(s), v>>]>> \in Q
    BY <1>5, <1>7, <1>8
  <1>10. <<{}, base>> \in Q
    BY <1>2, <1>5
  <1>11. PICK h : Runs(h, base, step, S) /\ \A s \in SUBSET S : <<s, h[s]>> \in Q
    <2>1. Leads(base, step, S, Q)
      BY <1>1, <1>9, <1>10 DEF Leads
    <2> QED BY <2>1, RunReaches
  <1>12. Eq(h)
    <2>1. \A s \in SUBSET S : s # {} => step[<<Pick(s), h[s \ {Pick(s)}]>>] = Op(Pick(s), h[s \ {Pick(s)}])
      BY <1>5, <1>8, <1>11
    <2> QED BY <1>11, <2>1 DEF Runs
  <1>13. Eq(it)
    BY <1>12
  <1> HIDE DEF it
  <1>14. it[{}] = base /\ \A s \in SUBSET S : s # {} => it[s] = Op(Pick(s), it[s \ {Pick(s)}])
    BY <1>13
  <1>15. \A s \in SUBSET S : <<s, it[s]>> \in Q
    <2>1. \A s \in SUBSET S : s # {} /\ <<s \ {Pick(s)}, it[s \ {Pick(s)}]>> \in Q => <<s, it[s]>> \in Q
      BY <1>5, <1>7, <1>14
    <2> QED BY <1>1, <1>10, <1>14, <2>1, StepByStep
  <1> DEFINE v == it[S]
  <1>16. Good(S, v)
    BY <1>5, <1>15
  <1>17. TakeOff(w, worn) = v
    BY <1>4
  <1> HIDE DEF v
  <1>18. \A y \in Live(w) : y \in Live(v) /\ v.obj[y].at = w.obj[y].at
    BY <1>16 DEF Good, Still, Live
  <1> QED BY <1>17, <1>18, <1>16 DEF Good, LivesOn

\* The corpse f is nowhere yet; what c has but S is still with him.
Burying(w, v, f, c, S) ==
    /\ Orderly(v, {}) /\ f \in Live(v) /\ v.obj[f].at = "aside" /\ v.here = w.here
    /\ \A z \in Objs \ S : w.obj[z].at = c => v.obj[z].at = c

\* Out of the hand, and nowhere
LEMMA OutOfHand ==
  ASSUME NEW w, Orderly(w, {}), NEW x \in Live(w), w.obj[x].at \in Chars
  PROVE  /\ Orderly(Unhand(w, x), {}) /\ x \in Live(Unhand(w, x)) /\ Unhand(w, x).obj[x].at = "aside"
         /\ Still(w, Unhand(w, x), {x} \cup In(w, x)) /\ Unhand(w, x).here = w.here
  <1> DEFINE H == {x}
             u == ObjFromChar(w, x)
             v == Put(u, x, "aside")
  <1>1. Departed(w, u, x, {}) /\ x \in Objs
    BY LeaveIs DEF Live
  <1> HIDE DEF u
  <1>2. Orderly(u, H) /\ x \in Live(u) /\ u.here = w.here /\ Still(w, u, {x} \cup In(w, x))
    BY <1>1, Away
  <1>3. MayLie(u, x, "aside", {}, H)
    BY <1>2 DEF MayLie, Holds
  <1>4. PutDown(u, v, x, H) /\ v.obj[x].at = "aside"
    BY <1>3, LaidDown
  <1>5. H \ {x} = {}
    OBVIOUS
  <1>6. Unhand(w, x) = v
    BY DEF Unhand, u
  <1> HIDE DEF v, H
  <1>7. Orderly(v, {}) /\ Still(u, v, {x}) /\ v.here = u.here
    BY <1>4, <1>5 DEF PutDown
  <1>8. x \in Live(v)
    BY <1>1, <1>4, ThingFacts DEF Live, Spots
  <1>9. Still(w, v, {x} \cup In(w, x))
    BY <1>2, <1>7 DEF Still
  <1> QED BY <1>2, <1>4, <1>6, <1>7, <1>8, <1>9

\* Out of the hand, and out of the world
LEMMA Discards ==
  ASSUME NEW w, Orderly(w, {}), NEW x \in Live(w), w.obj[x].at \in Chars
  PROVE  /\ Orderly(Discard(w, x), {}) /\ Discard(w, x).here = w.here
         /\ \A y \in Objs \ {x} : w.obj[y].at \notin Objs => Discard(w, x).obj[y].at = w.obj[y].at
  <1> DEFINE v == Unhand(w, x)
             z == ExtractObj(v, x)
  <1>1. /\ Orderly(v, {}) /\ x \in Live(v) /\ x \in Objs
        /\ Still(w, v, {x} \cup In(w, x)) /\ v.here = w.here
    BY OutOfHand DEF Live
  <1>2. Discard(w, x) = z
    BY DEF Discard
  <1> HIDE DEF v
  <1>3. Orderly(z, {}) /\ Still(v, z, Whole(v, x)) /\ z.here = v.here
    BY <1>1, Extracts
  <1> HIDE DEF z
  <1>4. ASSUME NEW y \in Objs \ {x}, w.obj[y].at \notin Objs PROVE z.obj[y].at = w.obj[y].at
    <2>1. v.obj[y].at = w.obj[y].at
      BY <1>1, <1>4 DEF Still, In
    <2>2. y \notin Whole(v, x)
      <3>1. y \in Whole(v, x) => v.obj[y].at \in Objs
        BY <1>1, WholeFacts
      <3> QED BY <1>4, <2>1, <3>1
    <2> QED BY <1>3, <2>1, <2>2 DEF Still
  <1> QED BY <1>1, <1>2, <1>3, <1>4

LEMMA Buries ==
  ASSUME NEW w, Orderly(w, {}), NEW f \in Live(w), w.obj[f].at = "aside", NEW to \in {f, "aside"},
         NEW c \in Chars, NEW x \in Objs, w.obj[x].at = c
  PROVE  Burying(w, Bury(w, x, to), f, c, {x})
  <1> DEFINE v == Unhand(w, x)
  <1>1. x \in Live(w) /\ x # f /\ f \in Objs /\ w.obj[x].at \in Chars /\ c \notin Objs /\ c # "aside"
    BY ThingFacts DEF Live, Places
  <1>2. /\ Orderly(v, {}) /\ x \in Live(v) /\ v.obj[x].at = "aside"
        /\ Still(w, v, {x} \cup In(w, x)) /\ v.here = w.here
    BY <1>1, OutOfHand
  <1> HIDE DEF v
  <1>3. \A y \in Objs \ {x} : w.obj[y].at \notin Objs => v.obj[y].at = w.obj[y].at
    BY <1>1, <1>2 DEF Still, In
  <1>4. CASE IsA(w, x, Inventory)
    <2> DEFINE z == Discard(w, x)
    <2>1. Bury(w, x, to) = z
      BY <1>4 DEF Bury
    <2>2. /\ Orderly(z, {}) /\ z.here = w.here
          /\ \A y \in Objs \ {x} : w.obj[y].at \notin Objs => z.obj[y].at = w.obj[y].at
      BY <1>1, Discards
    <2> HIDE DEF z
    <2>3. z.obj[f].at = "aside" /\ f \in Live(z)
      BY <1>1, <2>2, ThingFacts DEF Live, Places
    <2>4. \A y \in Objs \ {x} : w.obj[y].at = c => z.obj[y].at = c
      BY <1>1, <2>2
    <2> QED BY <2>1, <2>2, <2>3, <2>4 DEF Burying
  <1>5. CASE ~ IsA(w, x, Inventory) /\ to = "aside"
    <2>1. Bury(w, x, to) = v
      BY <1>5 DEF Bury, v
    <2>2. v.obj[f].at = "aside" /\ f \in Live(v)
      BY <1>1, <1>3, ThingFacts DEF Live, Places
    <2>3. \A y \in Objs \ {x} : w.obj[y].at = c => v.obj[y].at = c
      BY <1>1, <1>3
    <2> QED BY <1>2, <2>1, <2>2, <2>3 DEF Burying
  <1>6. CASE ~ IsA(w, x, Inventory) /\ to = f /\ to # "aside"
    <2> DEFINE z == ObjToObj(v, x, f)
               C == {f}
    <2>1. Bury(w, x, to) = z
      BY <1>6 DEF Bury, v
    <2>2. v.obj[f].at = "aside" /\ f \in Live(v)
      BY <1>1, <1>3, ThingFacts DEF Live, Places
    <2>3. Holds(v, f, C, {}) /\ x \notin C
      BY <1>1, <2>2, ThingFacts DEF Holds, Places
    <2> HIDE DEF C
    <2>4. MayLie(v, x, f, C, {})
      BY <1>2, <2>3 DEF MayLie
    <2>5. PutDown(v, z, x, {})
      BY <2>4, ToObj
    <2> HIDE DEF z
    <2>6. Orderly(z, {}) /\ Still(v, z, {x}) /\ z.here = v.here
      <3>1. {} \ {x} = {}
        OBVIOUS
      <3> QED BY <2>5, <3>1 DEF PutDown
    <2>7. z.obj[f].at = "aside" /\ f \in Live(z)
      BY <1>1, <2>2, <2>6, ThingFacts DEF Still, Live, Places
    <2>8. \A y \in Objs \ {x} : w.obj[y].at = c => z.obj[y].at = c
      BY <1>1, <1>3, <2>6 DEF Still
    <2> QED BY <1>2, <2>1, <2>6, <2>7, <2>8 DEF Burying
  <1> QED BY <1>4, <1>5, <1>6

LEMMA AllBuried ==
  ASSUME NEW w, Orderly(w, {}), NEW f \in Live(w), w.obj[f].at = "aside", NEW to \in {f, "aside"},
         NEW c \in Chars, NEW held \in SUBSET Objs, \A x \in held : w.obj[x].at = c
  PROVE  Burying(w, BuryAll(w, held, to), f, c, held)
  <1> DEFINE base == w
             S == held
             Op(x, v) == Bury(v, x, to)
             Good(s, v) == v \in Worlds /\ Burying(w, v, f, c, s)
             Q == {a \in (SUBSET S) \X Worlds : Good(a[1], a[2])}
  <1>1. S \subseteq Objs /\ IsFiniteSet(S) /\ \A x \in S : w.obj[x].at = c
    BY ObjsFinite
  <1>2. Good({}, base)
    BY DEF Burying, Orderly
  <1>3. ASSUME NEW s \in SUBSET S, NEW x \in s, NEW v, Good(s \ {x}, v)
        PROVE  Good(s, Op(x, v))
    <2> DEFINE z == Bury(v, x, to)
               r == s \ {x}
    <2>1. x \in Objs /\ Burying(w, v, f, c, r) /\ x \notin r
      BY <1>1, <1>3
    <2> HIDE DEF r
    <2>2. /\ Orderly(v, {}) /\ f \in Live(v) /\ v.obj[f].at = "aside" /\ v.here = w.here /\ v.obj[x].at = c
          /\ \A y \in Objs \ r : w.obj[y].at = c => v.obj[y].at = c
      BY <1>1, <2>1 DEF Burying
    <2>3. Burying(v, z, f, c, {x})
      BY <2>1, <2>2, Buries
    <2> HIDE DEF z
    <2>4. Burying(w, z, f, c, s)
      <3>1. \A y \in Objs \ s : y \in Objs \ r /\ y \in Objs \ {x}
        BY DEF r
      <3> QED BY <2>2, <2>3, <3>1 DEF Burying
    <2>5. z \in Worlds
      BY <2>3 DEF Burying, Orderly
    <2> QED BY <2>4, <2>5 DEF z
  <1> DEFINE step == [a \in S \X Worlds |-> Op(a[1], a[2])]
             Eq(h) == h = [s \in SUBSET S |-> IF s = {} THEN base ELSE Op(Pick(s), h[s \ {Pick(s)}])]
             it == CHOOSE h : Eq(h)
  <1>4. BuryAll(w, held, to) = it[S]
    BY DEF FoldSet, MapThenFoldSet, Pick, BuryAll
  <1>5. \A s \in SUBSET S : \A v : <<s, v>> \in Q <=> Good(s, v)
    BY DEF Orderly
  <1>6. \A s, v : Good(s, v) => v \in Worlds
    BY DEF Orderly
  <1> HIDE DEF Good, base, S
  <1> HIDE DEF Op
  <1>7. ASSUME NEW s \in SUBSET S, s # {}, NEW v, Good(s \ {Pick(s)}, v)
        PROVE  Pick(s) \in s /\ Good(s, Op(Pick(s), v)) /\ <<Pick(s), v>> \in S \X Worlds
    <2>1. Pick(s) \in s
      BY <1>7 DEF Pick
    <2>2. Good(s, Op(Pick(s), v)) /\ v \in Worlds
      BY <1>3, <1>7, <1>6, <2>1
    <2> QED BY <2>1, <2>2
  <1>8. \A s \in SUBSET S : \A v : s # {} /\ Good(s \ {Pick(s)}, v) =>
           step[<<Pick(s), v>>] = Op(Pick(s), v)
    BY <1>7
  <1> HIDE DEF step, Q
  <1>9. \A s \in SUBSET S : \A v :
           s # {} /\ <<s \ {Pick(s)}, v>> \in Q => <<s, step[<<Pick(s), v>>]>> \in Q
    BY <1>5, <1>7, <1>8
  <1>10. <<{}, base>> \in Q
    BY <1>2, <1>5
  <1>11. PICK h : Runs(h, base, step, S) /\ \A s \in SUBSET S : <<s, h[s]>> \in Q
    <2>1. Leads(base, step, S, Q)
      BY <1>1, <1>9, <1>10 DEF Leads
    <2> QED BY <2>1, RunReaches
  <1>12. Eq(h)
    <2>1. \A s \in SUBSET S : s # {} => step[<<Pick(s), h[s \ {Pick(s)}]>>] = Op(Pick(s), h[s \ {Pick(s)}])
      BY <1>5, <1>8, <1>11
    <2> QED BY <1>11, <2>1 DEF Runs
  <1>13. Eq(it)
    BY <1>12
  <1> HIDE DEF it
  <1>14. it[{}] = base /\ \A s \in SUBSET S : s # {} => it[s] = Op(Pick(s), it[s \ {Pick(s)}])
    BY <1>13
  <1>15. \A s \in SUBSET S : <<s, it[s]>> \in Q
    <2>1. \A s \in SUBSET S : s # {} /\ <<s \ {Pick(s)}, it[s \ {Pick(s)}]>> \in Q => <<s, it[s]>> \in Q
      BY <1>5, <1>7, <1>14
    <2> QED BY <1>1, <1>10, <1>14, <2>1, StepByStep
  <1> DEFINE v == it[S]
  <1>16. Good(S, v)
    BY <1>5, <1>15
  <1>17. BuryAll(w, held, to) = v
    BY <1>4
  <1> QED BY <1>17, <1>16 DEF Good, S

LEMMA AllExtracted ==
  ASSUME NEW w, Orderly(w, {}), NEW c \in Chars, NEW held \in SUBSET Objs, \A x \in held : w.obj[x].at = c
  PROVE  Orderly(ExtractAll(w, held), {}) /\ ExtractAll(w, held).here = w.here
  <1> DEFINE base == w
             S == held
             Op(x, v) == ExtractObj(v, x)
             Good(s, v) == Orderly(v, {}) /\ v.here = w.here /\ \A y \in S \ s : v.obj[y].at = c
             Q == {a \in (SUBSET S) \X Worlds : Good(a[1], a[2])}
  <1>1. S \subseteq Objs /\ IsFiniteSet(S) /\ \A x \in S : w.obj[x].at = c
    BY ObjsFinite
  <1>2. Good({}, base)
    BY <1>1
  <1>3. ASSUME NEW s \in SUBSET S, NEW x \in s, NEW v, Good(s \ {x}, v)
        PROVE  Good(s, Op(x, v))
    <2> DEFINE z == ExtractObj(v, x)
    <2>1. x \in Objs /\ v.obj[x].at = c /\ x \in S
      BY <1>1, <1>3
    <2>2. x \in Live(v)
      BY <2>1, ThingFacts DEF Live, Places
    <2>3. Orderly(z, {}) /\ Still(v, z, Whole(v, x)) /\ z.here = v.here
      BY <1>3, <2>2, Extracts
    <2> HIDE DEF z
    <2>4. ASSUME NEW y \in S \ s PROVE z.obj[y].at = c
      <3>1. y \in Objs /\ y # x /\ v.obj[y].at = c
        BY <1>1, <1>3
      <3>2. y \notin Whole(v, x)
        <4>1. y \in Whole(v, x) => v.obj[y].at \in Objs
          BY <2>1, <3>1, WholeFacts
        <4> QED BY <3>1, <4>1, ThingFacts
      <3> QED BY <2>3, <3>1, <3>2 DEF Still
    <2> QED BY <1>3, <2>3, <2>4 DEF z
  <1> DEFINE step == [a \in S \X Worlds |-> Op(a[1], a[2])]
             Eq(h) == h = [s \in SUBSET S |-> IF s = {} THEN base ELSE Op(Pick(s), h[s \ {Pick(s)}])]
             it == CHOOSE h : Eq(h)
  <1>4. ExtractAll(w, held) = it[S]
    BY DEF FoldSet, MapThenFoldSet, Pick, ExtractAll
  <1>5. \A s \in SUBSET S : \A v : <<s, v>> \in Q <=> Good(s, v)
    BY DEF Orderly
  <1>6. \A s, v : Good(s, v) => v \in Worlds
    BY DEF Orderly
  <1> HIDE DEF Good, base, S
  <1> HIDE DEF Op
  <1>7. ASSUME NEW s \in SUBSET S, s # {}, NEW v, Good(s \ {Pick(s)}, v)
        PROVE  Pick(s) \in s /\ Good(s, Op(Pick(s), v)) /\ <<Pick(s), v>> \in S \X Worlds
    <2>1. Pick(s) \in s
      BY <1>7 DEF Pick
    <2>2. Good(s, Op(Pick(s), v)) /\ v \in Worlds
      BY <1>3, <1>7, <1>6, <2>1
    <2> QED BY <2>1, <2>2
  <1>8. \A s \in SUBSET S : \A v : s # {} /\ Good(s \ {Pick(s)}, v) =>
           step[<<Pick(s), v>>] = Op(Pick(s), v)
    BY <1>7
  <1> HIDE DEF step, Q
  <1>9. \A s \in SUBSET S : \A v :
           s # {} /\ <<s \ {Pick(s)}, v>> \in Q => <<s, step[<<Pick(s), v>>]>> \in Q
    BY <1>5, <1>7, <1>8
  <1>10. <<{}, base>> \in Q
    BY <1>2, <1>5
  <1>11. PICK h : Runs(h, base, step, S) /\ \A s \in SUBSET S : <<s, h[s]>> \in Q
    <2>1. Leads(base, step, S, Q)
      BY <1>1, <1>9, <1>10 DEF Leads
    <2> QED BY <2>1, RunReaches
  <1>12. Eq(h)
    <2>1. \A s \in SUBSET S : s # {} => step[<<Pick(s), h[s \ {Pick(s)}]>>] = Op(Pick(s), h[s \ {Pick(s)}])
      BY <1>5, <1>8, <1>11
    <2> QED BY <1>11, <2>1 DEF Runs
  <1>13. Eq(it)
    BY <1>12
  <1> HIDE DEF it
  <1>14. it[{}] = base /\ \A s \in SUBSET S : s # {} => it[s] = Op(Pick(s), it[s \ {Pick(s)}])
    BY <1>13
  <1>15. \A s \in SUBSET S : <<s, it[s]>> \in Q
    <2>1. \A s \in SUBSET S : s # {} /\ <<s \ {Pick(s)}, it[s \ {Pick(s)}]>> \in Q => <<s, it[s]>> \in Q
      BY <1>5, <1>7, <1>14
    <2> QED BY <1>1, <1>10, <1>14, <2>1, StepByStep
  <1> DEFINE v == it[S]
  <1>16. Good(S, v)
    BY <1>5, <1>15
  <1>17. ExtractAll(w, held) = v
    BY <1>4
  <1> QED BY <1>17, <1>16 DEF Good

\* Of a mob that leaves no corpse
LEMMA AllDiscarded ==
  ASSUME NEW w, Orderly(w, {}), NEW c \in Chars, NEW held \in SUBSET Objs, \A x \in held : w.obj[x].at = c
  PROVE  Orderly(DiscardAll(w, held), {}) /\ DiscardAll(w, held).here = w.here
  <1> DEFINE base == w
             S == held
             Op(x, v) == Discard(v, x)
             Good(s, v) == Orderly(v, {}) /\ v.here = w.here /\ \A y \in S \ s : v.obj[y].at = c
             Q == {a \in (SUBSET S) \X Worlds : Good(a[1], a[2])}
  <1>1. S \subseteq Objs /\ IsFiniteSet(S) /\ \A x \in S : w.obj[x].at = c
    BY ObjsFinite
  <1>2. Good({}, base)
    BY <1>1
  <1>3. ASSUME NEW s \in SUBSET S, NEW x \in s, NEW v, Good(s \ {x}, v)
        PROVE  Good(s, Op(x, v))
    <2> DEFINE z == Discard(v, x)
    <2>1. x \in Objs /\ v.obj[x].at = c /\ x \in S
      BY <1>1, <1>3
    <2>2. x \in Live(v) /\ c \notin Objs
      BY <2>1, ThingFacts DEF Live, Places
    <2>3. /\ Orderly(z, {}) /\ z.here = v.here
          /\ \A y \in Objs \ {x} : v.obj[y].at \notin Objs => z.obj[y].at = v.obj[y].at
      BY <1>3, <2>1, <2>2, Discards
    <2> HIDE DEF z
    <2>4. ASSUME NEW y \in S \ s PROVE z.obj[y].at = c
      <3>1. y \in Objs /\ y # x /\ v.obj[y].at = c
        BY <1>1, <1>3
      <3> QED BY <2>2, <2>3, <3>1
    <2> QED BY <1>3, <2>3, <2>4 DEF z
  <1> DEFINE step == [a \in S \X Worlds |-> Op(a[1], a[2])]
             Eq(h) == h = [s \in SUBSET S |-> IF s = {} THEN base ELSE Op(Pick(s), h[s \ {Pick(s)}])]
             it == CHOOSE h : Eq(h)
  <1>4. DiscardAll(w, held) = it[S]
    BY DEF FoldSet, MapThenFoldSet, Pick, DiscardAll
  <1>5. \A s \in SUBSET S : \A v : <<s, v>> \in Q <=> Good(s, v)
    BY DEF Orderly
  <1>6. \A s, v : Good(s, v) => v \in Worlds
    BY DEF Orderly
  <1> HIDE DEF Good, base, S
  <1> HIDE DEF Op
  <1>7. ASSUME NEW s \in SUBSET S, s # {}, NEW v, Good(s \ {Pick(s)}, v)
        PROVE  Pick(s) \in s /\ Good(s, Op(Pick(s), v)) /\ <<Pick(s), v>> \in S \X Worlds
    <2>1. Pick(s) \in s
      BY <1>7 DEF Pick
    <2>2. Good(s, Op(Pick(s), v)) /\ v \in Worlds
      BY <1>3, <1>7, <1>6, <2>1
    <2> QED BY <2>1, <2>2
  <1>8. \A s \in SUBSET S : \A v : s # {} /\ Good(s \ {Pick(s)}, v) =>
           step[<<Pick(s), v>>] = Op(Pick(s), v)
    BY <1>7
  <1> HIDE DEF step, Q
  <1>9. \A s \in SUBSET S : \A v :
           s # {} /\ <<s \ {Pick(s)}, v>> \in Q => <<s, step[<<Pick(s), v>>]>> \in Q
    BY <1>5, <1>7, <1>8
  <1>10. <<{}, base>> \in Q
    BY <1>2, <1>5
  <1>11. PICK h : Runs(h, base, step, S) /\ \A s \in SUBSET S : <<s, h[s]>> \in Q
    <2>1. Leads(base, step, S, Q)
      BY <1>1, <1>9, <1>10 DEF Leads
    <2> QED BY <2>1, RunReaches
  <1>12. Eq(h)
    <2>1. \A s \in SUBSET S : s # {} => step[<<Pick(s), h[s \ {Pick(s)}]>>] = Op(Pick(s), h[s \ {Pick(s)}])
      BY <1>5, <1>8, <1>11
    <2> QED BY <1>11, <2>1 DEF Runs
  <1>13. Eq(it)
    BY <1>12
  <1> HIDE DEF it
  <1>14. it[{}] = base /\ \A s \in SUBSET S : s # {} => it[s] = Op(Pick(s), it[s \ {Pick(s)}])
    BY <1>13
  <1>15. \A s \in SUBSET S : <<s, it[s]>> \in Q
    <2>1. \A s \in SUBSET S : s # {} /\ <<s \ {Pick(s)}, it[s \ {Pick(s)}]>> \in Q => <<s, it[s]>> \in Q
      BY <1>5, <1>7, <1>14
    <2> QED BY <1>1, <1>10, <1>14, <2>1, StepByStep
  <1> DEFINE v == it[S]
  <1>16. Good(S, v)
    BY <1>5, <1>15
  <1>17. DiscardAll(w, held) = v
    BY <1>4
  <1> QED BY <1>17, <1>16 DEF Good

\* Until the hands are empty
LEMMA Strips ==
  ASSUME NEW w, Orderly(w, {}), NEW c \in Chars
  PROVE  Orderly(Strip(w, c), {})
  <1> DEFINE base == w
             S == Objs
             Op(x, v) == ExtractAll(v, In(v, c))
             Good(s, v) == Orderly(v, {})
             Q == {a \in (SUBSET S) \X Worlds : Good(a[1], a[2])}
  <1>1. S \subseteq Objs /\ IsFiniteSet(S)
    BY ObjsFinite
  <1>2. Good({}, base)
    OBVIOUS
  <1>3. ASSUME NEW s \in SUBSET S, NEW x \in s, NEW v, Good(s \ {x}, v)
        PROVE  Good(s, Op(x, v))
    <2> DEFINE held == In(v, c)
    <2>1. held \in SUBSET Objs /\ \A y \in held : v.obj[y].at = c
      BY DEF In
    <2> HIDE DEF held
    <2>2. Orderly(ExtractAll(v, held), {})
      BY <1>3, <2>1, AllExtracted
    <2> QED BY <2>2 DEF held
  <1> DEFINE step == [a \in S \X Worlds |-> Op(a[1], a[2])]
             Eq(h) == h = [s \in SUBSET S |-> IF s = {} THEN base ELSE Op(Pick(s), h[s \ {Pick(s)}])]
             it == CHOOSE h : Eq(h)
  <1>4. Strip(w, c) = it[S]
    BY DEF FoldSet, MapThenFoldSet, Pick, Strip
  <1>5. \A s \in SUBSET S : \A v : <<s, v>> \in Q <=> Good(s, v)
    BY DEF Orderly
  <1>6. \A s, v : Good(s, v) => v \in Worlds
    BY DEF Orderly
  <1> HIDE DEF Good, base, S
  <1> HIDE DEF Op
  <1>7. ASSUME NEW s \in SUBSET S, s # {}, NEW v, Good(s \ {Pick(s)}, v)
        PROVE  Pick(s) \in s /\ Good(s, Op(Pick(s), v)) /\ <<Pick(s), v>> \in S \X Worlds
    <2>1. Pick(s) \in s
      BY <1>7 DEF Pick
    <2>2. Good(s, Op(Pick(s), v)) /\ v \in Worlds
      BY <1>3, <1>7, <1>6, <2>1
    <2> QED BY <2>1, <2>2
  <1>8. \A s \in SUBSET S : \A v : s # {} /\ Good(s \ {Pick(s)}, v) =>
           step[<<Pick(s), v>>] = Op(Pick(s), v)
    BY <1>7
  <1> HIDE DEF step, Q
  <1>9. \A s \in SUBSET S : \A v :
           s # {} /\ <<s \ {Pick(s)}, v>> \in Q => <<s, step[<<Pick(s), v>>]>> \in Q
    BY <1>5, <1>7, <1>8
  <1>10. <<{}, base>> \in Q
    BY <1>2, <1>5
  <1>11. PICK h : Runs(h, base, step, S) /\ \A s \in SUBSET S : <<s, h[s]>> \in Q
    <2>1. Leads(base, step, S, Q)
      BY <1>1, <1>9, <1>10 DEF Leads
    <2> QED BY <2>1, RunReaches
  <1>12. Eq(h)
    <2>1. \A s \in SUBSET S : s # {} => step[<<Pick(s), h[s \ {Pick(s)}]>>] = Op(Pick(s), h[s \ {Pick(s)}])
      BY <1>5, <1>8, <1>11
    <2> QED BY <1>11, <2>1 DEF Runs
  <1>13. Eq(it)
    BY <1>12
  <1> HIDE DEF it
  <1>14. it[{}] = base /\ \A s \in SUBSET S : s # {} => it[s] = Op(Pick(s), it[s \ {Pick(s)}])
    BY <1>13
  <1>15. \A s \in SUBSET S : <<s, it[s]>> \in Q
    <2>1. \A s \in SUBSET S : s # {} /\ <<s \ {Pick(s)}, it[s \ {Pick(s)}]>> \in Q => <<s, it[s]>> \in Q
      BY <1>5, <1>7, <1>14
    <2> QED BY <1>1, <1>10, <1>14, <2>1, StepByStep
  <1> DEFINE v == it[S]
  <1>16. Good(S, v)
    BY <1>5, <1>15
  <1>17. Strip(w, c) = v
    BY <1>4
  <1> QED BY <1>17, <1>16 DEF Good

-----------------------------------------------------------------------------
(* A stack split before a move, a thing put on, a death and scraps.         *)

LEMMA StillLives ==
  ASSUME NEW w, NEW v, LivesOn(w, v), NEW o \in Live(w)
  PROVE  o \in Live(v) /\ v.obj[o].at = w.obj[o].at /\ o \in Objs /\ Orderly(v, {}) /\ v.here = w.here
  BY DEF LivesOn, Live

LEMMA LivesOnOn ==
  ASSUME NEW w, NEW v, NEW u, LivesOn(w, v), LivesOn(v, u)
  PROVE  LivesOn(w, u)
  BY DEF LivesOn

LEMMA BoxMoves ==
  ASSUME NEW w, NEW o, NEW p, MayMove(w, o, p), NEW v, LivesOn(w, v)
  PROVE  MayMove(v, o, p) /\ v.obj[o].at = w.obj[o].at
  <1>1. v.obj[o].at = w.obj[o].at /\ Orderly(v, {}) /\ o \in Live(v)
    BY StillLives DEF MayMove
  <1>2. p \in Live(w) => p \in Live(v) /\ v.obj[p].at = w.obj[p].at
    BY StillLives
  <1> QED BY <1>1, <1>2 DEF MayMove

\* Some of a stack, from one list to another
LEMMA SplitMoves ==
  ASSUME NEW w, NEW o, NEW p, MayMove(w, o, p), NEW n \in Nat \ {0}, Clonable(w, o, n)
  PROVE  MayMove(Split(w, o, n), o, p) /\ Split(w, o, n).obj[o].at = w.obj[o].at
  <1> DEFINE v == Split(w, o, n)
  <1>1. Orderly(w, {}) /\ o \in Live(w)
    BY DEF MayMove
  <1>2. LivesOn(w, v)
    BY <1>1, SplitsOff
  <1> HIDE DEF v
  <1>3. MayMove(v, o, p) /\ v.obj[o].at = w.obj[o].at
    BY <1>2, BoxMoves
  <1> QED BY <1>3 DEF v

LEMMA PutOnOrder ==
  ASSUME NEW w, Orderly(w, {}), NEW o \in Live(w), NEW c \in Chars, NEW r \in Rooms
  PROVE  Orderly([w EXCEPT !.obj[o].worn = TRUE,
                           !.number[c] = @ - 1,
                           !.load[c] = @ - IF IsA(w, o, Forces) THEN WeightOf(w, o) ELSE 0,
                           !.light[r] = @ + IF IsA(w, o, Lamps) THEN 1 ELSE 0], {})
  <1> DEFINE a == [w.obj[o] EXCEPT !.worn = TRUE]
             m == IF IsA(w, o, Forces) THEN WeightOf(w, o) ELSE 0
             l == IF IsA(w, o, Lamps) THEN 1 ELSE 0
             u == [w EXCEPT !.obj[o].worn = TRUE]
             g == [u EXCEPT !.number[c] = @ - 1, !.load[c] = @ - m]
             v == [w EXCEPT !.obj[o].worn = TRUE, !.number[c] = @ - 1, !.load[c] = @ - m, !.light[r] = @ + l]
  <1>1. w \in Worlds /\ o \in Objs
    BY DEF Orderly, Live
  <1>2. m \in Int /\ l \in Int /\ 1 \in Int
    BY <1>1, WeightIsInt
  <1>3. a \in Thing /\ a.kind = w.obj[o].kind /\ a.count = w.obj[o].count /\ a.at = w.obj[o].at
    <2>1. w.obj[o] \in [kind : Kinds, count : Nat \ {0}, at : Spots, worn : BOOLEAN]
      BY <1>1, ThingOf
    <2> QED BY <2>1 DEF Thing
  <1>4. /\ u.obj = [w.obj EXCEPT ![o] = a] /\ u.load = w.load /\ u.number = w.number
        /\ u.light = w.light /\ u.index = w.index /\ u.here = w.here
        /\ u = [w EXCEPT !.obj = [w.obj EXCEPT ![o] = a]]
    BY <1>1, WorldFields
  <1> HIDE DEF a, m, l
  <1>5. v = [g EXCEPT !.light[r] = @ + l]
    BY <1>1, WorldFields
  <1> HIDE DEF u
  <1>6. u.obj \in [Objs -> Thing]
    BY <1>1, <1>3, <1>4, WorldFields
  <1>7. u \in Worlds
    BY <1>1, <1>4, <1>6, WorldFields DEF Worlds
  <1>8. \A y \in Objs : /\ u.obj[y].kind = w.obj[y].kind /\ u.obj[y].count = w.obj[y].count
                        /\ u.obj[y].at = w.obj[y].at
    BY <1>1, <1>3, <1>4, WorldFields
  <1>9. Orderly(u, {})
    BY <1>4, <1>7, <1>8, SameOrder
  <1>10. Reckons(u, g)
    BY <1>2, <1>7, BurdenReckoned
  <1> HIDE DEF g
  <1>11. g \in Worlds
    BY <1>10 DEF Reckons
  <1>12. Reckons(g, [g EXCEPT !.light[r] = @ + l])
    BY <1>2, <1>11, LightReckoned
  <1>13. Reckons(g, v)
    BY <1>5, <1>12
  <1> HIDE DEF v
  <1>14. Reckons(u, v)
    BY <1>10, <1>13 DEF Reckons
  <1>15. Orderly(v, {})
    BY <1>9, <1>14, ReckonedOrder
  <1> QED BY <1>15 DEF v, m, l

\* Who goes elsewhere takes his things along.
LEMMA GoesElsewhere ==
  ASSUME NEW w, Orderly(w, {}), NEW c \in Chars, NEW r \in Rooms
  PROVE  Orderly([w EXCEPT !.here[c] = r], {})
  <1> DEFINE v == [w EXCEPT !.here[c] = r]
  <1>1. w \in Worlds
    BY DEF Orderly
  <1>2. v = [w EXCEPT !.here = [w.here EXCEPT ![c] = r]]
    BY <1>1, WorldFields
  <1>3. /\ v.obj = w.obj /\ v.load = w.load /\ v.number = w.number /\ v.light = w.light /\ v.index = w.index
        /\ v.here = [w.here EXCEPT ![c] = r]
    BY <1>1, <1>2, WorldFields
  <1>4. v.here \in [Chars -> Rooms]
    BY <1>1, <1>3, WorldFields
  <1>5. v \in Worlds
    BY <1>1, <1>2, <1>3, <1>4, WorldFields DEF Worlds
  <1> QED BY <1>3, <1>5, SameOrder

\* make_corpse and extract_char, as Die has them
Dead(w, f, c, last, to, room, r) ==
    LET Before == BuryAll(Put(CreateObject(w, f, Corpse), f, "aside"), In(w, c) \ {last}, to)
        Walked(x) ==
            IF last = Null THEN x
            ELSE LET v == Bury(x, last, to)
                 IN IF In(x, c) = {last} THEN v ELSE BuryAll(v, In(v, c), to)
    IN [Strip(ObjToRoom(Walked(Before), f, room), c) EXCEPT !.here[c] = r]

LEMMA DiesOrder ==
  ASSUME NEW w, Orderly(w, {}), NEW f \in Fresh(w), NEW c \in Chars, NEW last \in In(w, c) \cup {Null},
         NEW to \in {f, "aside"}, NEW r \in Rooms, NEW room \in Rooms
  PROVE  Orderly(Dead(w, f, c, last, to, room, r), {})
  <1> DEFINE n == CreateObject(w, f, Corpse)
             v0 == Put(n, f, "aside")
             S == In(w, c) \ {last}
             v1 == BuryAll(v0, S, to)
             v2 == Bury(v1, last, to)
             v3 == IF last = Null THEN v1 ELSE IF In(v1, c) = {last} THEN v2 ELSE BuryAll(v2, In(v2, c), to)
             v4 == ObjToRoom(v3, f, room)
             v5 == Strip(v4, c)
             v6 == [v5 EXCEPT !.here[c] = r]
  <1>1. Corpse \in Kinds /\ Created(w, n, f, Corpse)
    BY ThingFacts, Creates
  <1> HIDE DEF n
  <1>2. /\ Orderly(v0, {}) /\ f \in Live(v0) /\ v0.obj[f].at = "aside" /\ f \in Objs /\ f \notin Live(w)
        /\ \A y \in Objs \ {f} : v0.obj[y].at = w.obj[y].at
    <2> DEFINE H == {f}
    <2>1. /\ Orderly(n, H) /\ f \in Objs /\ f \in Live(n) /\ f \notin Live(w)
          /\ \A y \in Objs \ {f} : n.obj[y] = w.obj[y]
      BY <1>1 DEF Created, Orderly
    <2>2. MayLie(n, f, "aside", {}, H) /\ H \ {f} = {}
      BY <2>1 DEF MayLie, Holds
    <2> HIDE DEF H
    <2>3. PutDown(n, v0, f, H) /\ v0.obj[f].at = "aside"
      BY <2>2, LaidDown
    <2> HIDE DEF v0
    <2>4. Orderly(v0, {}) /\ Still(n, v0, {f})
      BY <2>2, <2>3 DEF PutDown
    <2> QED BY <2>1, <2>3, <2>4, ThingFacts DEF Live, Still
  <1> HIDE DEF v0
  <1>3. \A x \in In(w, c) : x \in Objs /\ v0.obj[x].at = c
    BY <1>2, ThingFacts DEF In, Live, Places
  <1>4. S \in SUBSET Objs /\ (\A x \in S : v0.obj[x].at = c) /\ last \notin S
    BY <1>3
  <1>5. Burying(v0, v1, f, c, S)
    <2> HIDE DEF S
    <2> QED BY <1>2, <1>4, AllBuried
  <1> HIDE DEF v1, S
  <1>6. /\ Orderly(v1, {}) /\ f \in Live(v1) /\ v1.obj[f].at = "aside"
        /\ last # Null => last \in Objs /\ v1.obj[last].at = c
    BY <1>3, <1>4, <1>5 DEF Burying
  <1>7. last # Null => Orderly(v2, {}) /\ f \in Live(v2) /\ v2.obj[f].at = "aside"
    <2> SUFFICES ASSUME last # Null PROVE Orderly(v2, {}) /\ f \in Live(v2) /\ v2.obj[f].at = "aside"
      OBVIOUS
    <2>1. Burying(v1, v2, f, c, {last})
      BY <1>6, Buries
    <2> HIDE DEF v2
    <2> QED BY <2>1 DEF Burying
  <1> HIDE DEF v2
  <1>8. Orderly(v3, {}) /\ f \in Live(v3)
    <2>1. CASE last = Null
      BY <1>6, <2>1
    <2>2. CASE last # Null /\ In(v1, c) = {last}
      BY <1>7, <2>2
    <2>3. CASE last # Null /\ In(v1, c) # {last}
      <3> DEFINE held == In(v2, c)
                 z == BuryAll(v2, held, to)
      <3>1. held \in SUBSET Objs /\ \A x \in held : v2.obj[x].at = c
        BY DEF In
      <3> HIDE DEF held
      <3>2. Burying(v2, z, f, c, held)
        BY <1>7, <2>3, <3>1, AllBuried
      <3> HIDE DEF z
      <3>3. Orderly(z, {}) /\ f \in Live(z)
        BY <3>2 DEF Burying
      <3> QED BY <2>3, <3>3 DEF z, held
    <2> QED BY <2>1, <2>2, <2>3
  <1> HIDE DEF v3
  <1>9. Orderly(v4, {})
    <2>1. Arrived(v3, v4, f, {})
      BY <1>8, ToRoom
    <2>2. {} \ {f} = {}
      OBVIOUS
    <2> QED BY <2>1, <2>2 DEF Arrived
  <1> HIDE DEF v4
  <1>10. Orderly(v5, {})
    BY <1>9, Strips
  <1> HIDE DEF v5
  <1>11. Orderly(v6, {})
    BY <1>10, GoesElsewhere
  <1>12. Dead(w, f, c, last, to, room, r) = v6
    BY DEF Dead, n, v0, v1, v2, v3, v4, v5, v6, S
  <1> HIDE DEF v6
  <1> QED BY <1>11, <1>12

\* make_scraps and extract_obj
LEMMA ScrapsOrder ==
  ASSUME NEW w, Orderly(w, {}), NEW o \in Live(w), NEW f \in Fresh(w), NEW r, NEW box \in BOOLEAN,
         box => w.obj[o].at \in Chars \cup Rooms, w.obj[o].at \in Chars \cup Rooms => r \in Rooms
  PROVE  LET Lain == IF r \in Rooms THEN ObjToRoom(CreateObject(w, f, Scraps), f, r)
                     ELSE CreateObject(w, f, Scraps)
             Emptied == IF box THEN Spill(Lain, o, r) ELSE Lain
         IN Orderly(ExtractObj(Emptied, o), {})
  <1> DEFINE lain == IF r \in Rooms THEN ObjToRoom(CreateObject(w, f, Scraps), f, r)
                     ELSE CreateObject(w, f, Scraps)
             emptied == IF box THEN Spill(lain, o, r) ELSE lain
  <1>1. o \in Objs /\ Scraps \in Kinds
    BY ThingFacts DEF Live
  <1>2. LivesOn(w, lain)
    <2>1. CASE r \in Rooms
      <3>1. r \in Places /\ r \notin Objs
        BY <2>1, ThingFacts
      <3>2. LivesOn(w, Enter(CreateObject(w, f, Scraps), f, r))
        BY <1>1, <3>1, Makes
      <3>3. Enter(CreateObject(w, f, Scraps), f, r) = ObjToRoom(CreateObject(w, f, Scraps), f, r)
        BY <2>1, EnterIs
      <3> QED BY <2>1, <3>2, <3>3
    <2>2. CASE r \notin Rooms
      BY <1>1, <2>2, Makes
    <2> QED BY <2>1, <2>2
  <1> HIDE DEF lain
  <1>3. Orderly(lain, {}) /\ o \in Live(lain) /\ lain.obj[o].at = w.obj[o].at
    BY <1>2, StillLives
  <1>4. Orderly(emptied, {}) /\ o \in Live(emptied)
    <2>1. CASE box
      <3>1. In(lain, o) # {} => r \in Rooms
        BY <1>3, <2>1
      <3>2. Settles(lain, Spill(lain, o, r))
        BY <1>1, <1>3, <3>1, Spilt
      <3>3. emptied = Spill(lain, o, r)
        BY <2>1
      <3> HIDE DEF emptied
      <3>4. lain.obj[o].at \in Chars \cup Rooms
        BY <1>3, <2>1
      <3>5. emptied.obj[o].at \in Chars \cup Rooms
        BY <1>3, <3>2, <3>3, <3>4, ThingFacts DEF Settles, Places
      <3>6. o \in Live(emptied)
        BY <1>1, <3>5, ThingFacts DEF Live, Places
      <3> QED BY <3>2, <3>3, <3>6 DEF Settles
    <2>2. CASE ~ box
      BY <1>3, <2>2
    <2> QED BY <2>1, <2>2
  <1> HIDE DEF emptied
  <1>5. Orderly(ExtractObj(emptied, o), {})
    BY <1>4, Extracts
  <1> QED BY <1>5 DEF lain, emptied

-----------------------------------------------------------------------------
(* What a thing hangs from in the end.                                       *)

LEMMA HoldsOnly ==
  ASSUME NEW w, NEW y \in Objs, In(w, y) = {}
  PROVE  Whole(w, y) = {y}
  <1>1. y \in {y} /\ (\A z \in Objs : w.obj[z].at \in {y} => z \in {y})
    BY DEF In
  <1> DEFINE C == {y}
  <1>2. C \in SUBSET Objs /\ y \in C /\ (\A z \in Objs : w.obj[z].at \in C => z \in C)
    BY <1>1
  <1> HIDE DEF C
  <1>3. Whole(w, y) \subseteq C /\ y \in Whole(w, y)
    BY <1>2, WholeFacts
  <1> QED BY <1>3 DEF C

LEMMA HasTop ==
  ASSUME NEW w, Rooted(w), NEW o \in Objs
  PROVE  \E y \in Objs : o \in Whole(w, y) /\ w.obj[y].at \notin Objs
  <1> DEFINE C == {y \in Objs : o \in Whole(w, y)}
  <1>1. o \in C
    BY WholeFacts
  <1>2. ASSUME NEW y \in C, w.obj[y].at \in Objs PROVE w.obj[y].at \in C
    <2> DEFINE p == w.obj[y].at
    <2>1. y \in Whole(w, p) /\ Whole(w, p) \in SUBSET Objs
          /\ \A z \in Objs : w.obj[z].at \in Whole(w, p) => z \in Whole(w, p)
      BY <1>2, WholeFacts
    <2> HIDE DEF p
    <2>2. Whole(w, y) \subseteq Whole(w, p)
      BY <2>1, WholeFacts
    <2> QED BY <1>2, <2>2 DEF p
  <1>3. C \in SUBSET Objs /\ C # {}
    BY <1>1
  <1>4. PICK y \in C : w.obj[y].at \notin C
    <2> HIDE DEF C
    <2> QED BY <1>3 DEF Rooted
  <1> QED BY <1>2, <1>4

LEMMA TopHangs ==
  ASSUME NEW w, Orderly(w, {}), NEW o \in Live(w),
         NEW y \in Objs, o \in Whole(w, y), w.obj[y].at \notin Objs
  PROVE  \/ w.obj[y].at \in Chars \cup Rooms \cup {"aside"}
         \/ w.obj[o].at = Null /\ w.obj[o].kind = Scraps
  <1>1. In(w, y) = {} => o = y
    BY HoldsOnly
  <1>2. Hung(w, y) /\ \A x \in Objs : Hung(w, x)
    BY DEF Orderly
  <1>3. w.obj[y].at \notin {"queue", "free"}
    <2>1. SUFFICES ASSUME w.obj[y].at \in {"queue", "free"} PROVE FALSE
      OBVIOUS
    <2>2. y \notin Live(w)
      BY <2>1 DEF Live
    <2>3. In(w, y) = {}
      BY <1>2, <2>2, ThingFacts DEF Hung, In, Places
    <2> QED BY <1>1, <2>2, <2>3
  <1> QED BY <1>1, <1>2, <1>3 DEF Hung, Live

-----------------------------------------------------------------------------
(* The invariant.                                                            *)

\* What is checked of the state is what is proved: everything hangs from
\* something that is there, nothing is in itself, and the counts are true.
ThingsIInv == Orderly(World, {})

LEMMA WorldIs ==
    /\ World.obj = obj /\ World.load = load /\ World.number = number
    /\ World.light = light /\ World.index = index /\ World.here = here
  BY DEF World

LEMMA InOrder ==
  ASSUME NEW x, Orderly(x, {}), Becomes(x)
  PROVE  ThingsIInv'
  <1>1. World' = x
    <2>1. x \in Worlds
      BY DEF Orderly
    <2> QED BY <2>1, WorldFields DEF World, Becomes
  <1>2. Orderly(World', {})
    BY <1>1
  <1> QED BY <1>2 DEF ThingsIInv

\* Safety: no thing that lives is out of reach, and each kind counts its pieces.
LEMMA OrderSuffices ==
  ASSUME ThingsIInv
  PROVE  NothingLost
  <1>1. Orderly(World, {})
    BY DEF ThingsIInv
  <1>2. IndexTrue
    BY <1>1, WorldIs DEF Orderly, Counted, Pieces, IndexTrue
  <1>3. ASSUME NEW o \in Live(World)
        PROVE  RootOf(World, o) \in Chars \cup Rooms \cup {"aside"} \/ (obj[o].at = Null /\ obj[o].kind = Scraps)
    <2> DEFINE top == CHOOSE y \in Objs : o \in Whole(World, y) /\ World.obj[y].at \notin Objs
    <2>1. o \in Objs /\ Rooted(World)
      BY <1>1 DEF Live, Orderly
    <2>2. top \in Objs /\ o \in Whole(World, top) /\ World.obj[top].at \notin Objs
      BY <2>1, HasTop
    <2>3. RootOf(World, o) = World.obj[top].at
      BY DEF RootOf
    <2> HIDE DEF top
    <2>4. \/ World.obj[top].at \in Chars \cup Rooms \cup {"aside"}
          \/ World.obj[o].at = Null /\ World.obj[o].kind = Scraps
      BY <1>1, <2>2, TopHangs
    <2> QED BY <2>3, <2>4, WorldIs
  <1>4. NothingAdrift
    BY <1>3 DEF NothingAdrift
  <1> QED BY <1>2, <1>4 DEF NothingLost

LEMMA InitOrder ==
  ASSUME ThingsInit
  PROVE  ThingsIInv
  <1>1. \A o \in Objs : World.obj[o] = Clear
    BY WorldIs DEF ThingsInit
  <1>2. World \in Worlds
    <2>1. obj \in [Objs -> Thing]
      BY DEF ThingsInit, Thing
    <2>2. /\ load \in [Chars -> Int] /\ number \in [Chars -> Int] /\ light \in [Rooms -> Int]
          /\ index \in [Kinds -> Int] /\ here \in [Chars -> Rooms]
      BY DEF ThingsInit
    <2> QED BY <2>1, <2>2 DEF World, Worlds
  <1>3. \A o \in Objs : Hung(World, o)
    BY <1>1 DEF Hung, Clear
  <1>4. Rooted(World)
    BY <1>1, ThingFacts DEF Rooted, Clear, Places
  <1>5. Counted(World)
    <2>1. ASSUME NEW k \in Kinds PROVE SumFunction(Pieces(World, k)) = 0
      <3> DEFINE f == Pieces(World, k)
      <3>1. f \in [Objs -> Int] /\ \A o \in Objs : f[o] = 0
        BY <1>1 DEF Pieces, Clear
      <3> HIDE DEF f
      <3>2. SumFunction(f) = 0 * Cardinality(Objs)
        BY <3>1, SumEqual, ThingFacts
      <3>3. Cardinality(Objs) \in Nat
        BY ThingFacts, FS_CardinalityType
      <3> QED BY <3>2, <3>3 DEF f
    <2> QED BY <2>1, WorldIs DEF Counted, ThingsInit
  <1> QED BY <1>2, <1>3, <1>4, <1>5 DEF Orderly, ThingsIInv

-----------------------------------------------------------------------------
(* Each action keeps the order.                                              *)

\* What is in a room, in a hand or in another thing is there.
LEMMA Present ==
  ASSUME ThingsIInv
  PROVE  /\ Orderly(World, {}) /\ MaxPieces \in Nat
         /\ \A c \in Chars : here[c] \in Rooms /\ Hand(c) \subseteq In(World, c)
         /\ \A o \in Objs : obj[o].at \in Places => o \in Live(World)
         /\ \A p \in Places : \A o \in In(World, p) : o \in Objs /\ o \in Live(World) /\ World.obj[o].at = p
         /\ \A c \in Chars : \A o \in Reach(c) : o \in Live(World) /\ World.obj[o].at \in Chars \cup Rooms
  <1>1. Orderly(World, {}) /\ World \in Worlds /\ MaxPieces \in Nat
    BY ObjectsAssumption DEF ThingsIInv, Orderly
  <1>2. \A c \in Chars : here[c] \in Rooms /\ Hand(c) \subseteq In(World, c)
    BY <1>1, WorldIs, WorldFields DEF Hand
  <1>3. \A o \in Objs : obj[o].at \in Places => o \in Live(World)
    BY WorldIs, ThingFacts DEF Live
  <1>4. \A p \in Places : \A o \in In(World, p) : o \in Objs /\ o \in Live(World) /\ World.obj[o].at = p
    BY ThingFacts DEF Live, In
  <1> QED BY <1>1, <1>2, <1>3, <1>4, ThingFacts DEF Reach

\* A number of pieces is taken off a stack; a single one likewise.
LEMMA Pieced ==
  ASSUME ThingsIInv, NEW o \in Live(World), Clonable(World, o, 1)
  PROVE  LivesOn(World, Separate(World, o))
  <1>1. 1 \in Nat \ {0}
    OBVIOUS
  <1> QED BY <1>1, Present, SplitsOff DEF Separate

LEMMA MakeKeeps ==
  ASSUME ThingsIInv, NEW k \in Kinds, Make(k)
  PROVE  ThingsIInv'
  <1> DEFINE f == New(World)
  <1>1. PICK p \in Places : /\ p \in Objs => obj[p].at \in Rooms \cup Chars
                            /\ Becomes(Enter(CreateObject(World, f, k), f, p))
    BY DEF Make
  <1>2. f \in Fresh(World)
    BY DEF Make, New
  <1> HIDE DEF f
  <1>3. LivesOn(World, Enter(CreateObject(World, f, k), f, p))
    BY <1>1, <1>2, Present, Makes, WorldIs
  <1> QED BY <1>1, <1>3, InOrder DEF LivesOn

LEMMA GetKeeps ==
  ASSUME ThingsIInv, NEW c \in Chars, NEW o \in Objs, NEW n \in 1 .. MaxPieces, Get(c, o, n)
  PROVE  ThingsIInv'
  <1> DEFINE w == Split(World, o, n)
  <1>1. /\ o \in In(World, here[c]) /\ Clonable(World, o, n)
        /\ Becomes(ObjToChar(ObjFromRoom(w, o), o, c))
    BY DEF Get
  <1>2. o \in Live(World) /\ World.obj[o].at \in Rooms /\ n \in Nat \ {0}
    BY <1>1, Present, ThingFacts
  <1>3. MayMove(w, o, c) /\ w.obj[o].at \in Rooms
    <2>1. MayMove(World, o, c)
      BY <1>2, Present DEF MayMove
    <2> QED BY <1>1, <1>2, <2>1, SplitMoves
  <1> HIDE DEF w
  <1> QED BY <1>1, <1>3, Moves, InOrder

LEMMA GetFromKeeps ==
  ASSUME ThingsIInv, NEW c \in Chars, NEW o \in Objs, NEW b \in Objs, NEW n \in 1 .. MaxPieces,
         GetFrom(c, o, b, n)
  PROVE  ThingsIInv'
  <1> DEFINE w == Split(World, o, n)
  <1>1. /\ o \in In(World, b) /\ Clonable(World, o, n)
        /\ Becomes(ObjToChar(ObjFromObj(w, o), o, c))
    BY DEF GetFrom
  <1>2. o \in Live(World) /\ World.obj[o].at \in Objs /\ n \in Nat \ {0}
    BY <1>1, Present, ThingFacts
  <1>3. MayMove(w, o, c) /\ w.obj[o].at \in Objs
    <2>1. MayMove(World, o, c)
      BY <1>2, Present DEF MayMove
    <2> QED BY <1>1, <1>2, <2>1, SplitMoves
  <1> HIDE DEF w
  <1> QED BY <1>1, <1>3, Moves, InOrder

LEMMA PutInKeeps ==
  ASSUME ThingsIInv, NEW c \in Chars, NEW o \in Objs, NEW b \in Objs, PutIn(c, o, b)
  PROVE  ThingsIInv'
  <1> DEFINE u == Separate(World, o)
             w == Separate(u, b)
  <1>1. /\ o \in Hand(c) /\ b \in Reach(c) \ {o} /\ Clonable(World, o, 1) /\ Clonable(u, b, 1)
        /\ Becomes(ObjToObj(ObjFromChar(w, o), o, b))
    BY DEF PutIn
  <1>2. /\ o \in Live(World) /\ World.obj[o].at \in Chars /\ 1 \in Nat \ {0}
        /\ b \in Live(World) /\ World.obj[b].at \in Chars \cup Rooms
    BY <1>1, Present, ThingFacts
  <1>3. LivesOn(World, u)
    BY <1>1, <1>2, Pieced
  <1> HIDE DEF u
  <1>4. LivesOn(u, w)
    BY <1>1, <1>2, <1>3, StillLives, SplitsOff DEF Separate
  <1> HIDE DEF w
  <1>5. MayMove(w, o, b) /\ w.obj[o].at \in Chars
    <2>1. MayMove(World, o, b)
      BY <1>1, <1>2, Present DEF MayMove
    <2> QED BY <1>2, <1>3, <1>4, <2>1, LivesOnOn, BoxMoves
  <1> QED BY <1>1, <1>5, Moves, InOrder

LEMMA PutPiecesKeeps ==
  ASSUME ThingsIInv, NEW c \in Chars, NEW o \in Objs, NEW b \in Objs, NEW n \in 1 .. MaxPieces,
         PutPieces(c, o, b, n)
  PROVE  ThingsIInv'
  <1> DEFINE w == Separate(World, b)
             v == Split(w, o, n)
  <1>1. /\ o \in Hand(c) /\ b \in Reach(c) \ {o} /\ Clonable(World, b, 1) /\ Clonable(w, o, n)
        /\ Becomes(ObjToObj(ObjFromChar(v, o), o, b))
    BY DEF PutPieces
  <1>2. /\ o \in Live(World) /\ World.obj[o].at \in Chars /\ n \in Nat \ {0}
        /\ b \in Live(World) /\ World.obj[b].at \in Chars \cup Rooms
    BY <1>1, Present, ThingFacts
  <1>3. LivesOn(World, w)
    BY <1>1, <1>2, Pieced
  <1> HIDE DEF w
  <1>4. LivesOn(w, v)
    BY <1>1, <1>2, <1>3, StillLives, SplitsOff
  <1> HIDE DEF v
  <1>5. MayMove(v, o, b) /\ v.obj[o].at \in Chars
    <2>1. MayMove(World, o, b)
      BY <1>1, <1>2, Present DEF MayMove
    <2> QED BY <1>2, <1>3, <1>4, <2>1, LivesOnOn, BoxMoves
  <1> QED BY <1>1, <1>5, Moves, InOrder

LEMMA DropKeeps ==
  ASSUME ThingsIInv, NEW c \in Chars, NEW o \in Objs, NEW n \in 1 .. MaxPieces, Drop(c, o, n)
  PROVE  ThingsIInv'
  <1> DEFINE w == Split(World, o, n)
             r == here[c]
  <1>1. /\ o \in Hand(c) /\ Clonable(World, o, n)
        /\ Becomes(ObjToRoom(ObjFromChar(w, o), o, r))
    BY DEF Drop
  <1>2. o \in Live(World) /\ World.obj[o].at \in Chars /\ n \in Nat \ {0} /\ r \in Rooms
    BY <1>1, Present, ThingFacts
  <1> HIDE DEF r
  <1>3. MayMove(w, o, r) /\ w.obj[o].at \in Chars
    <2>1. MayMove(World, o, r)
      BY <1>2, Present DEF MayMove
    <2> QED BY <1>1, <1>2, <2>1, SplitMoves
  <1> HIDE DEF w
  <1> QED BY <1>1, <1>2, <1>3, Moves, InOrder

LEMMA GiveKeeps ==
  ASSUME ThingsIInv, NEW c \in Chars, NEW o \in Objs, NEW v \in Chars, Give(c, o, v)
  PROVE  ThingsIInv'
  <1> DEFINE w == Separate(World, o)
  <1>1. /\ o \in Hand(c) /\ Clonable(World, o, 1)
        /\ Becomes(ObjToChar(ObjFromChar(w, o), o, v))
    BY DEF Give
  <1>2. o \in Live(World) /\ World.obj[o].at \in Chars /\ 1 \in Nat \ {0}
    BY <1>1, Present, ThingFacts
  <1>3. MayMove(w, o, v) /\ w.obj[o].at \in Chars
    <2>1. MayMove(World, o, v)
      BY <1>2, Present DEF MayMove
    <2> QED BY <1>1, <1>2, <2>1, SplitMoves DEF Separate
  <1> HIDE DEF w
  <1> QED BY <1>1, <1>3, Moves, InOrder

LEMMA FillKeeps ==
  ASSUME ThingsIInv, NEW c \in Chars, NEW o \in Objs, NEW b \in Objs, Fill(c, o, b)
  PROVE  ThingsIInv'
  <1> DEFINE w == Separate(World, b)
  <1>1. /\ o \in In(World, here[c]) /\ b \in Hand(c) /\ Clonable(World, b, 1)
        /\ Becomes(ObjToObj(ObjFromRoom(w, o), o, b))
    BY DEF Fill
  <1>2. /\ o \in Live(World) /\ World.obj[o].at \in Rooms
        /\ b \in Live(World) /\ World.obj[b].at \in Chars /\ b # o
    BY <1>1, Present, ThingFacts
  <1>3. LivesOn(World, w)
    BY <1>1, <1>2, Pieced
  <1> HIDE DEF w
  <1>4. MayMove(w, o, b) /\ w.obj[o].at \in Rooms
    <2>1. MayMove(World, o, b)
      BY <1>2, Present DEF MayMove
    <2> QED BY <1>2, <1>3, <2>1, BoxMoves
  <1> QED BY <1>1, <1>4, Moves, InOrder

LEMMA FillFromKeeps ==
  ASSUME ThingsIInv, NEW c \in Chars, NEW s \in Objs, NEW b \in Objs, FillFrom(c, s, b)
  PROVE  ThingsIInv'
  <1> DEFINE w == Separate(World, b)
             S == In(World, s)
  <1>1. b \in Hand(c) /\ Clonable(World, b, 1) /\ Becomes(FillUp(w, c, s, b, S))
    BY DEF FillFrom
  <1>2. b \in Live(World) /\ World.obj[b].at \in Chars \cup Rooms
    BY <1>1, Present, ThingFacts
  <1>3. LivesOn(World, w)
    BY <1>1, <1>2, Pieced
  <1> HIDE DEF w
  <1>4. S \in SUBSET Objs /\ \A x \in S : w.obj[x].at = s
    BY <1>3, Present, StillLives, ThingFacts
  <1> HIDE DEF S
  <1>5. Settles(w, FillUp(w, c, s, b, S))
    BY <1>2, <1>3, <1>4, StillLives, FilledUp
  <1> QED BY <1>1, <1>5, InOrder DEF Settles

LEMMA EmptyKeeps ==
  ASSUME ThingsIInv, NEW c \in Chars, NEW b \in Objs, Empty(c, b)
  PROVE  ThingsIInv'
  <1> DEFINE w == Separate(World, b)
             r == here[c]
  <1>1. /\ b \in Hand(c) /\ Clonable(World, b, 1)
        /\ \/ Becomes(Spill(w, b, r))
           \/ \E d \in Reach(c) \ {b} : Clonable(w, d, 1) /\ Becomes(Pour(Separate(w, d), b, d))
    BY DEF Empty
  <1>2. b \in Live(World) /\ r \in Rooms
    BY <1>1, Present, ThingFacts
  <1>3. LivesOn(World, w)
    BY <1>1, <1>2, Pieced
  <1> HIDE DEF w, r
  <1>4. CASE Becomes(Spill(w, b, r))
    <2>1. Settles(w, Spill(w, b, r))
      BY <1>2, <1>3, StillLives, Spilt
    <2> QED BY <1>4, <2>1, InOrder DEF Settles
  <1>5. ASSUME NEW d \in Reach(c) \ {b}, Clonable(w, d, 1), Becomes(Pour(Separate(w, d), b, d))
        PROVE  ThingsIInv'
    <2> DEFINE u == Separate(w, d)
    <2>1. d \in Live(w) /\ w.obj[d].at \in Chars \cup Rooms /\ Orderly(w, {}) /\ 1 \in Nat \ {0}
      BY <1>3, <1>5, Present, StillLives
    <2>2. LivesOn(w, u)
      BY <1>5, <2>1, SplitsOff DEF Separate
    <2> HIDE DEF u
    <2>3. Settles(u, Pour(u, b, d))
      BY <2>1, <2>2, StillLives, PouredOut
    <2> QED BY <1>5, <2>3, InOrder DEF Settles, u
  <1> QED BY <1>1, <1>4, <1>5

LEMMA WearKeeps ==
  ASSUME ThingsIInv, NEW c \in Chars, NEW o \in Objs, Wear(c, o)
  PROVE  ThingsIInv'
  <1> DEFINE w == Separate(World, o)
             S == Worn(c, obj[o].kind)
             free == TakeOff(w, S)
             r == here[c]
             on == [free EXCEPT
                !.obj[o].worn = TRUE,
                !.number[c] = @ - 1,
                !.load[c] = @ - IF IsA(free, o, Forces) THEN WeightOf(free, o) ELSE 0,
                !.light[r] = @ + IF IsA(free, o, Lamps) THEN 1 ELSE 0]
  <1>1. /\ o \in Hand(c) /\ Clonable(World, o, 1)
        /\ Becomes(ObjToRoom(ObjFromChar(free, o), o, r)) \/ Becomes(on)
    BY DEF Wear
  <1>2. o \in Live(World) /\ World.obj[o].at \in Chars /\ r \in Rooms
    BY <1>1, Present, ThingFacts
  <1>3. LivesOn(World, w)
    BY <1>1, <1>2, Pieced
  <1> HIDE DEF w
  <1>4. S \in SUBSET Objs /\ \A x \in S : w.obj[x].at = c
    <2>1. S \subseteq In(World, c) /\ c \in Places
      BY ThingFacts DEF Worn
    <2> HIDE DEF S
    <2> QED BY <1>3, <2>1, Present, StillLives
  <1> HIDE DEF S
  <1>5. LivesOn(w, free)
    BY <1>2, <1>3, <1>4, StillLives, TakesOff
  <1> HIDE DEF free, r
  <1>6. o \in Live(free) /\ free.obj[o].at \in Chars /\ Orderly(free, {})
    BY <1>2, <1>3, <1>5, StillLives, LivesOnOn
  <1>7. CASE Becomes(ObjToRoom(ObjFromChar(free, o), o, r))
    <2>1. MayMove(free, o, r)
      BY <1>2, <1>6 DEF MayMove
    <2> QED BY <1>2, <1>6, <1>7, <2>1, Moves, InOrder
  <1>8. CASE Becomes(on)
    <2>1. Orderly(on, {})
      BY <1>2, <1>6, PutOnOrder
    <2> HIDE DEF on
    <2> QED BY <1>8, <2>1, InOrder
  <1> QED BY <1>1, <1>7, <1>8

LEMMA RemoveKeeps ==
  ASSUME ThingsIInv, NEW c \in Chars, NEW o \in Objs, Remove(c, o)
  PROVE  ThingsIInv'
  <1>1. o \in In(World, c) /\ Becomes(UnequipChar(World, o))
    BY DEF Remove
  <1>2. o \in Live(World) /\ World.obj[o].at \in Chars /\ Orderly(World, {})
    BY <1>1, Present, ThingFacts
  <1>3. Orderly(UnequipChar(World, o), {})
    BY <1>2, TakenOff
  <1> QED BY <1>1, <1>3, InOrder

LEMMA SacrificeKeeps ==
  ASSUME ThingsIInv, NEW c \in Chars, NEW o \in Objs, Sacrifice(c, o)
  PROVE  ThingsIInv'
  <1> DEFINE w == Separate(World, o)
  <1>1. o \in In(World, here[c]) /\ Clonable(World, o, 1) /\ Becomes(ExtractObj(w, o))
    BY DEF Sacrifice
  <1>2. o \in Live(World)
    BY <1>1, Present, ThingFacts
  <1>3. LivesOn(World, w)
    BY <1>1, <1>2, Pieced
  <1> HIDE DEF w
  <1>4. Orderly(ExtractObj(w, o), {})
    BY <1>2, <1>3, StillLives, Extracts
  <1> QED BY <1>1, <1>4, InOrder

LEMMA WalkKeeps ==
  ASSUME ThingsIInv, NEW c \in Chars, NEW r \in Rooms, Walk(c, r)
  PROVE  ThingsIInv'
  <1> DEFINE from == World.here[c]
             less == IF Lit(c) /\ World.light[from] > 0 THEN 1 ELSE 0
             more == IF Lit(c) THEN 1 ELSE 0
             u == [World EXCEPT !.here[c] = r]
             v == [u EXCEPT !.light[from] = @ - less]
             x == [v EXCEPT !.light[r] = @ + more]
  <1>1. World \in Worlds /\ Orderly(World, {}) /\ from \in Rooms
    BY Present, WorldFields DEF Orderly
  <1>2. less \in Int /\ more \in Int
    OBVIOUS
  <1>3. WalkTo(World, c, r) = x
    <2>1. [World EXCEPT !.here[c] = r, !.light[from] = @ - IF Lit(c) /\ @ > 0 THEN 1 ELSE 0] = v
      BY <1>1, WorldFields
    <2> QED BY <2>1 DEF WalkTo
  <1> HIDE DEF from, less, more
  <1>4. Orderly(u, {})
    BY <1>1, GoesElsewhere
  <1> HIDE DEF u
  <1>5. Reckons(u, v)
    BY <1>1, <1>2, <1>4, LightReckoned DEF Orderly
  <1>6. Orderly(v, {})
    BY <1>4, <1>5, ReckonedOrder
  <1> HIDE DEF v
  <1>7. Reckons(v, x)
    BY <1>2, <1>6, LightReckoned DEF Orderly
  <1>8. Orderly(x, {})
    BY <1>6, <1>7, ReckonedOrder
  <1> HIDE DEF x
  <1> QED BY <1>3, <1>8, InOrder DEF Walk

LEMMA DieKeeps ==
  ASSUME ThingsIInv, NEW c \in Chars, NEW r \in Rooms, Die(c, r)
  PROVE  ThingsIInv'
  <1> DEFINE f == New(World)
             room == here[c]
  <1>1. PICK last \in In(World, c) \cup {Null}, to \in {f, "aside"} :
            Becomes(Dead(World, f, c, last, to, room, r))
    BY DEF Die, Dead
  <1>2. f \in Fresh(World) /\ room \in Rooms /\ Orderly(World, {})
    BY Present DEF Die, New
  <1> HIDE DEF f, room
  <1>3. Orderly(Dead(World, f, c, last, to, room, r), {})
    BY <1>2, DiesOrder
  <1> QED BY <1>1, <1>3, InOrder

LEMMA VanishKeeps ==
  ASSUME ThingsIInv, NEW c \in Chars, NEW r \in Rooms, Vanish(c, r)
  PROVE  ThingsIInv'
  <1> DEFINE held == In(World, c)
             v == DiscardAll(World, held)
             z == Strip(v, c)
             x == [z EXCEPT !.here[c] = r]
  <1>1. Becomes(x)
    BY DEF Vanish
  <1>2. Orderly(World, {}) /\ held \in SUBSET Objs /\ \A y \in held : World.obj[y].at = c
    BY Present DEF In
  <1> HIDE DEF held
  <1>3. Orderly(v, {})
    BY <1>2, AllDiscarded
  <1> HIDE DEF v
  <1>4. Orderly(z, {})
    BY <1>3, Strips
  <1> HIDE DEF z
  <1>5. Orderly(x, {})
    BY <1>4, GoesElsewhere
  <1> QED BY <1>1, <1>5, InOrder

LEMMA DecayKeeps ==
  ASSUME ThingsIInv, NEW o \in Objs, Decay(o)
  PROVE  ThingsIInv'
  <1>1. o \in Live(World) /\ Becomes(ExtractObj(World, o))
    BY DEF Decay
  <1>2. Orderly(ExtractObj(World, o), {})
    BY <1>1, Present, Extracts
  <1> QED BY <1>1, <1>2, InOrder

LEMMA BurnOutKeeps ==
  ASSUME ThingsIInv, NEW c \in Chars, NEW o \in Objs, BurnOut(c, o)
  PROVE  ThingsIInv'
  <1> DEFINE w == ExtractObj(World, o)
             r == here[c]
             n == light[r] - 1
             x == [w EXCEPT !.light[r] = n]
  <1>1. o \in In(World, c) /\ Becomes(x)
    BY DEF BurnOut
  <1>2. o \in Live(World) /\ r \in Rooms /\ n \in Int
    <2>1. World \in Worlds /\ o \in Live(World) /\ r \in Rooms
      BY <1>1, Present, ThingFacts DEF Orderly
    <2>2. light[r] \in Int
      BY <2>1, WorldFields, WorldIs
    <2> QED BY <2>1, <2>2
  <1>3. Orderly(w, {})
    BY <1>2, Present, Extracts
  <1> HIDE DEF w, r, n
  <1>4. Reckons(w, x)
    BY <1>2, <1>3, LightReckoned DEF Orderly
  <1> HIDE DEF x
  <1>5. Orderly(x, {})
    BY <1>3, <1>4, ReckonedOrder
  <1> QED BY <1>1, <1>5, InOrder

LEMMA ScrapKeeps ==
  ASSUME ThingsIInv, NEW o \in Objs, Scrap(o)
  PROVE  ThingsIInv'
  <1> DEFINE r == IF obj[o].at \in Chars THEN here[obj[o].at] ELSE obj[o].at
             box == obj[o].kind \in Containers
             w == Separate(World, o)
             f == New(w)
             lain == IF r \in Rooms THEN ObjToRoom(CreateObject(w, f, Scraps), f, r)
                     ELSE CreateObject(w, f, Scraps)
             emptied == IF box THEN Spill(lain, o, r) ELSE lain
             x == ExtractObj(emptied, o)
  <1>1. /\ o \in Live(World) /\ Clonable(World, o, 1) /\ Fresh(w) # {}
        /\ box => obj[o].at \in Chars \cup Rooms
        /\ Becomes(x)
    BY DEF Scrap
  <1>2. LivesOn(World, w)
    BY <1>1, Pieced
  <1>3. f \in Fresh(w)
    BY <1>1 DEF New
  <1> HIDE DEF w, f
  <1>4. /\ box \in BOOLEAN
        /\ o \in Live(w) /\ Orderly(w, {}) /\ w.obj[o].at = obj[o].at
        /\ w.obj[o].at \in Chars \cup Rooms => r \in Rooms
    BY <1>1, <1>2, Present, StillLives, WorldIs
  <1>5. box => w.obj[o].at \in Chars \cup Rooms
    BY <1>1, <1>4
  <1> HIDE DEF r, box
  <1>6. Orderly(x, {})
    BY <1>3, <1>4, <1>5, ScrapsOrder
  <1> HIDE DEF x
  <1> QED BY <1>1, <1>6, InOrder

\* What waited to be freed was in no list, and nothing was in it.
LEMMA CleanQueueKeeps ==
  ASSUME ThingsIInv, CleanQueue
  PROVE  ThingsIInv'
  <1> DEFINE o2 == [o \in Objs |-> IF obj[o] = Extracted THEN Clear ELSE obj[o]]
             x == [World EXCEPT !.obj = o2]
  <1>1. Orderly(World, {}) /\ World \in Worlds
    BY Present DEF Orderly
  <1>2. /\ x.obj = o2 /\ x.load = World.load /\ x.number = World.number /\ x.light = World.light
        /\ x.index = World.index /\ x.here = World.here
        /\ x = [obj |-> o2, load |-> World.load, number |-> World.number, light |-> World.light,
                index |-> World.index, here |-> World.here]
    BY <1>1, WorldFields
  <1>3. Becomes(x)
    BY <1>2, WorldIs DEF Becomes, CleanQueue
  <1>4. \A o \in Objs : /\ o2[o] \in Thing
                        /\ o2[o].kind = World.obj[o].kind /\ o2[o].count = World.obj[o].count
                        /\ o2[o].at = World.obj[o].at \/ (o2[o].at = "free" /\ World.obj[o].at = "queue")
    BY <1>1, ThingOf, WorldIs DEF Clear, Extracted, Thing
  <1> HIDE DEF o2
  <1>5. x \in Worlds
    <2>1. o2 \in [Objs -> Thing]
      BY <1>4 DEF o2
    <2> QED BY <1>1, <1>2, <2>1, WorldFields DEF Worlds
  <1> HIDE DEF x
  <1>6. /\ Live(x) = Live(World) /\ \A p \in Objs : In(x, p) = In(World, p)
        /\ \A o \in Live(World) : x.obj[o].at = World.obj[o].at
    BY <1>2, <1>4, ThingFacts DEF Live, In, Places
  <1>7. \A o \in Objs : Hung(x, o)
    <2>1. \A o \in Objs : Hung(World, o)
      BY <1>1 DEF Orderly
    <2> QED BY <1>2, <1>4, <1>6, <2>1 DEF Hung
  <1>8. Rooted(x)
    <2>1. ASSUME NEW C \in SUBSET Objs, \A d \in C : x.obj[d].at \in C PROVE \A d \in C : World.obj[d].at \in C
      BY <1>2, <1>4, <2>1, ThingFacts DEF Places
    <2> QED BY <1>1, <2>1 DEF Rooted, Orderly
  <1>9. Counted(x)
    BY <1>1, <1>2, <1>4, SameCounted DEF Orderly
  <1>10. Orderly(x, {})
    BY <1>5, <1>7, <1>8, <1>9 DEF Orderly
  <1> QED BY <1>3, <1>10, InOrder

LEMMA NextOrder ==
  ASSUME ThingsIInv, [ThingsNext]_thingVars
  PROVE  ThingsIInv'
  <1>1. CASE UNCHANGED thingVars
    <2>1. World' = World
      BY <1>1 DEF thingVars, World
    <2> QED BY <2>1 DEF ThingsIInv
  <1>2. CASE \E k \in Kinds \ {Corpse, Scraps} : Make(k)
    BY <1>2, MakeKeeps
  <1>3. ASSUME NEW c \in Chars, NEW o \in Objs, NEW n \in 1 .. MaxPieces, Get(c, o, n) \/ Drop(c, o, n)
        PROVE  ThingsIInv'
    BY <1>3, GetKeeps, DropKeeps
  <1>4. ASSUME NEW c \in Chars, NEW o \in Objs, NEW b \in Objs, NEW n \in 1 .. MaxPieces,
               GetFrom(c, o, b, n) \/ PutPieces(c, o, b, n)
        PROVE  ThingsIInv'
    BY <1>4, GetFromKeeps, PutPiecesKeeps
  <1>5. ASSUME NEW c \in Chars, NEW o \in Objs, NEW b \in Objs,
               PutIn(c, o, b) \/ Fill(c, o, b) \/ FillFrom(c, o, b)
        PROVE  ThingsIInv'
    BY <1>5, PutInKeeps, FillKeeps, FillFromKeeps
  <1>6. ASSUME NEW c \in Chars, NEW o \in Objs, NEW v \in Chars, Give(c, o, v)
        PROVE  ThingsIInv'
    BY <1>6, GiveKeeps
  <1>7. ASSUME NEW c \in Chars, NEW o \in Objs,
               Empty(c, o) \/ Wear(c, o) \/ Remove(c, o) \/ Sacrifice(c, o) \/ BurnOut(c, o)
        PROVE  ThingsIInv'
    BY <1>7, EmptyKeeps, WearKeeps, RemoveKeeps, SacrificeKeeps, BurnOutKeeps
  <1>8. ASSUME NEW c \in Chars, NEW r \in Rooms, Walk(c, r) \/ Die(c, r) \/ Vanish(c, r)
        PROVE  ThingsIInv'
    BY <1>8, WalkKeeps, DieKeeps, VanishKeeps
  <1>9. ASSUME NEW o \in Objs, Decay(o) \/ Scrap(o)
        PROVE  ThingsIInv'
    BY <1>9, DecayKeeps, ScrapKeeps
  <1>10. CASE CleanQueue
    BY <1>10, CleanQueueKeeps
  <1> QED BY <1>1, <1>2, <1>3, <1>4, <1>5, <1>6, <1>7, <1>8, <1>9, <1>10 DEF ThingsNext

\* Nothing that lives is out of reach, and what a kind counts are the pieces
\* there are of it, through every list, stack and container a thing passes on
\* its way into the world, about it and out of it (handler.cpp:2216-2337,
\* 4715-4805): for any number of things, characters, rooms and kinds.
THEOREM ThingsNothingLost == ThingsSpec => []NothingLost
  <1>1. ThingsInit => ThingsIInv
    BY InitOrder
  <1>2. ThingsIInv /\ [ThingsNext]_thingVars => ThingsIInv'
    BY NextOrder
  <1>3. ThingsIInv => NothingLost
    BY OrderSuffices
  <1> QED BY <1>1, <1>2, <1>3, PTL DEF ThingsSpec
=============================================================================
