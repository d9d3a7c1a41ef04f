-------------------------- MODULE Sessions_proofs --------------------------
(***************************************************************************)
(* Proofs about Sessions, for any connections, mobs and names, whoever may  *)
(* die for good or switch into players.                                     *)
(*                                                                          *)
(* First what a handler's building blocks do to the pointers, as functions  *)
(* on connections and bodies and the sets of those on the lists (the        *)
(* lemmas ...Moves); then that the operators of Sessions do just that       *)
(* (...Good); then the actions, one by one, as long as nothing goes amiss   *)
(* (Do...).  The second part is about the types alone, whatever went amiss  *)
(* (...Typed).                                                              *)
(***************************************************************************)
EXTENDS Sessions, FiniteSetTheorems, SequenceTheorems, TLAPS

-----------------------------------------------------------------------------
(* Lists. *)

\* The places of the chosen on a list are counted without gaps.
LEMMA PlacesCounted ==
  ASSUME NEW n \in Nat, NEW K \in SUBSET (1..n)
  PROVE  /\ Cardinality(K) \in Nat
         /\ \A i \in K : Cardinality({j \in K : j <= i}) \in 1..Cardinality(K)
         /\ \A i, k \in K : Cardinality({j \in K : j <= i}) = Cardinality({j \in K : j <= k}) => i = k
         /\ \A m \in 1..Cardinality(K) : \E i \in K : Cardinality({j \in K : j <= i}) = m
  <1> DEFINE Below(i) == {j \in K : j <= i}
             rank == [i \in K |-> Cardinality(Below(i))]
  <1>1. IsFiniteSet(K) /\ Cardinality(K) \in Nat
    <2>1. IsFiniteSet(1..n)
      BY FS_Interval
    <2>2. IsFiniteSet(K)
      BY <2>1, FS_Subset
    <2> QED BY <2>2, FS_CardinalityType
  <1>2. \A i \in K : IsFiniteSet(Below(i)) /\ Cardinality(Below(i)) \in 1..Cardinality(K)
    <2> SUFFICES ASSUME NEW i \in K
                 PROVE  IsFiniteSet(Below(i)) /\ Cardinality(Below(i)) \in 1..Cardinality(K)
      OBVIOUS
    <2>1. Below(i) \in SUBSET K /\ i \in Below(i)
      OBVIOUS
    <2> HIDE DEF Below
    <2>2. IsFiniteSet(Below(i)) /\ Cardinality(Below(i)) <= Cardinality(K)
      BY <1>1, <2>1, FS_Subset
    <2>3. Cardinality(Below(i)) \in Nat /\ Cardinality(Below(i)) # 0
      BY <2>1, <2>2, FS_EmptySet, FS_CardinalityType
    <2> QED BY <1>1, <2>2, <2>3
  <1>3. \A i, k \in K : i < k => Cardinality(Below(i)) # Cardinality(Below(k))
    <2> SUFFICES ASSUME NEW i \in K, NEW k \in K, i < k,
                        Cardinality(Below(i)) = Cardinality(Below(k))
                 PROVE  FALSE
      OBVIOUS
    <2>1. Below(i) \in SUBSET Below(k) /\ k \in Below(k) /\ k \notin Below(i)
      <3>1. i \in Int /\ k \in Int /\ \A j \in K : j \in Int
        OBVIOUS
      <3>2. \A j \in K : j <= i => j <= k
        BY <3>1
      <3>3. k <= k /\ ~ (k <= i)
        BY <3>1
      <3> QED BY <3>2, <3>3
    <2>2. IsFiniteSet(Below(k))
      BY <1>2
    <2> HIDE DEF Below
    <2> QED BY <2>1, <2>2, FS_Subset
  <1>4. \A i, k \in K : Cardinality(Below(i)) = Cardinality(Below(k)) => i = k
    BY <1>3
  <1> HIDE DEF Below
  <1>5. rank \in Injection(K, 1..Cardinality(K))
    BY <1>2, <1>4 DEF Injection, IsInjective
  <1>6. rank \in Surjection(K, 1..Cardinality(K))
    <2>1. IsFiniteSet(1..Cardinality(K)) /\ Cardinality(1..Cardinality(K)) = Cardinality(K)
      BY <1>1, FS_Interval
    <2> HIDE DEF rank
    <2> QED BY <1>5, <2>1, FS_Injection
  <1>7. \A m \in 1..Cardinality(K) : \E i \in K : Cardinality(Below(i)) = m
    BY <1>6 DEF Surjection
  <1> QED BY <1>1, <1>2, <1>4, <1>7 DEF Below

\* What is left of a list are the chosen on it, each as often as he was.
LEMMA OnlyList ==
  ASSUME NEW X, NEW q \in Seq(X), NEW S
  PROVE  /\ Only(q, S) \in Seq(X)
         /\ \A x : x \in Elements(Only(q, S)) <=> x \in Elements(q) /\ x \in S
         /\ IsInjective(q) => IsInjective(Only(q, S))
  <1> DEFINE K == {i \in DOMAIN q : q[i] \in S}
             Nth(k) == CHOOSE i \in K : Cardinality({j \in K : j <= i}) = k
             t == [k \in 1..Cardinality(K) |-> q[Nth(k)]]
  <1>1. t = Only(q, S)
    BY DEF Only
  <1>2. Len(q) \in Nat /\ DOMAIN q = 1..Len(q) /\ K \in SUBSET (1..Len(q))
    BY LenProperties
  <1>3. /\ Cardinality(K) \in Nat
        /\ \A i \in K : Cardinality({j \in K : j <= i}) \in 1..Cardinality(K)
        /\ \A i, k \in K : Cardinality({j \in K : j <= i}) = Cardinality({j \in K : j <= k}) => i = k
        /\ \A m \in 1..Cardinality(K) : \E i \in K : Cardinality({j \in K : j <= i}) = m
    <2> HIDE DEF K
    <2> QED BY <1>2, PlacesCounted
  <1>4. \A k \in 1..Cardinality(K) : Nth(k) \in K /\ Cardinality({j \in K : j <= Nth(k)}) = k
    <2> HIDE DEF K
    <2> QED BY <1>3
  <1>5. \A k \in 1..Cardinality(K) : q[Nth(k)] \in X
    <2>1. \A i \in K : q[i] \in X
      BY <1>2, ElementOfSeq
    <2> HIDE DEF K, Nth
    <2> QED BY <1>4, <2>1
  <1>6. t \in Seq(X) /\ DOMAIN t = 1..Cardinality(K)
    <2> HIDE DEF K, Nth
    <2> QED BY <1>3, <1>5, IsASeq, SeqDef
  <1>7. ASSUME NEW x PROVE x \in Elements(t) <=> x \in Elements(q) /\ x \in S
    <2>1. ASSUME NEW k \in 1..Cardinality(K) PROVE t[k] \in S /\ t[k] \in Elements(q)
      <3>1. \A i \in K : q[i] \in S /\ q[i] \in Elements(q)
        BY DEF Elements
      <3> HIDE DEF K, Nth
      <3> QED BY <1>4, <3>1
    <2>2. ASSUME NEW i \in K PROVE q[i] \in Elements(t)
      <3> DEFINE k == Cardinality({j \in K : j <= i})
      <3>1. k \in 1..Cardinality(K)
        BY <1>3
      <3>2. Nth(k) \in K /\ Cardinality({j \in K : j <= Nth(k)}) = k
        BY <1>4, <3>1
      <3>3. Nth(k) = i
        <4> HIDE DEF K, Nth
        <4> QED BY <1>3, <3>2
      <3>4. t[k] = q[i]
        <4> HIDE DEF K, Nth, k
        <4> QED BY <3>1, <3>3
      <3> HIDE DEF K, Nth, k, t
      <3> QED BY <1>6, <3>1, <3>4 DEF Elements
    <2>3. x \in Elements(q) /\ x \in S => \E i \in K : q[i] = x
      BY DEF Elements
    <2> HIDE DEF K, t
    <2> QED BY <1>6, <2>1, <2>2, <2>3 DEF Elements
  <1>8. IsInjective(q) => IsInjective(t)
    <2> SUFFICES ASSUME IsInjective(q), NEW k \in 1..Cardinality(K), NEW m \in 1..Cardinality(K),
                        t[k] = t[m]
                 PROVE  k = m
      BY <1>6 DEF IsInjective
    <2>1. q[Nth(k)] = q[Nth(m)] /\ Nth(k) \in DOMAIN q /\ Nth(m) \in DOMAIN q
      <3>1. K \subseteq DOMAIN q
        OBVIOUS
      <3> HIDE DEF K, Nth
      <3> QED BY <1>4, <3>1
    <2>2. Nth(k) = Nth(m)
      <3> HIDE DEF Nth
      <3> QED BY <2>1 DEF IsInjective
    <2> HIDE DEF K, Nth
    <2> QED BY <1>4, <2>2
  <1> HIDE DEF t
  <1> QED BY <1>1, <1>6, <1>7, <1>8

\* Only x is gone from a list.
LEMMA WithoutList ==
  ASSUME NEW X, NEW q \in Seq(X), NEW y
  PROVE  /\ Without(q, y) \in Seq(X)
         /\ Elements(Without(q, y)) = Elements(q) \ {y}
         /\ IsInjective(q) => IsInjective(Without(q, y))
  BY OnlyList DEF Without

LEMMA FirstOfList ==
  ASSUME NEW X, NEW q \in Seq(X), q # <<>>
  PROVE  Head(q) \in Elements(q)
  BY LenProperties, EmptySeq DEF Elements

LEMMA EmptyList ==
  ASSUME NEW X, NEW q \in Seq(X)
  PROVE  q = <<>> <=> Elements(q) = {}
  <1>1. q = <<>> => Elements(q) = {}
    BY LenProperties, EmptySeq DEF Elements
  <1> QED BY <1>1, FirstOfList

LEMMA AppendList ==
  ASSUME NEW X, NEW q \in Seq(X), NEW x \in X
  PROVE  /\ Append(q, x) \in Seq(X)
         /\ Elements(Append(q, x)) = Elements(q) \cup {x}
         /\ IsInjective(q) /\ x \notin Elements(q) => IsInjective(Append(q, x))
  <1> DEFINE t == Append(q, x)
  <1>1. /\ t \in Seq(X) /\ DOMAIN t = 1..Len(q)+1 /\ Len(q) \in Nat /\ DOMAIN q = 1..Len(q)
        /\ (\A i \in 1..Len(q) : t[i] = q[i]) /\ t[Len(q)+1] = x
    BY AppendProperties, LenProperties
  <1> HIDE DEF t
  <1>2. Elements(t) = Elements(q) \cup {x}
    <2>1. \A y \in Elements(t) : y \in Elements(q) \cup {x}
      BY <1>1 DEF Elements
    <2>2. \A i \in DOMAIN q : q[i] \in Elements(t)
      BY <1>1 DEF Elements
    <2>3. x \in Elements(t)
      BY <1>1 DEF Elements
    <2> QED BY <2>1, <2>2, <2>3 DEF Elements
  <1>3. IsInjective(q) /\ x \notin Elements(q) => IsInjective(t)
    BY <1>1 DEF IsInjective, Elements
  <1> QED BY <1>1, <1>2, <1>3 DEF t

LEMMA ConcatList ==
  ASSUME NEW X, NEW q \in Seq(X), NEW r \in Seq(X)
  PROVE  /\ q \o r \in Seq(X)
         /\ Elements(q \o r) = Elements(q) \cup Elements(r)
         /\ IsInjective(q) /\ IsInjective(r) /\ Elements(q) \cap Elements(r) = {} =>
               IsInjective(q \o r)
  <1> DEFINE t == q \o r
             n == Len(q)
             m == Len(r)
  <1>1. /\ t \in Seq(X) /\ n \in Nat /\ m \in Nat
        /\ DOMAIN q = 1..n /\ DOMAIN r = 1..m /\ DOMAIN t = 1..(n + m)
        /\ \A i \in 1..(n + m) : t[i] = IF i <= n THEN q[i] ELSE r[i - n]
    BY ConcatProperties, LenProperties
  <1> HIDE DEF t, n, m
  <1>2. \A i \in 1..n : t[i] = q[i] /\ i \in 1..(n + m)
    BY <1>1
  <1>3. \A i \in 1..m : t[i + n] = r[i] /\ i + n \in 1..(n + m)
    BY <1>1
  <1>4. Elements(t) = Elements(q) \cup Elements(r)
    <2>1. \A i \in 1..n : q[i] \in Elements(t)
      BY <1>1, <1>2 DEF Elements
    <2>2. \A i \in 1..m : r[i] \in Elements(t)
      <3> TAKE i \in 1..m
      <3> DEFINE k == i + n
      <3>1. k \in DOMAIN t /\ t[k] = r[i]
        BY <1>1, <1>3
      <3> HIDE DEF k
      <3> QED BY <3>1 DEF Elements
    <2>3. \A i \in 1..(n + m) : t[i] \in Elements(q) \cup Elements(r)
      <3> TAKE i \in 1..(n + m)
      <3>1. CASE i <= n
        <4>1. i \in DOMAIN q /\ t[i] = q[i]
          BY <1>1, <3>1
        <4> QED BY <4>1 DEF Elements
      <3>2. CASE ~ (i <= n)
        <4>1. i - n \in 1..m /\ t[i] = r[i - n]
          BY <1>1, <3>2
        <4> QED BY <1>1, <4>1 DEF Elements
      <3> QED BY <3>1, <3>2
    <2> QED BY <1>1, <2>1, <2>2, <2>3 DEF Elements
  <1>5. ASSUME IsInjective(q), IsInjective(r), Elements(q) \cap Elements(r) = {}
        PROVE  IsInjective(t)
    <2> SUFFICES ASSUME NEW i \in 1..(n + m), NEW k \in 1..(n + m), t[i] = t[k] PROVE i = k
      BY <1>1 DEF IsInjective
    <2>1. CASE i <= n /\ k <= n
      <3>1. i \in DOMAIN q /\ k \in DOMAIN q /\ q[i] = q[k]
        BY <1>1, <2>1
      <3> QED BY <1>5, <3>1 DEF IsInjective
    <2>2. CASE ~ (i <= n) /\ ~ (k <= n)
      <3>1. i - n \in 1..m /\ k - n \in 1..m /\ r[i - n] = r[k - n]
        BY <1>1, <2>2
      <3>2. i - n = k - n
        BY <1>1, <1>5, <3>1 DEF IsInjective
      <3> QED BY <1>1, <3>2
    <2>3. \A a \in 1..n, b \in 1..m : q[a] # r[b]
      BY <1>1, <1>5 DEF Elements
    <2>4. CASE i <= n /\ ~ (k <= n)
      <3>1. k - n \in 1..m /\ i \in 1..n /\ t[k] = r[k - n] /\ t[i] = q[i]
        BY <1>1, <2>4
      <3> QED BY <2>3, <3>1
    <2>5. CASE ~ (i <= n) /\ k <= n
      <3>1. i - n \in 1..m /\ k \in 1..n /\ t[i] = r[i - n] /\ t[k] = q[k]
        BY <1>1, <2>5
      <3> QED BY <2>3, <3>1
    <2> QED BY <2>1, <2>2, <2>4, <2>5
  <1> QED BY <1>1, <1>4, <1>5 DEF t

\* A list on which everyone stands once is as long as those on it are many.
LEMMA ListLength ==
  ASSUME NEW X, NEW q \in Seq(X), IsInjective(q)
  PROVE  Cardinality(Elements(q)) = Len(q)
  <1>1. /\ Len(q) \in Nat /\ DOMAIN q = 1..Len(q) /\ q \in [1..Len(q) -> X]
    BY LenProperties
  <1>2. q \in [1..Len(q) -> Elements(q)]
    BY <1>1 DEF Elements
  <1>3. q \in Bijection(1..Len(q), Elements(q))
    <2>1. q \in Injection(1..Len(q), Elements(q))
      BY <1>2 DEF Injection
    <2>2. q \in Surjection(1..Len(q), Elements(q))
      BY <1>1, <1>2 DEF Surjection, Elements
    <2> QED BY <2>1, <2>2 DEF Bijection
  <1>4. IsFiniteSet(1..Len(q)) /\ Cardinality(1..Len(q)) = Len(q)
    BY <1>1, FS_Interval
  <1> QED BY <1>3, <1>4, FS_Bijection DEF ExistsBijection

\* The mobs of the areas are each on the list once.
LEMMA WorldList == World \in Seq(Mobs) /\ Elements(World) = Mobs /\ IsInjective(World)
  <1> DEFINE n == Cardinality(Mobs)
  <1>1. IsFiniteSet(Mobs) /\ n \in Nat /\ ExistsBijection(1..n, Mobs)
    BY SessionsAssumption, FS_CardinalityType
  <1>2. PICK f \in Bijection(1..n, Mobs) : TRUE
    BY <1>1 DEF ExistsBijection
  <1>3. f \in [1..n -> Mobs] /\ Elements(f) = Mobs
    BY <1>2 DEF Bijection, Injection, Surjection, Elements
  <1>4. World \in [1..n -> Mobs] /\ Elements(World) = Mobs
    BY <1>3 DEF World
  <1> HIDE DEF n
  <1>5. World \in Surjection(1..n, Mobs)
    BY <1>4 DEF Surjection, Elements
  <1>6. IsFiniteSet(1..n) /\ Cardinality(1..n) = n
    BY <1>1, FS_Interval
  <1>7. World \in Injection(1..n, Mobs)
    BY <1>5, <1>6, FS_SurjSameCardinalityImpliesInj DEF n
  <1>8. World \in Seq(Mobs)
    BY <1>1, <1>4, SeqDef
  <1> QED BY <1>4, <1>7, <1>8 DEF Injection
-----------------------------------------------------------------------------
(* The inductive invariant, on the connections cn, those of the list D, the *)
(* bodies bd and those of the list C.                                       *)

Asked == {"name", "newname"}
New == {"confirm", "creating", "motd"}
Loaded == New \cup {"password"}

Conn == [state : LoggingIn \cup InGame \cup {"none"}, character : Bodies \cup {NoBody},
         original : Bodies \cup {NoBody}, work : BOOLEAN]
Body == [owner : Names \cup {NoName}, desc : Conns \cup {NoConn}, switched : Bodies \cup {NoBody}]

OwnIn(cn, d) == IF cn[d].original # NoBody THEN cn[d].original ELSE cn[d].character
NameIn(cn, bd, d) == IF OwnIn(cn, d) = NoBody THEN NoName ELSE bd[OwnIn(cn, d)].owner

\* A connection that logs in has the body loaded on it, once there is one, and
\* one in the game its own body there, or another while its own waits.
Session(cn, D, bd, C, d) ==
  LET c == cn[d].character
      o == cn[d].original
      st == cn[d].state
  IN /\ d \in D <=> st # "none"
     /\ st = "none" => cn[d] = Closed
     /\ st \in Asked => c = NoBody /\ o = NoBody /\ d \notin C
     /\ st \in Loaded =>
          /\ c = d /\ o = NoBody /\ d \notin C
          /\ bd[d].owner # NoName /\ bd[d].desc = d /\ bd[d].switched = NoBody
     /\ st \in InGame =>
          /\ c \in C /\ bd[c].desc = d
          /\ o = NoBody => c \in Conns
          /\ o # NoBody => /\ o \in C /\ o \in Conns
                           /\ bd[o].desc = NoConn /\ bd[o].switched = c

\* Who is in the game has a name if he is a player, and is played by whom he
\* says; who is not, and is not logging in, is freed.
Attached(cn, D, bd, C, b) ==
  /\ b \in C =>
       /\ b \in Conns <=> bd[b].owner # NoName
       /\ bd[b].desc # NoConn => bd[b].desc \in D /\ cn[bd[b].desc].character = b
       /\ bd[b].switched # NoBody => b \in Conns /\ \E e \in Conns : cn[e].original = b
  /\ b \notin C /\ (b \in Mobs \/ cn[b].state \notin Loaded) => bd[b] = Freed

\* Nobody else, logging in or in the game, has the name of the newcomer d.
Alone(cn, bd, C, d) ==
  /\ \A e \in Conns \ {d} : NameIn(cn, bd, e) # NameIn(cn, bd, d)
  /\ \A b \in C : bd[b].owner # NameIn(cn, bd, d)

OneEach(cn, bd, C) ==
  /\ \A b, c \in C : b \in Conns /\ c \in Conns /\ bd[b].owner = bd[c].owner => b = c
  /\ \A d \in Conns : cn[d].state \in New => Alone(cn, bd, C, d)

Linked(cn, D, bd, C) ==
  /\ cn \in [Conns -> Conn] /\ bd \in [Bodies -> Body] /\ D \subseteq Conns /\ C \subseteq Bodies
  /\ \A d \in Conns : Session(cn, D, bd, C, d)
  /\ \A b \in Bodies : Attached(cn, D, bd, C, b)
  /\ OneEach(cn, bd, C)

FileOK == DOMAIN file \subseteq Names /\ \A n \in DOMAIN file : file[n] \in {"whole", "half"}

IInv ==
  /\ descs \in Seq(Conns) /\ IsInjective(descs)
  /\ chars \in Seq(Bodies) /\ IsInjective(chars)
  /\ Linked(conn, Elements(descs), body, Elements(chars))
  /\ FileOK

\* Whoever is in the game stays the same player there, until his connection
\* closes.
Follows(cn, bd, en, ed) ==
  \A d \in Conns : cn[d].state \in InGame =>
     en[d].state = "none" \/ (en[d].state \in InGame /\ NameIn(en, ed, d) = NameIn(cn, bd, d))

LEMMA Facts == /\ NoBody \notin Bodies /\ NoConn \notin Conns /\ NoName \notin Names
               /\ Conns \cap Mobs = {} /\ Conns \subseteq Bodies /\ Mobs \subseteq Bodies
  BY SessionsAssumption DEF Bodies

LEMMA ConnFields ==
  ASSUME NEW cn \in [Conns -> Conn], NEW d \in Conns
  PROVE  /\ cn[d] \in Conn /\ cn[d].character \in Bodies \cup {NoBody}
         /\ cn[d].original \in Bodies \cup {NoBody} /\ cn[d].work \in BOOLEAN
         /\ cn[d].state \in LoggingIn \cup InGame \cup {"none"}
  BY DEF Conn

LEMMA BodyFields ==
  ASSUME NEW bd \in [Bodies -> Body], NEW b \in Bodies
  PROVE  /\ bd[b] \in Body /\ bd[b].owner \in Names \cup {NoName}
         /\ bd[b].desc \in Conns \cup {NoConn} /\ bd[b].switched \in Bodies \cup {NoBody}
  BY DEF Body

-----------------------------------------------------------------------------
(* The invariant implies the properties of Sessions. *)

\* No pointer is left to a freed body, and no body is listed twice or freed there.
LEMMA InvNotBroken == IInv => ~ Broken
  <1> SUFFICES ASSUME IInv PROVE ~ Broken
    OBVIOUS
  <1>1. Linked(conn, Elements(descs), body, Elements(chars))
    BY DEF IInv
  <1>2. ASSUME NEW d \in Elements(descs), NEW b \in {conn[d].character, conn[d].original} \ {NoBody}
        PROVE  Live(b)
    <2>1. d \in Conns /\ Session(conn, Elements(descs), body, Elements(chars), d)
      BY <1>1 DEF Linked
    <2>2. conn[d].state \in Asked \cup Loaded \cup InGame
      BY <1>1, <2>1, ConnFields DEF Session, Linked, Asked, Loaded, New, LoggingIn
    <2> QED BY <1>2, <2>1, <2>2 DEF Session, Live, IsPlayer
  <1>3. ASSUME NEW b \in Elements(chars), IsPlayer(b) PROVE body[b].owner # NoName
    BY <1>1, <1>3 DEF Linked, Attached, IsPlayer
  <1>4. Cardinality(Elements(chars)) = Len(chars)
    BY ListLength DEF IInv
  <1> QED BY <1>2, <1>3, <1>4 DEF Broken

LEMMA NameOnIn == \A d \in Conns : NameOn(d) = NameIn(conn, body, d)
  BY DEF NameOn, Own, NameIn, OwnIn

LEMMA InvOneOfEach == IInv => OneOfEach
  <1> SUFFICES ASSUME IInv PROVE OneOfEach
    OBVIOUS
  <1>1. Linked(conn, Elements(descs), body, Elements(chars))
    BY DEF IInv
  <1>2. OneBody
    BY <1>1 DEF OneBody, Linked, OneEach, IsPlayer
  <1>3. OneNewcomer
    BY <1>1, NameOnIn DEF OneNewcomer, Linked, OneEach, Alone, New
  <1> QED BY <1>2, <1>3 DEF OneOfEach

LEMMA InvLinks == IInv => LinksMutual
  <1> SUFFICES ASSUME IInv PROVE LinksMutual
    OBVIOUS
  <1> DEFINE D == Elements(descs)
             C == Elements(chars)
  <1>1. Linked(conn, D, body, C)
    BY DEF IInv
  <1> HIDE DEF D, C
  <1>2. ASSUME NEW d \in D
        PROVE  /\ conn[d].state \in InGame =>
                    /\ conn[d].character \in C /\ body[conn[d].character].desc = d
                    /\ conn[d].original # NoBody =>
                         /\ conn[d].original \in C /\ body[conn[d].original].desc = NoConn
                         /\ body[conn[d].original].switched = conn[d].character
               /\ conn[d].character # NoBody =>
                    (conn[d].state \in InGame <=> conn[d].character \in C)
    <2>1. d \in Conns /\ Session(conn, D, body, C, d)
      BY <1>1 DEF Linked
    <2>2. conn[d].state \in Asked \cup Loaded \cup InGame
      BY <1>1, <1>2, <2>1, ConnFields DEF Session, Linked, Asked, Loaded, New, LoggingIn
    <2> QED BY <2>1, <2>2 DEF Session
  <1>3. ASSUME NEW c \in C
        PROVE  /\ body[c].desc # NoConn => body[c].desc \in D /\ conn[body[c].desc].character = c
               /\ body[c].switched # NoBody => \E d \in D : conn[d].original = c
    <2>1. c \in Bodies /\ c # NoBody /\ Attached(conn, D, body, C, c)
      BY <1>1, Facts DEF Linked
    <2>2. ASSUME NEW e \in Conns, conn[e].original = c PROVE e \in D
      <3>1. Session(conn, D, body, C, e)
        BY <1>1 DEF Linked
      <3> QED BY <2>1, <2>2, <3>1 DEF Session, Closed
    <2> QED BY <1>3, <2>1, <2>2 DEF Attached
  <1> QED BY <1>2, <1>3 DEF LinksMutual, PointersAgree, C, D
-----------------------------------------------------------------------------
(* Whose a body is. *)

\* The four parts of a connection's life are apart.
LEMMA States ==
  ASSUME NEW cn, NEW D, NEW bd, NEW C, Linked(cn, D, bd, C), NEW d \in Conns
  PROVE  /\ cn[d].state \in Asked \cup Loaded \cup InGame \cup {"none"}
         /\ Asked \cap Loaded = {} /\ Asked \cap InGame = {} /\ Loaded \cap InGame = {}
         /\ "none" \notin Asked \cup Loaded \cup InGame
  BY ConnFields DEF Linked, Asked, Loaded, New, LoggingIn, InGame

\* Nobody without a body has a name, and who has one has its owner's.
LEMMA NameOf ==
  ASSUME NEW cn, NEW D, NEW bd, NEW C, Linked(cn, D, bd, C), NEW d \in Conns
  PROVE  /\ cn[d].state \in Asked \cup {"none"} =>
              OwnIn(cn, d) = NoBody /\ NameIn(cn, bd, d) = NoName /\ cn[d].original = NoBody
         /\ cn[d].state \in Loaded =>
              OwnIn(cn, d) = d /\ NameIn(cn, bd, d) = bd[d].owner /\ bd[d].owner # NoName
         /\ cn[d].state \in InGame =>
              /\ OwnIn(cn, d) \in C /\ OwnIn(cn, d) \in Conns
              /\ NameIn(cn, bd, d) = bd[OwnIn(cn, d)].owner /\ NameIn(cn, bd, d) # NoName
              /\ bd[OwnIn(cn, d)].desc \in {d, NoConn}
              /\ bd[OwnIn(cn, d)].desc = d => cn[d].original = NoBody
  <1>1. Session(cn, D, bd, C, d) /\ \A b \in Bodies : Attached(cn, D, bd, C, b)
    BY DEF Linked
  <1>2. CASE cn[d].state \in Asked \cup {"none"}
    BY <1>1, <1>2, States DEF Session, OwnIn, NameIn, Closed
  <1>3. CASE cn[d].state \in Loaded
    BY <1>1, <1>3, States, Facts DEF Session, OwnIn, NameIn
  <1>4. CASE cn[d].state \in InGame
    <2>1. /\ OwnIn(cn, d) \in C /\ OwnIn(cn, d) \in Conns /\ bd[OwnIn(cn, d)].desc \in {d, NoConn}
          /\ bd[OwnIn(cn, d)].desc = d => cn[d].original = NoBody
      BY <1>1, <1>4, Facts DEF Session, OwnIn
    <2>2. OwnIn(cn, d) # NoBody /\ Attached(cn, D, bd, C, OwnIn(cn, d))
      BY <1>1, <2>1, Facts
    <2> QED BY <1>4, <2>1, <2>2, States DEF NameIn, Attached
  <1> QED BY <1>2, <1>3, <1>4, States

\* Who plays a body of the game is in the game, and has no other if it is his own.
LEMMA PlayerOf ==
  ASSUME NEW cn, NEW D, NEW bd, NEW C, Linked(cn, D, bd, C), NEW b \in C, bd[b].desc # NoConn
  PROVE  LET d == bd[b].desc IN
         /\ d \in Conns /\ d \in D /\ cn[d].character = b /\ cn[d].state \in InGame
         /\ cn[d].original = NoBody => OwnIn(cn, d) = b /\ b \in Conns
         /\ \A x \in Conns : cn[x].original # b
  <1> DEFINE d == bd[b].desc
  <1>1. b \in Bodies /\ b # NoBody /\ d \in D /\ d \in Conns /\ cn[d].character = b
    BY Facts DEF Linked, Attached
  <1>2. Session(cn, D, bd, C, d)
    BY <1>1 DEF Linked
  <1> HIDE DEF d
  <1>3. cn[d].state \in InGame
    BY <1>1, <1>2, States DEF Session, Closed
  <1>4. cn[d].original = NoBody => OwnIn(cn, d) = b /\ b \in Conns
    BY <1>1, <1>2, <1>3 DEF Session, OwnIn
  <1>5. ASSUME NEW x \in Conns, cn[x].original = b PROVE FALSE
    <2>1. Session(cn, D, bd, C, x)
      BY DEF Linked
    <2>2. cn[x].state \in InGame
      BY <1>1, <1>5, <2>1, States DEF Session, Closed
    <2> QED BY <1>1, <1>5, <2>1, <2>2 DEF Session
  <1> QED BY <1>1, <1>3, <1>4, <1>5 DEF d

\* Who waits while his player is in another body
LEMMA WaitingOf ==
  ASSUME NEW cn, NEW D, NEW bd, NEW C, Linked(cn, D, bd, C), NEW d \in Conns,
         cn[d].original # NoBody
  PROVE  /\ cn[d].state \in InGame /\ cn[d].character \in C /\ cn[d].character \in Bodies
         /\ \A x \in Conns : cn[x].original # cn[d].character
         /\ bd[cn[d].character].desc = d /\ OwnIn(cn, d) = cn[d].original
         /\ cn[d].original \in Conns /\ cn[d].original \in C
         /\ bd[cn[d].original].desc = NoConn /\ bd[cn[d].original].switched = cn[d].character
  <1>1. Session(cn, D, bd, C, d)
    BY DEF Linked
  <1>2. cn[d].state \in InGame
    BY <1>1, States DEF Session, Closed
  <1>3. cn[d].character \in C /\ bd[cn[d].character].desc # NoConn /\ cn[d].character \in Bodies
    BY <1>1, <1>2, Facts DEF Session, Linked
  <1>4. \A x \in Conns : cn[x].original # cn[d].character
    BY <1>3, PlayerOf
  <1> QED BY <1>1, <1>2, <1>3, <1>4 DEF Session, OwnIn

\* He waits for one player only, and two of the game never share a body.
LEMMA OwnOnce ==
  ASSUME NEW cn, NEW D, NEW bd, NEW C, Linked(cn, D, bd, C), NEW d \in Conns, NEW e \in Conns,
         cn[d].state \in InGame, cn[e].state \in InGame, OwnIn(cn, d) = OwnIn(cn, e)
  PROVE  d = e
  <1>1. Session(cn, D, bd, C, d) /\ Session(cn, D, bd, C, e)
    BY DEF Linked
  <1>2. CASE cn[d].original # NoBody /\ cn[e].original # NoBody
    BY <1>1, <1>2 DEF Session, OwnIn
  <1>3. CASE cn[d].original = NoBody /\ cn[e].original = NoBody
    BY <1>1, <1>3 DEF Session, OwnIn
  <1>4. CASE cn[d].original = NoBody /\ cn[e].original # NoBody
    BY <1>1, <1>4, Facts DEF Session, OwnIn
  <1>5. CASE cn[d].original # NoBody /\ cn[e].original = NoBody
    BY <1>1, <1>5, Facts DEF Session, OwnIn
  <1> QED BY <1>2, <1>3, <1>4, <1>5

\* Nobody is in the game under the name of a newcomer.
LEMMA OneName ==
  ASSUME NEW cn, NEW D, NEW bd, NEW C, Linked(cn, D, bd, C), NEW d \in Conns, NEW e \in Conns,
         cn[d].state \in InGame, cn[e].state \in InGame, NameIn(cn, bd, d) = NameIn(cn, bd, e)
  PROVE  d = e
  <1>1. /\ OwnIn(cn, d) \in C \cap Conns /\ OwnIn(cn, e) \in C \cap Conns
        /\ bd[OwnIn(cn, d)].owner = bd[OwnIn(cn, e)].owner
    BY NameOf
  <1>2. OwnIn(cn, d) = OwnIn(cn, e)
    BY <1>1 DEF Linked, OneEach
  <1> QED BY <1>2, OwnOnce

-----------------------------------------------------------------------------
(* The handlers: logging in. *)

\* A connection goes on to a state of the same kind.
LEMMA StateMoves ==
  ASSUME NEW cn, NEW D, NEW bd, NEW C, Linked(cn, D, bd, C), NEW d \in Conns,
         NEW en \in [Conns -> Conn], \A x \in Conns : x # d => en[x] = cn[x],
         en[d].character = cn[d].character, en[d].original = cn[d].original,
         \E K \in {Asked, Loaded, InGame} : cn[d].state \in K /\ en[d].state \in K,
         en[d].state \in New => cn[d].state \in New \/ Alone(cn, bd, C, d)
  PROVE  Linked(en, D, bd, C) /\ Follows(cn, bd, en, bd)
  <1>1. \A x \in Conns : /\ OwnIn(en, x) = OwnIn(cn, x) /\ NameIn(en, bd, x) = NameIn(cn, bd, x)
                         /\ en[x].character = cn[x].character /\ en[x].original = cn[x].original
    BY DEF OwnIn, NameIn
  <1>2. \A x \in Conns : /\ cn[x].state \in Asked <=> en[x].state \in Asked
                         /\ cn[x].state \in Loaded <=> en[x].state \in Loaded
                         /\ cn[x].state \in InGame <=> en[x].state \in InGame
                         /\ cn[x].state = "none" <=> en[x].state = "none"
    BY States
  <1>3. ASSUME NEW x \in Conns PROVE Session(en, D, bd, C, x)
    <2>1. Session(cn, D, bd, C, x)
      BY DEF Linked
    <2>2. en[x].state = "none" => en[x] = cn[x]
      BY <1>2, States
    <2> QED BY <1>1, <1>2, <2>1, <2>2 DEF Session
  <1>4. ASSUME NEW b \in Bodies PROVE Attached(en, D, bd, C, b)
    <2>1. Attached(cn, D, bd, C, b)
      BY DEF Linked
    <2>2. bd[b].desc \in Conns \cup {NoConn} /\ (b \in Mobs \/ b \in Conns)
      BY BodyFields DEF Linked, Bodies
    <2> QED BY <1>1, <1>2, <2>1, <2>2 DEF Attached
  <1>5. OneEach(en, bd, C)
    BY <1>1 DEF Linked, OneEach, Alone
  <1> QED BY <1>1, <1>2, <1>3, <1>4, <1>5 DEF Linked, Follows

\* A connection is made.
LEMMA ConnectMoves ==
  ASSUME NEW cn, NEW D, NEW bd, NEW C, Linked(cn, D, bd, C), NEW d \in Conns, NEW E, E = D \cup {d},
         cn[d] = Closed, d \notin C,
         NEW en \in [Conns -> Conn], \A x \in Conns : x # d => en[x] = cn[x],
         en[d].state = "name", en[d].character = NoBody, en[d].original = NoBody
  PROVE  Linked(en, E, bd, C) /\ Follows(cn, bd, en, bd)
  <1>1. cn[d].state = "none" /\ cn[d].character = NoBody /\ cn[d].original = NoBody
    BY DEF Closed
  <1>2. \A x \in Conns : NameIn(en, bd, x) = NameIn(cn, bd, x)
    BY <1>1 DEF OwnIn, NameIn
  <1>3. ASSUME NEW x \in Conns PROVE Session(en, E, bd, C, x)
    <2>1. Session(cn, D, bd, C, x)
      BY DEF Linked
    <2>2. CASE x = d
      BY <2>2 DEF Session, Asked, Loaded, New, InGame
    <2>3. CASE x # d
      BY <2>1, <2>3 DEF Session
    <2> QED BY <2>2, <2>3
  <1>4. ASSUME NEW b \in Bodies PROVE Attached(en, E, bd, C, b)
    <2>1. Attached(cn, D, bd, C, b) /\ b # NoBody
      BY Facts DEF Linked
    <2>2. \A x \in Conns : /\ en[x].character = cn[x].character /\ en[x].original = cn[x].original
                           /\ en[x].state \in Loaded <=> cn[x].state \in Loaded
      BY <1>1 DEF Loaded, New
    <2>3. bd[b].desc \in Conns \cup {NoConn} /\ (b \in Mobs \/ b \in Conns)
      BY BodyFields DEF Linked, Bodies
    <2> QED BY <2>1, <2>2, <2>3 DEF Attached
  <1>5. OneEach(en, bd, C)
    <2>1. \A x \in Conns : en[x].state \in New => cn[x].state \in New
      BY DEF New
    <2> QED BY <1>2, <2>1 DEF Linked, OneEach, Alone
  <1> QED BY <1>1, <1>2, <1>3, <1>4, <1>5, States DEF Linked, Follows

\* A body is loaded on the connection d, under the name n.
LEMMA LoadMoves ==
  ASSUME NEW cn, NEW D, NEW bd, NEW C, Linked(cn, D, bd, C), NEW d \in Conns, NEW n \in Names,
         cn[d].state \in Asked,
         \A e \in Conns : cn[e].state \in New => NameIn(cn, bd, e) # n,
         NEW en \in [Conns -> Conn], \A x \in Conns : x # d => en[x] = cn[x],
         en[d].state \in {"password", "confirm"}, en[d].character = d, en[d].original = NoBody,
         en[d].state = "confirm" =>
            /\ \A e \in Conns \ {d} : NameIn(cn, bd, e) # n
            /\ \A b \in C : bd[b].owner # n,
         NEW ed \in [Bodies -> Body], \A x \in Bodies : x # d => ed[x] = bd[x],
         ed[d] = [owner |-> n, desc |-> d, switched |-> NoBody]
  PROVE  Linked(en, D, ed, C) /\ Follows(cn, bd, en, ed)
  <1>0. Session(cn, D, bd, C, d) /\ cn[d].state # "none"
    BY States DEF Linked
  <1>1. cn[d].character = NoBody /\ cn[d].original = NoBody
    BY <1>0 DEF Session
  <1>2. d \notin C /\ d \in D /\ d \in Bodies /\ d # NoBody /\ n # NoName
    BY <1>0, Facts DEF Session
  <1>3. NameIn(en, ed, d) = n /\ NameIn(cn, bd, d) = NoName
    BY <1>1, <1>2 DEF NameIn, OwnIn
  <1>4. ASSUME NEW x \in Conns, x # d
        PROVE  NameIn(en, ed, x) = NameIn(cn, bd, x) /\ OwnIn(en, x) = OwnIn(cn, x)
    <2>1. OwnIn(en, x) = OwnIn(cn, x)
      BY <1>4 DEF OwnIn
    <2>2. OwnIn(cn, x) # d /\ (OwnIn(cn, x) = NoBody \/ OwnIn(cn, x) \in Bodies)
      BY <1>2, <1>4, NameOf, States, Facts
    <2> QED BY <2>1, <2>2 DEF NameIn
  <1>5. \A b \in C : ed[b] = bd[b] /\ b \in Bodies /\ b # d
    BY <1>2 DEF Linked
  <1>6. ASSUME NEW x \in Conns PROVE Session(en, D, ed, C, x)
    <2>1. Session(cn, D, bd, C, x)
      BY DEF Linked
    <2>2. CASE x = d
      <3>1. en[d].state \in Loaded /\ en[d].state \notin Asked \cup InGame \cup {"none"}
        BY DEF Loaded, New, Asked, InGame
      <3> QED BY <1>2, <2>2, <3>1 DEF Session
    <2>3. CASE x # d
      <3>1. x \in Bodies /\ ed[x] = bd[x]
        BY <2>3, Facts
      <3> QED BY <1>5, <2>1, <2>3, <3>1 DEF Session
    <2> QED BY <2>2, <2>3
  <1>7. ASSUME NEW b \in Bodies PROVE Attached(en, D, ed, C, b)
    <2>1. Attached(cn, D, bd, C, b) /\ b # NoBody /\ (b \in Mobs \/ b \in Conns)
      BY Facts DEF Linked, Bodies
    <2>2. CASE b = d
      BY <1>2, <2>2, Facts DEF Attached, Loaded, New
    <2>3. CASE b # d
      <3>1. ed[b] = bd[b] /\ bd[b].desc \in Conns \cup {NoConn}
        BY <2>3, BodyFields DEF Linked
      <3>2. b \in C /\ bd[b].desc # NoConn => bd[b].desc # d
        BY <1>1, <2>1 DEF Attached
      <3>3. \A e \in Conns : cn[e].original = b => en[e].original = b
        BY <1>1, <2>1
      <3> QED BY <2>1, <2>3, <3>1, <3>2, <3>3 DEF Attached
    <2> QED BY <2>2, <2>3
  <1>8. OneEach(en, ed, C)
    <2>1. \A b, c \in C : b \in Conns /\ c \in Conns /\ ed[b].owner = ed[c].owner => b = c
      BY <1>5 DEF Linked, OneEach
    <2>2. ASSUME NEW x \in Conns, en[x].state \in New PROVE Alone(en, ed, C, x)
      <3>1. CASE x = d
        <4>1. en[d].state = "confirm"
          BY <2>2, <3>1 DEF New
        <4> QED BY <1>3, <1>4, <1>5, <3>1, <4>1 DEF Alone
      <3>2. CASE x # d
        <4>1. Alone(cn, bd, C, x) /\ NameIn(cn, bd, x) # n
          BY <2>2, <3>2 DEF Linked, OneEach
        <4> QED BY <1>3, <1>4, <1>5, <3>2, <4>1 DEF Alone
      <3> QED BY <3>1, <3>2
    <2> QED BY <2>1, <2>2 DEF OneEach
  <1>9. Follows(cn, bd, en, ed)
    BY <1>4, States DEF Follows
  <1> QED BY <1>6, <1>7, <1>8, <1>9 DEF Linked

\* The body loaded on d, if there is one, is freed, and the connection asks
\* for a name again or closes.
LEMMA UnloadMoves ==
  ASSUME NEW cn, NEW D, NEW bd, NEW C, Linked(cn, D, bd, C), NEW d \in Conns,
         cn[d].state \in Asked \cup Loaded,
         NEW en \in [Conns -> Conn], \A x \in Conns : x # d => en[x] = cn[x],
         en[d].character = NoBody, en[d].original = NoBody, NEW E,
         \/ en[d].state \in Asked /\ E = D
         \/ en[d] = Closed /\ E = D \ {d},
         NEW ed \in [Bodies -> Body], \A x \in Bodies : x # d => ed[x] = bd[x], ed[d] = Freed
  PROVE  Linked(en, E, ed, C) /\ Follows(cn, bd, en, ed)
  <1>0. Session(cn, D, bd, C, d) /\ cn[d].state # "none"
    BY States DEF Linked
  <1>1. /\ d \notin C /\ d \in D /\ d \in Bodies /\ d # NoBody
        /\ cn[d].character \in {NoBody, d} /\ cn[d].original = NoBody
    BY <1>0, Facts DEF Session
  <1>2. /\ en[d].state \notin Loaded \cup InGame
        /\ en[d].state = "none" => en[d] = Closed /\ E = D \ {d}
        /\ en[d].state # "none" => E = D
        /\ E \subseteq D /\ \A x \in D : x # d => x \in E
    BY DEF Closed, Asked, Loaded, New, InGame
  <1>3. NameIn(en, ed, d) = NoName
    BY DEF NameIn, OwnIn
  <1>4. ASSUME NEW x \in Conns, x # d
        PROVE  NameIn(en, ed, x) = NameIn(cn, bd, x)
    <2>1. OwnIn(en, x) = OwnIn(cn, x)
      BY <1>4 DEF OwnIn
    <2>2. OwnIn(cn, x) # d /\ (OwnIn(cn, x) = NoBody \/ OwnIn(cn, x) \in Bodies)
      BY <1>1, <1>4, NameOf, States, Facts
    <2> QED BY <2>1, <2>2 DEF NameIn
  <1>5. \A b \in C : ed[b] = bd[b] /\ b \in Bodies /\ b # d
    BY <1>1 DEF Linked
  <1>6. ASSUME NEW x \in Conns PROVE Session(en, E, ed, C, x)
    <2>1. Session(cn, D, bd, C, x)
      BY DEF Linked
    <2>2. CASE x = d
      BY <1>1, <1>2, <2>2 DEF Session
    <2>3. CASE x # d
      <3>1. x \in Bodies /\ ed[x] = bd[x] /\ (x \in E <=> x \in D)
        BY <1>2, <2>3, Facts
      <3> QED BY <1>5, <2>1, <2>3, <3>1 DEF Session
    <2> QED BY <2>2, <2>3
  <1>7. ASSUME NEW b \in Bodies PROVE Attached(en, E, ed, C, b)
    <2>1. Attached(cn, D, bd, C, b) /\ b # NoBody /\ (b \in Mobs \/ b \in Conns)
      BY Facts DEF Linked, Bodies
    <2>2. CASE b = d
      BY <1>1, <2>2 DEF Attached
    <2>3. CASE b # d
      <3>1. ed[b] = bd[b] /\ bd[b].desc \in Conns \cup {NoConn}
        BY <2>3, BodyFields DEF Linked
      <3>2. b \in C /\ bd[b].desc # NoConn => bd[b].desc # d /\ bd[b].desc \in E
        BY <1>1, <1>2, <2>1, <2>3 DEF Attached
      <3>3. \A e \in Conns : cn[e].original = b => en[e].original = b
        BY <1>1, <2>1
      <3> QED BY <2>1, <2>3, <3>1, <3>2, <3>3 DEF Attached
    <2> QED BY <2>2, <2>3
  <1>8. OneEach(en, ed, C)
    <2>1. \A b, c \in C : b \in Conns /\ c \in Conns /\ ed[b].owner = ed[c].owner => b = c
      BY <1>5 DEF Linked, OneEach
    <2>2. ASSUME NEW x \in Conns, en[x].state \in New PROVE Alone(en, ed, C, x)
      <3>1. x # d
        BY <1>2, <2>2 DEF Loaded
      <3>2. cn[x].state \in New /\ cn[x].state \in Loaded
        BY <2>2, <3>1 DEF Loaded
      <3>3. Alone(cn, bd, C, x)
        BY <3>2 DEF Linked, OneEach
      <3>4. NameIn(cn, bd, x) # NoName
        BY <3>2, NameOf
      <3> QED BY <1>3, <1>4, <1>5, <3>1, <3>3, <3>4 DEF Alone
    <2> QED BY <2>1, <2>2 DEF OneEach
  <1>9. Follows(cn, bd, en, ed)
    BY <1>4, States DEF Follows
  <1>10. E \subseteq Conns
    BY <1>2 DEF Linked
  <1> QED BY <1>6, <1>7, <1>8, <1>9, <1>10 DEF Linked

\* The body loaded on d comes into the game.
LEMMA EnterMoves ==
  ASSUME NEW cn, NEW D, NEW bd, NEW C, Linked(cn, D, bd, C), NEW d \in Conns, NEW F, F = C \cup {d},
         cn[d].state = "motd",
         NEW en \in [Conns -> Conn], \A x \in Conns : x # d => en[x] = cn[x],
         en[d].state = "playing", en[d].character = cn[d].character,
         en[d].original = cn[d].original
  PROVE  Linked(en, D, bd, F) /\ Follows(cn, bd, en, bd) /\ cn[d].character = d /\ d \notin C
  <1>1. cn[d].state \in Loaded /\ cn[d].state \in New /\ cn[d].state \notin InGame
    BY DEF Loaded, New, InGame
  <1>2. /\ d \notin C /\ d \in D /\ d \in Bodies /\ d # NoBody
        /\ cn[d].character = d /\ cn[d].original = NoBody
        /\ bd[d].owner # NoName /\ bd[d].desc = d /\ bd[d].switched = NoBody
    BY <1>1, Facts DEF Linked, Session
  <1>3. \A x \in Conns : NameIn(en, bd, x) = NameIn(cn, bd, x) /\ en[x].character = cn[x].character
                           /\ en[x].original = cn[x].original
    BY DEF NameIn, OwnIn
  <1>4. Alone(cn, bd, C, d) /\ NameIn(cn, bd, d) = bd[d].owner
    <2>1. Alone(cn, bd, C, d)
      BY <1>1 DEF Linked, OneEach
    <2>2. NameIn(cn, bd, d) = bd[d].owner
      BY <1>1, NameOf
    <2> QED BY <2>1, <2>2
  <1>5. ASSUME NEW x \in Conns PROVE Session(en, D, bd, F, x)
    <2>1. Session(cn, D, bd, C, x)
      BY DEF Linked
    <2>2. CASE x = d
      BY <1>2, <2>2 DEF Session, InGame, Asked, Loaded, New
    <2>3. CASE x # d
      BY <2>1, <2>3 DEF Session
    <2> QED BY <2>2, <2>3
  <1>6. ASSUME NEW b \in Bodies PROVE Attached(en, D, bd, F, b)
    <2>1. Attached(cn, D, bd, C, b) /\ b # NoBody /\ (b \in Mobs \/ b \in Conns)
      BY Facts DEF Linked, Bodies
    <2>2. bd[b].desc \in Conns \cup {NoConn}
      BY BodyFields DEF Linked
    <2>3. CASE b = d
      BY <1>2, <1>3, <2>3, Facts DEF Attached
    <2>4. CASE b # d
      BY <1>3, <2>1, <2>2, <2>4 DEF Attached
    <2> QED BY <2>3, <2>4
  <1>7. OneEach(en, bd, F)
    <2>1. \A b, c \in F : b \in Conns /\ c \in Conns /\ bd[b].owner = bd[c].owner => b = c
      BY <1>4 DEF Linked, OneEach, Alone
    <2>2. ASSUME NEW x \in Conns, en[x].state \in New PROVE Alone(en, bd, F, x)
      <3>1. x # d
        BY <2>2 DEF New
      <3>2. Alone(cn, bd, C, x)
        BY <2>2, <3>1 DEF Linked, OneEach
      <3> QED BY <1>3, <1>4, <3>1, <3>2 DEF Alone
    <2> QED BY <2>1, <2>2 DEF OneEach
  <1>8. Follows(cn, bd, en, bd)
    BY <1>1, <1>3 DEF Follows
  <1> QED BY <1>2, <1>5, <1>6, <1>7, <1>8 DEF Linked

-----------------------------------------------------------------------------
(* The handlers: in the game. *)

\* Two plays of bodies that are in the game by all connections alike: where
\* names and who logs in stay, so does that everyone is there once.
LEMMA NamesKept ==
  ASSUME NEW cn, NEW D, NEW bd, NEW C, Linked(cn, D, bd, C), NEW en, NEW ed, NEW F,
         F \subseteq C, \A b \in F : ed[b].owner = bd[b].owner,
         \A x \in Conns : NameIn(en, ed, x) \in {NameIn(cn, bd, x), NoName},
         \A x \in Conns : en[x].state \in New => cn[x].state \in New /\ NameIn(en, ed, x) = NameIn(cn, bd, x)
  PROVE  OneEach(en, ed, F)
  <1>1. \A b, c \in F : b \in Conns /\ c \in Conns /\ ed[b].owner = ed[c].owner => b = c
    BY DEF Linked, OneEach
  <1>2. ASSUME NEW x \in Conns, en[x].state \in New PROVE Alone(en, ed, F, x)
    <2>1. cn[x].state \in New /\ cn[x].state \in Loaded /\ NameIn(en, ed, x) = NameIn(cn, bd, x)
      BY <1>2 DEF Loaded
    <2>2. Alone(cn, bd, C, x)
      BY <2>1 DEF Linked, OneEach
    <2>3. NameIn(cn, bd, x) # NoName
      BY <2>1, NameOf
    <2> QED BY <2>1, <2>2, <2>3 DEF Alone
  <1> QED BY <1>1, <1>2 DEF OneEach

\* The player d goes into the body v, which nobody plays or waits for, and his own waits.
LEMMA SwitchMoves ==
  ASSUME NEW cn, NEW D, NEW bd, NEW C, Linked(cn, D, bd, C), NEW d \in Conns, NEW v \in C,
         cn[d].state \in InGame, cn[d].original = NoBody, bd[v].desc = NoConn,
         \A x \in Conns : cn[x].original # v,
         NEW ch, ch = cn[d].character,
         NEW en \in [Conns -> Conn], \A x \in Conns : x # d => en[x] = cn[x],
         en[d].state = cn[d].state, en[d].character = v, en[d].original = ch,
         NEW ed \in [Bodies -> Body], \A x \in Bodies : x \notin {v, ch} => ed[x] = bd[x],
         ed[v].desc = d, ed[v].owner = bd[v].owner, ed[v].switched = bd[v].switched,
         ed[ch].desc = NoConn, ed[ch].owner = bd[ch].owner, ed[ch].switched = v
  PROVE  Linked(en, D, ed, C) /\ Follows(cn, bd, en, ed)
  <1>1. /\ ch \in C /\ ch \in Conns /\ ch \in Bodies /\ bd[ch].desc = d /\ v \in Bodies
        /\ ch # v /\ ch # NoBody /\ v # NoBody /\ d \in D /\ cn[d].state # "none" /\ d # NoConn
    <2>1. Session(cn, D, bd, C, d) /\ cn[d].state # "none" /\ v \in Bodies
      BY States DEF Linked
    <2> QED BY <2>1, Facts DEF Session
  <1>2. \A b \in Bodies : ed[b].owner = bd[b].owner
    BY <1>1
  <1>3. \A x \in Conns : OwnIn(en, x) = OwnIn(cn, x)
    BY <1>1 DEF OwnIn
  <1>4. \A x \in Conns : OwnIn(cn, x) = NoBody \/ OwnIn(cn, x) \in Bodies
    BY NameOf, States, Facts
  <1>5. \A x \in Conns : NameIn(en, ed, x) = NameIn(cn, bd, x) /\ en[x].state = cn[x].state
    BY <1>2, <1>3, <1>4 DEF NameIn
  <1>6. ASSUME NEW x \in Conns PROVE Session(en, D, ed, C, x)
    <2>1. Session(cn, D, bd, C, x)
      BY DEF Linked
    <2>2. CASE x = d
      BY <1>1, <2>2, States DEF Session
    <2>3. CASE x # d
      <3>1. cn[x].state \in InGame => cn[x].character \notin {v, ch}
        BY <1>1, <2>1, <2>3, Facts DEF Session
      <3>2. cn[x].state \in InGame /\ cn[x].original # NoBody =>
               cn[x].original \notin {v, ch} /\ cn[x].original \in Bodies
        BY <1>1, <2>1, <2>3, Facts DEF Session
      <3>3. cn[x].state \in InGame => cn[x].character \in Bodies
        BY <2>1 DEF Linked, Session
      <3>4. cn[x].state \in Loaded => x \notin {v, ch} /\ x \in Bodies
        BY <1>1, <2>1, Facts DEF Session
      <3> QED BY <2>1, <2>3, <3>1, <3>2, <3>3, <3>4 DEF Session
    <2> QED BY <2>2, <2>3
  <1>7. ASSUME NEW b \in Bodies PROVE Attached(en, D, ed, C, b)
    <2>1. Attached(cn, D, bd, C, b)
      BY DEF Linked
    <2>2. CASE b = v
      <3>1. bd[v].switched = NoBody
        BY <1>1, <2>1, <2>2, Facts DEF Attached
      <3> QED BY <1>1, <2>1, <2>2, <3>1 DEF Attached
    <2>3. CASE b = ch
      BY <1>1, <2>1, <2>3 DEF Attached
    <2>4. CASE b \notin {v, ch}
      <3>1. ed[b] = bd[b] /\ (bd[b].desc = NoConn \/ bd[b].desc \in Conns) /\ (b \in Mobs \/ b \in Conns)
        BY <2>4, BodyFields DEF Linked, Bodies
      <3>2. b \in C /\ bd[b].desc # NoConn => bd[b].desc # d
        BY <2>1, <2>4 DEF Attached
      <3>3. \A e \in Conns : cn[e].original = b => e # d
        BY Facts
      <3> QED BY <1>5, <2>1, <3>1, <3>2, <3>3 DEF Attached
    <2> QED BY <2>2, <2>3, <2>4
  <1>8. OneEach(en, ed, C)
    <2>1. \A b \in C : ed[b].owner = bd[b].owner
      BY <1>2 DEF Linked
    <2>2. \A x \in Conns : NameIn(en, ed, x) \in {NameIn(cn, bd, x), NoName}
      BY <1>5
    <2>3. \A x \in Conns : en[x].state \in New =>
             cn[x].state \in New /\ NameIn(en, ed, x) = NameIn(cn, bd, x)
      BY <1>5
    <2> QED BY <2>1, <2>2, <2>3, NamesKept
  <1> QED BY <1>5, <1>6, <1>7, <1>8 DEF Linked, Follows

\* The player d goes back to his own body.
LEMMA ReturnMoves ==
  ASSUME NEW cn, NEW D, NEW bd, NEW C, Linked(cn, D, bd, C), NEW d \in Conns,
         NEW o, o = cn[d].original, o # NoBody, NEW c, c = cn[d].character,
         NEW en \in [Conns -> Conn], \A x \in Conns : x # d => en[x] = cn[x],
         en[d].state = cn[d].state, en[d].character = o, en[d].original = NoBody,
         NEW ed \in [Bodies -> Body], \A x \in Bodies : x \notin {o, c} => ed[x] = bd[x],
         ed[o].desc = d, ed[o].owner = bd[o].owner, ed[o].switched = NoBody,
         ed[c].desc = NoConn, ed[c].owner = bd[c].owner, ed[c].switched = bd[c].switched
  PROVE  Linked(en, D, ed, C) /\ Follows(cn, bd, en, ed)
  <1>1. /\ cn[d].state \in InGame /\ c \in C /\ bd[c].desc = d /\ \A x \in Conns : cn[x].original # c
        /\ o \in Conns /\ o \in C /\ bd[o].desc = NoConn /\ bd[o].switched = c
        /\ o \in Bodies /\ c \in Bodies /\ o # c /\ c # NoBody /\ d \in D /\ d # NoConn
    <2>1. cn[d].state \in InGame /\ c \in Bodies /\ \A x \in Conns : cn[x].original # c
      BY ONLY Linked(cn, D, bd, C), d \in Conns, o = cn[d].original, o # NoBody, c = cn[d].character,
              WaitingOf
    <2>2. Session(cn, D, bd, C, d) /\ cn[d].state # "none"
      BY <2>1, States DEF Linked
    <2> QED BY <2>1, <2>2, Facts DEF Session
  <1>2. \A b \in Bodies : ed[b].owner = bd[b].owner
    BY <1>1
  <1>3. \A x \in Conns : OwnIn(en, x) = OwnIn(cn, x)
    BY <1>1 DEF OwnIn
  <1>4. \A x \in Conns : OwnIn(cn, x) = NoBody \/ OwnIn(cn, x) \in Bodies
    BY NameOf, States, Facts
  <1>5. \A x \in Conns : NameIn(en, ed, x) = NameIn(cn, bd, x) /\ en[x].state = cn[x].state
    BY <1>2, <1>3, <1>4 DEF NameIn
  <1>6. ASSUME NEW x \in Conns PROVE Session(en, D, ed, C, x)
    <2>1. Session(cn, D, bd, C, x)
      BY DEF Linked
    <2>2. CASE x = d
      BY <1>1, <2>2, States DEF Session
    <2>3. CASE x # d
      <3>1. cn[x].state \in InGame => cn[x].character \notin {o, c} /\ cn[x].character \in Bodies
        BY <1>1, <2>1, <2>3, Facts DEF Session, Linked
      <3>2. cn[x].state \in InGame /\ cn[x].original # NoBody =>
               cn[x].original \notin {o, c} /\ cn[x].original \in Bodies
        <4> SUFFICES ASSUME cn[x].state \in InGame, cn[x].original # NoBody
                     PROVE  cn[x].original \notin {o, c} /\ cn[x].original \in Bodies
          OBVIOUS
        <4>1. /\ cn[x].original \in Conns /\ bd[cn[x].original].switched = cn[x].character
              /\ bd[cn[x].character].desc = x
          BY <2>1 DEF Session
        <4> QED BY <1>1, <2>3, <4>1, Facts
      <3>3. cn[x].state \in Loaded => x \notin {o, c} /\ x \in Bodies
        BY <1>1, <2>1, Facts DEF Session
      <3> QED BY <2>1, <2>3, <3>1, <3>2, <3>3 DEF Session
    <2> QED BY <2>2, <2>3
  <1>7. ASSUME NEW b \in Bodies PROVE Attached(en, D, ed, C, b)
    <2>1. Attached(cn, D, bd, C, b)
      BY DEF Linked
    <2>2. CASE b = o
      BY <1>1, <2>1, <2>2 DEF Attached
    <2>3. CASE b = c
      <3>1. bd[c].switched = NoBody
        BY <1>1, <2>1, <2>3, Facts DEF Attached
      <3> QED BY <1>1, <2>1, <2>3, <3>1 DEF Attached
    <2>4. CASE b \notin {o, c}
      <3>1. ed[b] = bd[b] /\ (bd[b].desc = NoConn \/ bd[b].desc \in Conns) /\ (b \in Mobs \/ b \in Conns)
        BY <2>4, BodyFields DEF Linked, Bodies
      <3>2. b \in C /\ bd[b].desc # NoConn => bd[b].desc # d
        BY <2>1, <2>4 DEF Attached
      <3>3. \A e \in Conns : cn[e].original = b => e # d
        BY <2>4
      <3> QED BY <1>5, <2>1, <3>1, <3>2, <3>3 DEF Attached
    <2> QED BY <2>2, <2>3, <2>4
  <1>8. OneEach(en, ed, C)
    <2>1. \A b \in C : ed[b].owner = bd[b].owner
      BY <1>2 DEF Linked
    <2>2. \A x \in Conns : NameIn(en, ed, x) \in {NameIn(cn, bd, x), NoName}
      BY <1>5
    <2>3. \A x \in Conns : en[x].state \in New =>
             cn[x].state \in New /\ NameIn(en, ed, x) = NameIn(cn, bd, x)
      BY <1>5
    <2> QED BY <2>1, <2>2, <2>3, NamesKept
  <1> QED BY <1>5, <1>6, <1>7, <1>8 DEF Linked, Follows

\* The link of d, who is in his own body ch, is lost.
Parted(cn, D, bd, C, d, ch, en, E, ed) ==
  /\ Linked(cn, D, bd, C) /\ d \in Conns /\ ch = cn[d].character
  /\ cn[d].state \in InGame /\ cn[d].original = NoBody
  /\ en \in [Conns -> Conn] /\ \A x \in Conns : x # d => en[x] = cn[x]
  /\ en[d] = Closed /\ E = D \ {d}
  /\ ed \in [Bodies -> Body] /\ \A x \in Bodies : x # ch => ed[x] = bd[x]
  /\ ed[ch].desc = NoConn /\ ed[ch].owner = bd[ch].owner /\ ed[ch].switched = bd[ch].switched

LEMMA CloseMoves ==
  ASSUME NEW cn, NEW D, NEW bd, NEW C, NEW d, NEW E, NEW ch, NEW en, NEW ed,
         Parted(cn, D, bd, C, d, ch, en, E, ed)
  PROVE  /\ Linked(en, E, ed, C) /\ Follows(cn, bd, en, ed)
         /\ ch \in C /\ ch \in Conns /\ bd[ch].desc = d /\ bd[ch].switched = NoBody
         /\ \A x \in Conns : en[x].original # ch
  <1> USE DEF Parted
  <1>1. /\ ch \in C /\ ch \in Conns /\ bd[ch].desc = d /\ ch \in Bodies /\ ch # NoBody
        /\ d \in D /\ d # NoConn
    <2>1. Session(cn, D, bd, C, d) /\ cn[d].state # "none"
      BY States DEF Linked
    <2> QED BY <2>1, Facts DEF Session
  <1>2. \A b \in Bodies : ed[b].owner = bd[b].owner
    BY <1>1
  <1>3. \A x \in Conns : x # d => OwnIn(en, x) = OwnIn(cn, x)
    BY <1>1 DEF OwnIn
  <1>4. \A x \in Conns : OwnIn(cn, x) = NoBody \/ OwnIn(cn, x) \in Bodies
    BY NameOf, States, Facts
  <1>5. \A x \in Conns : x # d => NameIn(en, ed, x) = NameIn(cn, bd, x)
    BY <1>2, <1>3, <1>4 DEF NameIn
  <1>6. NameIn(en, ed, d) = NoName /\ en[d].state = "none" /\ en[d].state \notin New /\ en[d].original = NoBody
    BY DEF NameIn, OwnIn, Closed, New
  <1>7. \A x \in Conns : cn[x].original # ch
    BY <1>1, WaitingOf
  <1>8. bd[ch].switched = NoBody
    BY <1>1, <1>7 DEF Linked, Attached
  <1>9. ASSUME NEW x \in Conns PROVE Session(en, E, ed, C, x)
    <2>1. Session(cn, D, bd, C, x)
      BY DEF Linked
    <2>2. CASE x = d
      BY <1>6, <2>2, States DEF Session
    <2>3. CASE x # d
      <3>1. cn[x].state \in InGame => cn[x].character # ch /\ cn[x].character \in Bodies
        BY <1>1, <2>1, <2>3, Facts DEF Session, Linked
      <3>2. cn[x].state \in InGame /\ cn[x].original # NoBody =>
               cn[x].original # ch /\ cn[x].original \in Bodies
        BY <1>7, <2>1, Facts DEF Session
      <3>3. cn[x].state \in Loaded => x # ch /\ x \in Bodies
        BY <1>1, <2>1, Facts DEF Session
      <3> QED BY <2>1, <2>3, <3>1, <3>2, <3>3 DEF Session
    <2> QED BY <2>2, <2>3
  <1>10. ASSUME NEW b \in Bodies PROVE Attached(en, E, ed, C, b)
    <2>1. Attached(cn, D, bd, C, b)
      BY DEF Linked
    <2>2. CASE b = ch
      BY <1>1, <1>8, <2>1, <2>2 DEF Attached
    <2>4. CASE b # ch
      <3>1. ed[b] = bd[b] /\ (bd[b].desc = NoConn \/ bd[b].desc \in Conns) /\ (b \in Mobs \/ b \in Conns)
            /\ b # NoBody
        BY <2>4, BodyFields, Facts DEF Linked, Bodies
      <3>2. b \in C /\ bd[b].desc # NoConn => bd[b].desc # d
        BY <2>1, <2>4 DEF Attached
      <3>3. \A e \in Conns : cn[e].original = b => e # d
        BY <3>1
      <3>4. b \in Conns /\ en[b].state \notin Loaded => cn[b].state \notin Loaded
        BY States
      <3> QED BY <2>1, <3>1, <3>2, <3>3, <3>4 DEF Attached
    <2> QED BY <2>2, <2>4
  <1>11. OneEach(en, ed, C)
    <2>1. \A x \in Conns : en[x].state \in New => cn[x].state \in New /\ NameIn(en, ed, x) = NameIn(cn, bd, x)
      BY <1>5, <1>6
    <2>2. \A x \in Conns : NameIn(en, ed, x) \in {NameIn(cn, bd, x), NoName}
      BY <1>5, <1>6
    <2> QED BY <1>2, <2>1, <2>2, NamesKept DEF Linked
  <1>12. Follows(cn, bd, en, ed)
    BY <1>5, <1>6 DEF Follows
  <1>13. \A x \in Conns : en[x].original # ch
    BY <1>1, <1>6, <1>7
  <1> QED BY <1>1, <1>8, <1>9, <1>10, <1>11, <1>12, <1>13 DEF Linked

\* The connection d, at the password, takes over its link-dead body ch.
LEMMA AdoptMoves ==
  ASSUME NEW cn, NEW D, NEW bd, NEW C, Linked(cn, D, bd, C), NEW d \in Conns,
         cn[d].state = "password", NEW ch \in C, ch \in Conns, bd[ch].desc = NoConn,
         bd[ch].switched = NoBody, bd[ch].owner = NameIn(cn, bd, d),
         NEW en \in [Conns -> Conn], \A x \in Conns : x # d => en[x] = cn[x],
         en[d].state \in InGame, en[d].character = ch, en[d].original = NoBody,
         NEW ed \in [Bodies -> Body], \A x \in Bodies : x \notin {d, ch} => ed[x] = bd[x],
         ed[d] = Freed, ed[ch].desc = d, ed[ch].owner = bd[ch].owner, ed[ch].switched = NoBody
  PROVE  Linked(en, D, ed, C) /\ Follows(cn, bd, en, ed)
  <1>1. cn[d].state \in Loaded /\ cn[d].state \notin InGame \cup New
    BY DEF Loaded, New, InGame
  <1>2. /\ d \notin C /\ d \in Bodies /\ cn[d].character = d /\ cn[d].original = NoBody
        /\ d # NoConn /\ d \in D /\ ch # d /\ ch # NoBody /\ ch \in Bodies
        /\ NameIn(cn, bd, d) = bd[d].owner
    <2>1. Session(cn, D, bd, C, d) /\ cn[d].state # "none"
      BY DEF Linked
    <2> QED BY <1>1, <2>1, NameOf, Facts DEF Session
  <1>3. \A x \in Conns : cn[x].original # ch
    BY <1>2, WaitingOf, Facts
  <1>4. \A b \in C : ed[b].owner = bd[b].owner
    BY <1>2 DEF Linked
  <1>5. NameIn(en, ed, d) = NameIn(cn, bd, d)
    BY <1>2 DEF NameIn, OwnIn
  <1>6. ASSUME NEW x \in Conns, x # d PROVE NameIn(en, ed, x) = NameIn(cn, bd, x)
    <2>1. OwnIn(en, x) = OwnIn(cn, x)
      BY <1>6 DEF OwnIn
    <2>2. OwnIn(cn, x) # d /\ (OwnIn(cn, x) = NoBody \/ OwnIn(cn, x) \in Bodies)
      BY <1>2, <1>6, NameOf, States, Facts
    <2>3. OwnIn(cn, x) \in Bodies => ed[OwnIn(cn, x)].owner = bd[OwnIn(cn, x)].owner
      BY <2>2
    <2> QED BY <2>1, <2>2, <2>3 DEF NameIn
  <1>7. ASSUME NEW x \in Conns PROVE Session(en, D, ed, C, x)
    <2>1. Session(cn, D, bd, C, x)
      BY DEF Linked
    <2>2. CASE x = d
      <3>1. en[d].state \notin Asked \cup Loaded \cup {"none"}
        BY States
      <3> QED BY <1>2, <2>2, <3>1 DEF Session
    <2>3. CASE x # d
      <3>1. cn[x].state \in InGame => cn[x].character \notin {d, ch} /\ cn[x].character \in Bodies
        BY <1>2, <2>1, <2>3, Facts DEF Session, Linked
      <3>2. cn[x].state \in InGame /\ cn[x].original # NoBody =>
               cn[x].original \notin {d, ch} /\ cn[x].original \in Bodies
        BY <1>2, <1>3, <2>1, Facts DEF Session
      <3>3. cn[x].state \in Loaded => x \notin {d, ch} /\ x \in Bodies
        BY <2>1, <2>3, Facts DEF Session
      <3> QED BY <2>1, <2>3, <3>1, <3>2, <3>3 DEF Session
    <2> QED BY <2>2, <2>3
  <1>8. ASSUME NEW b \in Bodies PROVE Attached(en, D, ed, C, b)
    <2>1. Attached(cn, D, bd, C, b)
      BY DEF Linked
    <2>2. CASE b = ch
      BY <1>2, <2>1, <2>2 DEF Attached
    <2>3. CASE b = d
      BY <1>2, <2>3 DEF Attached
    <2>4. CASE b \notin {d, ch}
      <3>1. ed[b] = bd[b] /\ (bd[b].desc = NoConn \/ bd[b].desc \in Conns) /\ (b \in Mobs \/ b \in Conns)
            /\ b # NoBody
        BY <2>4, BodyFields, Facts DEF Linked, Bodies
      <3>2. b \in C /\ bd[b].desc # NoConn => bd[b].desc # d
        BY <1>2, <2>1, <2>4 DEF Attached
      <3>3. \A e \in Conns : cn[e].original = b => e # d
        BY <1>2, <3>1
      <3> QED BY <2>1, <2>4, <3>1, <3>2, <3>3 DEF Attached
    <2> QED BY <2>2, <2>3, <2>4
  <1>9. OneEach(en, ed, C)
    <2>1. \A x \in Conns : en[x].state \in New => cn[x].state \in New
      BY <1>1, States DEF Loaded
    <2> QED BY <1>4, <1>5, <1>6, <2>1, NamesKept
  <1>10. Follows(cn, bd, en, ed)
    BY <1>1, <1>6 DEF Follows
  <1> QED BY <1>7, <1>8, <1>9, <1>10 DEF Linked

\* The body b of the game, which nobody plays or waits for, is extracted.
LEMMA ExtractMoves ==
  ASSUME NEW cn, NEW D, NEW bd, NEW C, Linked(cn, D, bd, C), NEW b \in C, NEW F, F = C \ {b}, bd[b].desc = NoConn,
         \A x \in Conns : cn[x].original # b,
         NEW ed \in [Bodies -> Body], \A x \in Bodies : x # b => ed[x] = bd[x], ed[b] = Freed
  PROVE  Linked(cn, D, ed, F) /\ Follows(cn, bd, cn, ed)
  <1>1. b \in Bodies /\ b # NoBody
    BY Facts DEF Linked
  <1>2. ASSUME NEW x \in Conns
        PROVE  OwnIn(cn, x) # b /\ (OwnIn(cn, x) = NoBody \/ OwnIn(cn, x) \in Bodies)
    <2>1. Session(cn, D, bd, C, x)
      BY DEF Linked
    <2>2. CASE cn[x].state \in InGame
      BY <2>1, <2>2, Facts DEF Session, OwnIn
    <2>3. CASE cn[x].state \notin InGame
      BY <1>1, <2>1, <2>3, NameOf, States, Facts DEF Session
    <2> QED BY <2>2, <2>3
  <1>3. \A x \in Conns : NameIn(cn, ed, x) = NameIn(cn, bd, x)
    BY <1>2 DEF NameIn
  <1>4. ASSUME NEW x \in Conns PROVE Session(cn, D, ed, F, x)
    <2>1. Session(cn, D, bd, C, x)
      BY DEF Linked
    <2>2. cn[x].state \in InGame => cn[x].character # b /\ cn[x].character \in Bodies
      BY <2>1, Facts DEF Session, Linked
    <2>3. cn[x].state \in InGame /\ cn[x].original # NoBody => cn[x].original \in Bodies
      BY <2>1, Facts DEF Session
    <2>4. cn[x].state \in Loaded => x # b /\ x \in Bodies
      BY <2>1, Facts DEF Session
    <2> QED BY <2>1, <2>2, <2>3, <2>4 DEF Session
  <1>5. ASSUME NEW y \in Bodies PROVE Attached(cn, D, ed, F, y)
    BY DEF Linked, Attached
  <1>6. OneEach(cn, ed, F)
    BY <1>3, NamesKept DEF Linked
  <1>7. Follows(cn, bd, cn, ed)
    BY <1>3 DEF Follows
  <1> QED BY <1>4, <1>5, <1>6, <1>7 DEF Linked

-----------------------------------------------------------------------------
(* What the handlers are made of, on a state s of the pointers. *)

Pointers == [conn : [Conns -> Conn], descs : Seq(Conns), body : [Bodies -> Body], chars : Seq(Bodies)]

Good(s) ==
  /\ s \in Pointers /\ IsInjective(s.descs) /\ IsInjective(s.chars)
  /\ Linked(s.conn, Elements(s.descs), s.body, Elements(s.chars))

Pointing(cn, ds, bd, cs) == [conn |-> cn, descs |-> ds, body |-> bd, chars |-> cs]

\* d is back from c in his own body o.
Back(s, d, o, c, t, cn, bd) ==
  /\ t = Pointing(cn, s.descs, bd, s.chars)
  /\ \A x \in Conns : x # d => cn[x] = s.conn[x]
  /\ cn[d].state = s.conn[d].state /\ cn[d].character = o /\ cn[d].original = NoBody
  /\ \A x \in Bodies : x \notin {o, c} => bd[x] = s.body[x]
  /\ bd[o].desc = d /\ bd[o].owner = s.body[o].owner /\ bd[o].switched = NoBody
  /\ bd[c].desc = NoConn /\ bd[c].owner = s.body[c].owner /\ bd[c].switched = s.body[c].switched

\* What do_return does to the pointers.
LEMMA Returned ==
  ASSUME NEW s \in Pointers, NEW d \in Conns, NEW o \in Bodies, NEW c \in Bodies, o # c,
         d = s.body[c].desc, o = s.conn[d].original
  PROVE  \E cn \in [Conns -> Conn], bd \in [Bodies -> Body] : Back(s, d, o, c, DoReturn(s, c), cn, bd)
  <1>1. /\ s.conn \in [Conns -> Conn] /\ s.body \in [Bodies -> Body]
        /\ s.conn[d] \in Conn /\ s.body[o] \in Body /\ s.body[c] \in Body
    BY DEF Pointers
  <1>2. PICK m : m = [s.conn[d] EXCEPT !.character = o, !.original = NoBody]
    OBVIOUS
  <1>3. PICK p : p = [s.body[o] EXCEPT !.desc = d, !.switched = NoBody]
    OBVIOUS
  <1>4. PICK q : q = [s.body[c] EXCEPT !.desc = NoConn]
    OBVIOUS
  <1> DEFINE cn == [s.conn EXCEPT ![d] = m]
             bd == [s.body EXCEPT ![o] = p, ![c] = q]
  <1>5. m \in Conn /\ m.state = s.conn[d].state /\ m.character = o /\ m.original = NoBody
    BY <1>1, <1>2 DEF Conn
  <1>6. p \in Body /\ p.desc = d /\ p.owner = s.body[o].owner /\ p.switched = NoBody
    BY <1>1, <1>3 DEF Body
  <1>7. q \in Body /\ q.desc = NoConn /\ q.owner = s.body[c].owner /\ q.switched = s.body[c].switched
    BY <1>1, <1>4 DEF Body
  <1>8. DoReturn(s, c) = Pointing(cn, s.descs, bd, s.chars)
    BY <1>1, <1>2, <1>3, <1>4, Facts DEF DoReturn, Pointers, Pointing
  <1>9. cn \in [Conns -> Conn] /\ cn[d] = m /\ \A x \in Conns : x # d => cn[x] = s.conn[x]
    BY <1>1, <1>5
  <1>10. /\ bd \in [Bodies -> Body] /\ bd[o] = p /\ bd[c] = q
         /\ \A x \in Bodies : x \notin {o, c} => bd[x] = s.body[x]
    BY <1>1, <1>6, <1>7
  <1> HIDE DEF cn, bd
  <1> QED BY <1>5, <1>6, <1>7, <1>8, <1>9, <1>10 DEF Back

\* do_return keeps the pointers in order.
LEMMA ReturnGood ==
  ASSUME NEW s, Good(s), NEW d \in Conns, NEW c, c = s.conn[d].character,
         NEW o, o = s.conn[d].original, o # NoBody
  PROVE  /\ Good(DoReturn(s, c))
         /\ Follows(s.conn, s.body, DoReturn(s, c).conn, DoReturn(s, c).body)
         /\ DoReturn(s, c).descs = s.descs /\ DoReturn(s, c).chars = s.chars
         /\ \A x \in Conns : x # d => DoReturn(s, c).conn[x] = s.conn[x]
         /\ DoReturn(s, c).conn[d].state = s.conn[d].state
         /\ DoReturn(s, c).conn[d].character = o /\ DoReturn(s, c).conn[d].original = NoBody
         /\ \A x \in Bodies : x \notin {o, c} => DoReturn(s, c).body[x] = s.body[x]
         /\ \A x \in Bodies : DoReturn(s, c).body[x].owner = s.body[x].owner
         /\ DoReturn(s, c).body[c].desc = NoConn
         /\ s.conn[d].state \in InGame
         /\ c \in Elements(s.chars) /\ o \in Elements(s.chars) /\ o \in Conns /\ o # c
  <1>1. /\ s \in Pointers /\ s.descs \in Seq(Conns) /\ s.chars \in Seq(Bodies)
        /\ Linked(s.conn, Elements(s.descs), s.body, Elements(s.chars))
        /\ IsInjective(s.descs) /\ IsInjective(s.chars)
    BY DEF Good, Pointers
  <1>2. /\ s.conn[d].state \in InGame /\ c \in Bodies /\ c \in Elements(s.chars)
        /\ s.body[c].desc = d /\ o \in Conns /\ o \in Elements(s.chars) /\ s.body[o].desc = NoConn
    BY <1>1, WaitingOf
  <1>3. o \in Bodies /\ c \in Bodies /\ o # c
    BY <1>2, Facts
  <1>4. PICK cn \in [Conns -> Conn], bd \in [Bodies -> Body] : Back(s, d, o, c, DoReturn(s, c), cn, bd)
    BY <1>1, <1>2, <1>3, Returned
  <1>5. /\ Linked(cn, Elements(s.descs), bd, Elements(s.chars)) /\ Follows(s.conn, s.body, cn, bd)
    <2>1. /\ \A x \in Conns : x # d => cn[x] = s.conn[x]
          /\ cn[d].state = s.conn[d].state /\ cn[d].character = o /\ cn[d].original = NoBody
          /\ \A x \in Bodies : x \notin {o, c} => bd[x] = s.body[x]
          /\ bd[o].desc = d /\ bd[o].owner = s.body[o].owner /\ bd[o].switched = NoBody
          /\ bd[c].desc = NoConn /\ bd[c].owner = s.body[c].owner /\ bd[c].switched = s.body[c].switched
      BY <1>4 DEF Back
    <2>2. ASSUME NEW sc, NEW sb, NEW D, NEW C, Linked(sc, D, sb, C), o = sc[d].original, c = sc[d].character,
          \A x \in Conns : x # d => cn[x] = sc[x], cn[d].state = sc[d].state,
          \A x \in Bodies : x \notin {o, c} => bd[x] = sb[x],
          bd[o].owner = sb[o].owner, bd[c].owner = sb[c].owner, bd[c].switched = sb[c].switched
       PROVE Linked(cn, D, bd, C) /\ Follows(sc, sb, cn, bd)
      <3> QED BY <2>1, <2>2, ReturnMoves
    <2> QED BY <1>1, <2>1, <2>2
  <1>6. /\ DoReturn(s, c) \in Pointers /\ DoReturn(s, c).conn = cn /\ DoReturn(s, c).body = bd
        /\ DoReturn(s, c).descs = s.descs /\ DoReturn(s, c).chars = s.chars
    BY <1>1, <1>4 DEF Back, Pointing, Pointers
  <1>7. Good(DoReturn(s, c))
    BY <1>1, <1>5, <1>6 DEF Good
  <1>8. \A x \in Bodies : bd[x].owner = s.body[x].owner
    BY <1>4 DEF Back
  <1> QED BY <1>2, <1>3, <1>4, <1>5, <1>6, <1>7, <1>8 DEF Back

LEMMA ClosedTypes == Closed \in Conn /\ Freed \in Body /\ Closed.character = NoBody /\ Closed.original = NoBody
                     /\ Closed.state = "none"
  BY DEF Closed, Freed, Conn, Body

\* d is closed, ch being his body.
Gone(s, d, ch, t, cn, bd) ==
  /\ t = Pointing(cn, Without(s.descs, d), bd, s.chars)
  /\ cn[d] = Closed
  /\ \A x \in Conns : x # d => cn[x] = s.conn[x]
  /\ ch = NoBody => bd = s.body
  /\ \A x \in Bodies : x # ch => bd[x] = s.body[x]
  /\ ch # NoBody /\ s.conn[d].state \notin InGame => bd[ch] = Freed
  /\ ch # NoBody /\ s.conn[d].state \in InGame =>
                bd[ch].desc = NoConn /\ bd[ch].owner = s.body[ch].owner /\ bd[ch].switched = s.body[ch].switched

\* The rest of close_socket, of a connection that plays its own body or none.
LEMMA Cut ==
  ASSUME NEW s \in Pointers, NEW d \in Conns, s.conn[d].original = NoBody, NEW ch, ch = s.conn[d].character
  PROVE  \E cn \in [Conns -> Conn], bd \in [Bodies -> Body] : Gone(s, d, ch, CloseSocket(s, d), cn, bd)
  <1>1. /\ s.conn \in [Conns -> Conn] /\ s.body \in [Bodies -> Body] /\ s.conn[d] \in Conn
        /\ ch \in Bodies \cup {NoBody}
        /\ ch # NoBody => ch \in Bodies /\ s.body[ch] \in Body
    BY DEF Pointers, Conn
  <1>2. PICK q : q = IF s.conn[d].state \in InGame THEN [s.body[ch] EXCEPT !.desc = NoConn] ELSE Freed
    OBVIOUS
  <1>3. ch # NoBody => /\ q \in Body
                       /\ s.conn[d].state \notin InGame => q = Freed
                       /\ s.conn[d].state \in InGame =>
                            q.desc = NoConn /\ q.owner = s.body[ch].owner /\ q.switched = s.body[ch].switched
    <2>1. ch # NoBody /\ s.conn[d].state \in InGame =>
             q \in Body /\ q.desc = NoConn /\ q.owner = s.body[ch].owner /\ q.switched = s.body[ch].switched
      BY <1>1, <1>2 DEF Body
    <2> QED BY <1>2, <2>1, ClosedTypes
  <1> DEFINE cn == [s.conn EXCEPT ![d] = Closed]
             bd == IF ch = NoBody THEN s.body ELSE [s.body EXCEPT ![ch] = q]
  <1>4. CloseSocket(s, d) = Pointing(cn, Without(s.descs, d), bd, s.chars)
    <2>1. CloseSocket(s, d) =
            [s EXCEPT !.conn[d] = Closed, !.descs = Without(@, d),
                      !.body = IF ch = NoBody THEN @
                               ELSE IF s.conn[d].state \in InGame THEN [@ EXCEPT ![ch].desc = NoConn]
                               ELSE [@ EXCEPT ![ch] = Freed]]
      BY DEF CloseSocket
    <2>2. bd = IF ch = NoBody THEN s.body
               ELSE IF s.conn[d].state \in InGame THEN [s.body EXCEPT ![ch].desc = NoConn]
               ELSE [s.body EXCEPT ![ch] = Freed]
      BY <1>2
    <2>3. CloseSocket(s, d) = [s EXCEPT !.conn = cn, !.descs = Without(s.descs, d), !.body = bd]
      BY <2>1, <2>2
    <2> HIDE DEF cn, bd
    <2> QED BY <2>3 DEF Pointers, Pointing
  <1>5. cn \in [Conns -> Conn] /\ cn[d] = Closed /\ \A x \in Conns : x # d => cn[x] = s.conn[x]
    BY <1>1, ClosedTypes
  <1>6. /\ bd \in [Bodies -> Body]
        /\ ch = NoBody => bd = s.body
        /\ \A x \in Bodies : x # ch => bd[x] = s.body[x]
        /\ ch # NoBody => bd[ch] = q
    BY <1>1, <1>3
  <1> HIDE DEF cn, bd
  <1>7. Gone(s, d, ch, CloseSocket(s, d), cn, bd)
    BY <1>3, <1>4, <1>5, <1>6 DEF Gone
  <1> QED BY <1>5, <1>6, <1>7

\* d is gone from s, and his body link-dead if it was in the game.
CutOff(s, d, t) ==
  /\ Good(t) /\ Follows(s.conn, s.body, t.conn, t.body)
  /\ t.descs = Without(s.descs, d) /\ t.chars = s.chars
  /\ t.conn[d] = Closed
  /\ \A x \in Conns : x # d => t.conn[x] = s.conn[x]
  /\ \A x \in Elements(s.chars) : t.body[x].owner = s.body[x].owner
  /\ \A x \in Bodies \ Elements(s.chars) : x # d => t.body[x] = s.body[x]
  /\ s.conn[d].state \in InGame =>
       /\ t.body[OwnIn(s.conn, d)].desc = NoConn /\ t.body[OwnIn(s.conn, d)].switched = NoBody
       /\ \A x \in Conns : t.conn[x].original # OwnIn(s.conn, d)

\* close_socket of a connection that plays its own body, or none
LEMMA CloseOwn ==
  ASSUME NEW s, Good(s), NEW d \in Conns, s.conn[d].state # "none", s.conn[d].original = NoBody
  PROVE  CutOff(s, d, CloseSocket(s, d))
  <1> DEFINE D == Elements(s.descs)
             C == Elements(s.chars)
  <1>a. PICK ch : ch = s.conn[d].character
    OBVIOUS
  <1>b. PICK t : t = CloseSocket(s, d)
    OBVIOUS
  <1>1. /\ s \in Pointers /\ s.descs \in Seq(Conns) /\ s.chars \in Seq(Bodies)
        /\ Linked(s.conn, D, s.body, C)
        /\ IsInjective(s.descs) /\ IsInjective(s.chars)
    BY DEF Good, Pointers
  <1>2. PICK cn \in [Conns -> Conn], bd \in [Bodies -> Body] : Gone(s, d, ch, t, cn, bd)
    BY <1>a, <1>b, <1>1, Cut
  <1>3. /\ t = Pointing(cn, Without(s.descs, d), bd, s.chars)
        /\ cn[d] = Closed /\ \A x \in Conns : x # d => cn[x] = s.conn[x]
    BY <1>2 DEF Gone
  <1>4. /\ Without(s.descs, d) \in Seq(Conns) /\ Elements(Without(s.descs, d)) = D \ {d}
        /\ IsInjective(Without(s.descs, d))
    BY <1>1, WithoutList
  <1>5. /\ t.conn = cn /\ t.body = bd /\ t.descs = Without(s.descs, d) /\ t.chars = s.chars
        /\ t \in Pointers
    BY <1>1, <1>3, <1>4 DEF Pointing, Pointers
  <1>6. CASE s.conn[d].state \in InGame
    <2>1. ch \in C /\ ch \in Bodies /\ ch # NoBody /\ ch = OwnIn(s.conn, d)
      <3>1. Session(s.conn, D, s.body, C, d)
        BY <1>1 DEF Linked
      <3>2. ch \in C /\ C \subseteq Bodies
        BY <1>a, <1>1, <1>6, <3>1 DEF Session, Linked
      <3> QED BY <1>a, <3>2, Facts DEF OwnIn
    <2>2. /\ \A x \in Bodies : x # ch => bd[x] = s.body[x]
          /\ bd[ch].desc = NoConn /\ bd[ch].owner = s.body[ch].owner /\ bd[ch].switched = s.body[ch].switched
      BY <1>2, <1>6, <2>1 DEF Gone
    <2>3. /\ Linked(cn, D \ {d}, bd, C) /\ Follows(s.conn, s.body, cn, bd)
          /\ ch \in C /\ ch \in Conns /\ s.body[ch].desc = d /\ s.body[ch].switched = NoBody
          /\ \A x \in Conns : cn[x].original # ch
      <3> HIDE DEF D, C
      <3>2. /\ Linked(s.conn, D, s.body, C) /\ s.conn[d].state \in InGame
            /\ s.conn[d].original = NoBody /\ ch = s.conn[d].character
            /\ \A x \in Conns : x # d => cn[x] = s.conn[x]
            /\ \A x \in Bodies : x # ch => bd[x] = s.body[x]
            /\ bd[ch].owner = s.body[ch].owner /\ bd[ch].switched = s.body[ch].switched
        BY <1>a, <1>1, <1>3, <1>6, <2>2
      <3>3. PICK sc : sc = s.conn
        OBVIOUS
      <3>4. PICK sb : sb = s.body
        OBVIOUS
      <3>5. /\ Linked(sc, D, sb, C) /\ sc[d].state \in InGame
            /\ sc[d].original = NoBody /\ ch = sc[d].character
            /\ \A x \in Conns : x # d => cn[x] = sc[x]
            /\ \A x \in Bodies : x # ch => bd[x] = sb[x]
            /\ bd[ch].owner = sb[ch].owner /\ bd[ch].switched = sb[ch].switched
        BY <3>2, <3>3, <3>4
      <3>6. /\ Linked(cn, D \ {d}, bd, C) /\ Follows(sc, sb, cn, bd)
            /\ ch \in C /\ ch \in Conns /\ sb[ch].desc = d /\ sb[ch].switched = NoBody
            /\ \A x \in Conns : cn[x].original # ch
        <4>1. cn[d] = Closed /\ bd[ch].desc = NoConn
          BY <1>3, <2>2
        <4>2. PICK E : E = D \ {d}
          OBVIOUS
        <4>3. /\ Linked(cn, E, bd, C) /\ Follows(sc, sb, cn, bd)
              /\ ch \in C /\ ch \in Conns /\ sb[ch].desc = d /\ sb[ch].switched = NoBody
              /\ \A x \in Conns : cn[x].original # ch
          <5>1. Parted(sc, D, sb, C, d, ch, cn, E, bd)
            BY <1>3, <3>5, <4>1, <4>2 DEF Parted
          <5> QED BY <5>1, CloseMoves
        <4> QED BY <4>2, <4>3
      <3> QED BY <3>6, <3>3, <3>4
    <2>4. Good(t)
      BY <1>1, <1>4, <1>5, <2>3 DEF Good
    <2>5. \A x \in C : bd[x].owner = s.body[x].owner
      BY <1>1, <2>2 DEF Linked
    <2>6. \A x \in Bodies \ C : bd[x] = s.body[x]
      BY <2>1, <2>2
    <2>7. t.body[ch].desc = NoConn /\ t.body[ch].switched = NoBody /\ \A x \in Conns : t.conn[x].original # ch
      BY <1>5, <2>2, <2>3
    <2>8. CutOff(s, d, t)
      BY <1>3, <1>5, <2>1, <2>3, <2>4, <2>5, <2>6, <2>7 DEF CutOff
    <2> QED BY <1>b, <2>8
  <1>7. CASE s.conn[d].state \notin InGame
    <2>1. s.conn[d].state \in Asked \cup Loaded
      BY <1>1, <1>7, States
    <2>2. /\ d \notin C /\ d \in Bodies
          /\ s.conn[d].state \in Asked => ch = NoBody /\ s.body[d] = Freed
          /\ s.conn[d].state \in Loaded => ch = d /\ ch # NoBody
      <3>1. Session(s.conn, D, s.body, C, d) /\ Attached(s.conn, D, s.body, C, d) /\ d \in Bodies /\ d # NoBody
        BY <1>1, Facts DEF Linked
      <3>2. s.conn[d].state \in Asked => s.conn[d].state \notin Loaded
        BY <1>1, States
      <3> QED BY <1>a, <2>1, <3>1, <3>2 DEF Session, Attached
    <2>3. /\ \A x \in Bodies : x # d => bd[x] = s.body[x]
          /\ bd[d] = Freed
      BY <1>2, <1>7, <2>1, <2>2 DEF Gone
    <2>4. Linked(cn, D \ {d}, bd, C) /\ Follows(s.conn, s.body, cn, bd)
      <3>1. ASSUME NEW sc, NEW sb, NEW DD, NEW CC, Linked(sc, DD, sb, CC), sc[d].state \in Asked \cup Loaded,
                   \A x \in Conns : x # d => cn[x] = sc[x],
                   \A x \in Bodies : x # d => bd[x] = sb[x]
            PROVE  Linked(cn, DD \ {d}, bd, CC) /\ Follows(sc, sb, cn, bd)
        BY <1>3, <2>3, <3>1, UnloadMoves, ClosedTypes
      <3> HIDE DEF D, C
      <3> QED BY <1>1, <1>3, <2>1, <2>3, <3>1
    <2>5. Good(t)
      BY <1>1, <1>4, <1>5, <2>4 DEF Good
    <2>6. \A x \in C : bd[x].owner = s.body[x].owner
      BY <1>1, <2>2, <2>3 DEF Linked
    <2>7. \A x \in Bodies \ C : x # d => bd[x] = s.body[x]
      BY <2>3
    <2>8. CutOff(s, d, t)
      BY <1>3, <1>5, <1>7, <2>4, <2>5, <2>6, <2>7 DEF CutOff
    <2> QED BY <1>b, <2>8
  <1> QED BY <1>6, <1>7

\* ... and of any: the player is back in his own body first.
LEMMA CloseGood ==
  ASSUME NEW s, Good(s), NEW d \in Conns, s.conn[d].state # "none"
  PROVE  CutOff(s, d, CloseSocket(s, d))
  <1>1. CASE s.conn[d].original = NoBody
    BY <1>1, CloseOwn
  <1>2. CASE s.conn[d].original # NoBody
    <2> DEFINE c == s.conn[d].character
               o == s.conn[d].original
    <2>1. PICK r : r = DoReturn(s, c)
      OBVIOUS
    <2>2. /\ Good(r) /\ Follows(s.conn, s.body, r.conn, r.body)
          /\ r.descs = s.descs /\ r.chars = s.chars
          /\ \A x \in Conns : x # d => r.conn[x] = s.conn[x]
          /\ r.conn[d].state = s.conn[d].state
          /\ r.conn[d].character = o /\ r.conn[d].original = NoBody
          /\ \A x \in Bodies : x \notin {o, c} => r.body[x] = s.body[x]
          /\ \A x \in Bodies : r.body[x].owner = s.body[x].owner
          /\ s.conn[d].state \in InGame
          /\ c \in Elements(s.chars) /\ o \in Elements(s.chars)
      BY <1>2, <2>1, ReturnGood
    <2>3. CloseSocket(s, d) = CloseSocket(r, d)
      BY <1>2, <2>1, <2>2 DEF CloseSocket
    <2>4. PICK t : t = CloseSocket(s, d)
      OBVIOUS
    <2>5. CutOff(r, d, t)
      BY <2>2, <2>3, <2>4, CloseOwn, States
    <2>6. /\ Good(t) /\ Follows(r.conn, r.body, t.conn, t.body)
          /\ t.descs = Without(s.descs, d) /\ t.chars = s.chars
          /\ t.conn[d] = Closed /\ \A x \in Conns : x # d => t.conn[x] = r.conn[x]
          /\ \A x \in Elements(s.chars) : t.body[x].owner = r.body[x].owner
          /\ \A x \in Bodies \ Elements(s.chars) : x # d => t.body[x] = r.body[x]
          /\ t.body[OwnIn(r.conn, d)].desc = NoConn /\ t.body[OwnIn(r.conn, d)].switched = NoBody
          /\ \A x \in Conns : t.conn[x].original # OwnIn(r.conn, d)
      BY <2>2, <2>5 DEF CutOff
    <2>7. OwnIn(r.conn, d) = OwnIn(s.conn, d)
      BY <1>2, <2>2 DEF OwnIn
    <2>8. Follows(s.conn, s.body, t.conn, t.body)
      <3>1. t.conn[d].state = "none"
        BY <2>6, ClosedTypes
      <3>2. ASSUME NEW x \in Conns, x # d, s.conn[x].state \in InGame
            PROVE  t.conn[x].state = "none" \/ (t.conn[x].state \in InGame /\ NameIn(t.conn, t.body, x) = NameIn(s.conn, s.body, x))
        <4>1. r.conn[x].state \in InGame /\ NameIn(r.conn, r.body, x) = NameIn(s.conn, s.body, x)
          <5>1. r.conn[x].state = s.conn[x].state /\ s.conn[x].state # "none"
            BY <2>2, <3>2 DEF InGame
          <5> QED BY <2>2, <3>2, <5>1 DEF Follows
        <4> QED BY <2>6, <4>1 DEF Follows
      <3> QED BY <3>1, <3>2 DEF Follows
    <2>9. Elements(s.chars) \subseteq Bodies
      BY DEF Good, Linked
    <2>10. \A x \in Elements(s.chars) : t.body[x].owner = s.body[x].owner
      BY <2>2, <2>6, <2>9
    <2>11. \A x \in Bodies \ Elements(s.chars) : x # d => t.body[x] = s.body[x]
      BY <2>2, <2>6
    <2>12. \A x \in Conns : x # d => t.conn[x] = s.conn[x]
      BY <2>2, <2>6
    <2> QED BY <2>4, <2>6, <2>7, <2>8, <2>10, <2>11, <2>12 DEF CutOff
  <1> QED BY <1>1, <1>2

\* b is out of the game.
TakenOut(s, b, t) ==
  Good(t) /\ Follows(s.conn, s.body, t.conn, t.body)

\* The end of extract_char
LEMMA TakeOut ==
  ASSUME NEW s, Good(s), NEW b \in Elements(s.chars), s.body[b].desc = NoConn,
         \A x \in Conns : s.conn[x].original # b,
         NEW t, t = [[s EXCEPT !.chars = Without(@, b)] EXCEPT !.body[b] = Freed]
  PROVE  TakenOut(s, b, t)
  <1> DEFINE D == Elements(s.descs)
             C == Elements(s.chars)
  <1>1. /\ s \in Pointers /\ s.descs \in Seq(Conns) /\ s.chars \in Seq(Bodies)
        /\ s.conn \in [Conns -> Conn] /\ s.body \in [Bodies -> Body]
        /\ Linked(s.conn, D, s.body, C)
        /\ IsInjective(s.descs) /\ IsInjective(s.chars)
    BY DEF Good, Pointers
  <1>2. PICK F : F = C \ {b}
    OBVIOUS
  <1>3. PICK q : q = Without(s.chars, b)
    OBVIOUS
  <1>4. q \in Seq(Bodies) /\ Elements(q) = F /\ IsInjective(q)
    BY <1>1, <1>2, <1>3, WithoutList
  <1>5. PICK bd : bd = [s.body EXCEPT ![b] = Freed]
    OBVIOUS
  <1>6. t = Pointing(s.conn, s.descs, bd, q)
    BY <1>1, <1>3, <1>5 DEF Pointing, Pointers
  <1>7. b \in Bodies
    BY <1>1 DEF Linked
  <1>8. bd \in [Bodies -> Body] /\ bd[b] = Freed /\ \A x \in Bodies : x # b => bd[x] = s.body[x]
    BY <1>1, <1>5, <1>7, ClosedTypes
  <1>9. PICK sc : sc = s.conn
    OBVIOUS
  <1>10. PICK sb : sb = s.body
    OBVIOUS
  <1> HIDE DEF C, D
  <1>11. /\ Linked(sc, D, sb, C) /\ sb[b].desc = NoConn /\ b \in C
         /\ \A x \in Conns : sc[x].original # b
         /\ \A x \in Bodies : x # b => bd[x] = sb[x]
    BY <1>1, <1>8, <1>9, <1>10 DEF C
  <1>12. Linked(sc, D, bd, F) /\ Follows(sc, sb, sc, bd)
    BY <1>2, <1>8, <1>11, ExtractMoves
  <1>13. /\ t \in Pointers /\ t.conn = s.conn /\ t.descs = s.descs /\ t.body = bd /\ t.chars = q
    <2>1. t.conn = s.conn /\ t.descs = s.descs /\ t.body = bd /\ t.chars = q
      BY ONLY <1>6 DEF Pointing
    <2>2. Pointing(s.conn, s.descs, bd, q) \in Pointers
      BY <1>1, <1>4, <1>8 DEF Pointing, Pointers
    <2> QED BY <1>6, <2>1, <2>2
  <1> QED BY <1>1, <1>4, <1>9, <1>10, <1>12, <1>13 DEF TakenOut, Good, D

\* Of a player whom nobody plays, and of a mob.
LEMMA ExtractUnplayed ==
  ASSUME NEW s, Good(s), NEW b \in Elements(s.chars), s.body[b].desc = NoConn,
         \A x \in Conns : s.conn[x].original # b
  PROVE  TakenOut(s, b, Extract(s, b))
  <1>1. s \in Pointers
    BY DEF Good
  <1>2. DoReturn(s, b) = s
    BY DEF DoReturn
  <1>3. Extract(s, b) = [[s EXCEPT !.chars = Without(@, b)] EXCEPT !.body[b] = Freed]
    <2>1. PICK t : t = [s EXCEPT !.chars = Without(@, b)]
      OBVIOUS
    <2>2. Extract(s, b) = [t EXCEPT !.body[b] = Freed]
      BY <1>2, <2>1 DEF Extract
    <2> QED BY <2>1, <2>2
  <1> QED BY <1>3, TakeOut

\* extract_char of a body lent, if to anybody, to one who has his own: he is
\* back there first.
LEMMA ExtractLent ==
  ASSUME NEW s, Good(s), NEW b \in Elements(s.chars), \A x \in Conns : s.conn[x].original # b,
         s.body[b].desc # NoConn => s.conn[s.body[b].desc].original # NoBody
  PROVE  TakenOut(s, b, Extract(s, b))
  <1>1. Linked(s.conn, Elements(s.descs), s.body, Elements(s.chars))
    BY DEF Good
  <1>2. \A x \in Conns : s.conn[x].original # b
    OBVIOUS
  <1>3. CASE s.body[b].desc = NoConn
    BY <1>2, <1>3, ExtractUnplayed
  <1>4. CASE s.body[b].desc # NoConn
    <2>1. PICK d : d = s.body[b].desc
      OBVIOUS
    <2>2. d \in Conns /\ s.conn[d].character = b /\ s.conn[d].state \in InGame
      BY <1>1, <1>4, <2>1, PlayerOf
    <2>3. s.conn[d].original # NoBody
      BY <1>4, <2>1
    <2>4. PICK r : r = DoReturn(s, b)
      OBVIOUS
    <2>5. /\ Good(r) /\ Follows(s.conn, s.body, r.conn, r.body) /\ r.chars = s.chars
          /\ r.body[b].desc = NoConn
          /\ \A x \in Conns : x # d => r.conn[x] = s.conn[x]
          /\ r.conn[d].original = NoBody
      BY <2>2, <2>3, <2>4, ReturnGood
    <2>6. \A x \in Conns : r.conn[x].original # b
      <3>1. b # NoBody
        BY <1>1, Facts DEF Linked
      <3> QED BY <1>2, <2>5, <3>1
    <2>7. Extract(s, b) = Extract(r, b)
      <3>1. DoReturn(r, b) = r
        BY <2>5 DEF DoReturn
      <3> QED BY <2>4, <3>1 DEF Extract
    <2>8. TakenOut(r, b, Extract(r, b))
      BY <2>5, <2>6, ExtractUnplayed
    <2>9. PICK t : t = Extract(r, b)
      OBVIOUS
    <2>10. Good(t) /\ Follows(r.conn, r.body, t.conn, t.body)
      BY <2>8, <2>9 DEF TakenOut
    <2>11. \A x \in Conns : s.conn[x].state \in InGame => r.conn[x].state \in InGame
      BY <2>2, <2>4, <2>5, ReturnGood, <2>3
    <2>12. Follows(s.conn, s.body, t.conn, t.body)
      <3> SUFFICES ASSUME NEW x \in Conns, s.conn[x].state \in InGame
                   PROVE  t.conn[x].state = "none"
                            \/ (t.conn[x].state \in InGame /\ NameIn(t.conn, t.body, x) = NameIn(s.conn, s.body, x))
        BY DEF Follows
      <3>1. r.conn[x].state \in InGame /\ r.conn[x].state # "none"
        BY <2>11 DEF InGame
      <3>2. NameIn(r.conn, r.body, x) = NameIn(s.conn, s.body, x)
        BY <2>5, <3>1 DEF Follows
      <3>3. t.conn[x].state = "none"
              \/ (t.conn[x].state \in InGame /\ NameIn(t.conn, t.body, x) = NameIn(r.conn, r.body, x))
        BY <2>10, <3>1 DEF Follows
      <3> QED BY <3>2, <3>3
    <2> QED BY <2>7, <2>9, <2>10, <2>12 DEF TakenOut
  <1> QED BY <1>3, <1>4

\* A mob is never anybody's own body.
LEMMA ExtractMob ==
  ASSUME NEW s, Good(s), NEW b \in Elements(s.chars), b \in Mobs
  PROVE  TakenOut(s, b, Extract(s, b))
  <1>1. Linked(s.conn, Elements(s.descs), s.body, Elements(s.chars))
    BY DEF Good
  <1>2. \A x \in Conns : s.conn[x].original # b
    BY <1>1, WaitingOf, Facts
  <1>3. s.body[b].desc # NoConn => s.conn[s.body[b].desc].original # NoBody
    BY <1>1, PlayerOf, Facts
  <1> QED BY <1>2, <1>3, ExtractLent

\* extract_char of a player in his own body: his connection goes with him.
LEMMA ExtractOwn ==
  ASSUME NEW s, Good(s), NEW b \in Elements(s.chars), b \in Conns, s.body[b].desc # NoConn,
         s.conn[s.body[b].desc].original = NoBody
  PROVE  TakenOut(s, b, Extract(s, b))
  <1> DEFINE D == Elements(s.descs)
             C == Elements(s.chars)
  <1>1. /\ s \in Pointers /\ s.descs \in Seq(Conns) /\ s.chars \in Seq(Bodies)
        /\ s.conn \in [Conns -> Conn] /\ s.body \in [Bodies -> Body]
        /\ Linked(s.conn, D, s.body, C)
        /\ IsInjective(s.descs) /\ IsInjective(s.chars)
    BY DEF Good, Pointers
  <1>2. PICK d : d = s.body[b].desc
    OBVIOUS
  <1>3. d \in Conns /\ s.conn[d].character = b /\ s.conn[d].state \in InGame /\ s.conn[d].original = NoBody
    BY <1>1, <1>2, PlayerOf
  <1>4. PICK p : p = Without(s.descs, d)
    OBVIOUS
  <1>5. PICK q : q = Without(s.chars, b)
    OBVIOUS
  <1>6. PICK E : E = D \ {d}
    OBVIOUS
  <1>7. PICK F : F = C \ {b}
    OBVIOUS
  <1>8. /\ p \in Seq(Conns) /\ Elements(p) = E /\ IsInjective(p)
        /\ q \in Seq(Bodies) /\ Elements(q) = F /\ IsInjective(q)
    BY <1>1, <1>4, <1>5, <1>6, <1>7, WithoutList
  <1>9. PICK cn : cn = [s.conn EXCEPT ![d] = Closed]
    OBVIOUS
  <1>10. cn \in [Conns -> Conn] /\ cn[d] = Closed /\ \A x \in Conns : x # d => cn[x] = s.conn[x]
    BY <1>1, <1>3, <1>9, ClosedTypes
  <1>11. PICK bd : bd = [s.body EXCEPT ![b] = Freed]
    OBVIOUS
  <1>12. b \in Bodies /\ b # NoBody
    BY Facts
  <1>13. bd \in [Bodies -> Body] /\ bd[b] = Freed /\ \A x \in Bodies : x # b => bd[x] = s.body[x]
    BY <1>1, <1>11, <1>12, ClosedTypes
  <1>14. PICK t : t = Extract(s, b)
    OBVIOUS
  <1>15. t = Pointing(cn, p, bd, q)
    <2>1. DoReturn(s, b) = s
      BY <1>2, <1>3 DEF DoReturn
    <2>2. PICK u : u = [[s EXCEPT !.chars = Without(@, b)] EXCEPT !.conn[d].character = NoBody]
      OBVIOUS
    <2>3. PICK m : m = [s.conn[d] EXCEPT !.character = NoBody]
      OBVIOUS
    <2>4. m \in Conn /\ m.character = NoBody /\ m.original = NoBody
      BY <1>1, <1>3, <2>3 DEF Conn
    <2>5. PICK cu : cu = [s.conn EXCEPT ![d] = m]
      OBVIOUS
    <2>6. u = Pointing(cu, s.descs, s.body, q)
      BY <1>1, <1>5, <2>2, <2>3, <2>5 DEF Pointing, Pointers
    <2>7. cu \in [Conns -> Conn] /\ cu[d] = m
      BY <1>1, <1>3, <2>4, <2>5
    <2>8. u.conn = cu /\ u.descs = s.descs /\ u.body = s.body /\ u.chars = q
      BY <2>6 DEF Pointing
    <2>9. [cu EXCEPT ![d] = Closed] = cn
      BY <1>1, <1>9, <2>5
    <2>10. u.conn[d].original = NoBody /\ u.conn[d].character = NoBody
      BY <2>4, <2>7, <2>8
    <2>11. CloseSocket(u, d) = Pointing(cn, p, s.body, q)
      <3>1. CloseSocket(u, d) = [u EXCEPT !.conn[d] = Closed, !.descs = Without(@, d), !.body = u.body]
        BY <2>10 DEF CloseSocket
      <3>2. CloseSocket(u, d) = [u EXCEPT !.conn = cn, !.descs = p, !.body = u.body]
        BY <1>4, <2>8, <2>9, <3>1
      <3> QED BY ONLY <2>6, <2>8, <3>2 DEF Pointing
    <2>12. t = [CloseSocket(u, d) EXCEPT !.body[b] = Freed]
      <3>1. PICK w : w = [s EXCEPT !.chars = Without(@, b)]
        OBVIOUS
      <3>2. w.conn = s.conn
        BY <1>1, <3>1 DEF Pointers
      <3>3. Extract(s, b) = [CloseSocket([w EXCEPT !.conn[d].character = NoBody], d) EXCEPT !.body[b] = Freed]
        BY <1>2, <1>3, <2>1, <3>1, <3>2 DEF Extract
      <3> QED BY <1>14, <2>2, <3>1, <3>3
    <2> QED BY <1>11, <2>11, <2>12 DEF Pointing
  <1>16. PICK be : be = [s.body EXCEPT ![b].desc = NoConn]
    OBVIOUS
  <1>17. /\ be \in [Bodies -> Body] /\ \A x \in Bodies : x # b => be[x] = s.body[x]
         /\ be[b].desc = NoConn /\ be[b].owner = s.body[b].owner /\ be[b].switched = s.body[b].switched
    <2>1. PICK m : m = [s.body[b] EXCEPT !.desc = NoConn]
      OBVIOUS
    <2>2. s.body[b] \in Body
      BY <1>1, <1>12
    <2>3. m \in Body /\ m.desc = NoConn /\ m.owner = s.body[b].owner /\ m.switched = s.body[b].switched
      BY <2>1, <2>2 DEF Body
    <2>4. be = [s.body EXCEPT ![b] = m]
      BY <1>16, <2>1
    <2> QED BY <1>1, <1>12, <2>3, <2>4
  <1>18. PICK sc : sc = s.conn
    OBVIOUS
  <1>19. PICK sb : sb = s.body
    OBVIOUS
  <1> HIDE DEF C, D
  <1>20. /\ Linked(sc, D, sb, C) /\ sc[d].state \in InGame /\ sc[d].original = NoBody /\ b = sc[d].character
         /\ \A x \in Conns : x # d => cn[x] = sc[x]
         /\ \A x \in Bodies : x # b => be[x] = sb[x]
         /\ be[b].desc = NoConn /\ be[b].owner = sb[b].owner /\ be[b].switched = sb[b].switched
    BY <1>1, <1>3, <1>10, <1>17, <1>18, <1>19
  <1>21. /\ Linked(cn, E, be, C) /\ Follows(sc, sb, cn, be) /\ \A x \in Conns : cn[x].original # b
    <2>1. Parted(sc, D, sb, C, d, b, cn, E, be)
      BY <1>3, <1>6, <1>10, <1>17, <1>20 DEF Parted
    <2> QED BY <2>1, CloseMoves
  <1>22. b \in C /\ be[b].desc = NoConn /\ \A x \in Bodies : x # b => bd[x] = be[x]
    BY <1>13, <1>17 DEF C
  <1>23. Linked(cn, E, bd, F) /\ Follows(cn, be, cn, bd)
    BY <1>7, <1>10, <1>13, <1>17, <1>21, <1>22, ExtractMoves
  <1>24. Follows(sc, sb, cn, bd)
    <2> SUFFICES ASSUME NEW x \in Conns, sc[x].state \in InGame, cn[x].state # "none"
                 PROVE  cn[x].state \in InGame /\ NameIn(cn, bd, x) = NameIn(sc, sb, x)
      BY DEF Follows
    <2>1. cn[x].state \in InGame /\ NameIn(cn, be, x) = NameIn(sc, sb, x)
      BY <1>21 DEF Follows
    <2> QED BY <1>23, <2>1 DEF Follows
  <1>25. t.conn = cn /\ t.descs = p /\ t.body = bd /\ t.chars = q
    BY <1>15 DEF Pointing
  <1>26. t \in Pointers
    BY <1>8, <1>10, <1>13, <1>15 DEF Pointing, Pointers
  <1>27. Good(t) /\ Follows(s.conn, s.body, t.conn, t.body)
    BY <1>8, <1>18, <1>19, <1>23, <1>24, <1>25, <1>26 DEF Good
  <1> QED BY <1>14, <1>27 DEF TakenOut

\* ... and of a player's body whoever plays it
LEMMA ExtractPlayed ==
  ASSUME NEW s, Good(s), NEW b \in Elements(s.chars), b \in Conns, s.body[b].desc # NoConn
  PROVE  TakenOut(s, b, Extract(s, b))
  <1>1. Linked(s.conn, Elements(s.descs), s.body, Elements(s.chars))
    BY DEF Good
  <1>2. \A x \in Conns : s.conn[x].original # b
    BY <1>1, PlayerOf
  <1> QED BY <1>2, ExtractLent, ExtractOwn

-----------------------------------------------------------------------------
(* The actions. *)

Goes == IInv' /\ Follows(conn, body, conn', body')

LEMMA NowGood ==
  ASSUME IInv
  PROVE  /\ Good(Now) /\ Now.conn = conn /\ Now.descs = descs /\ Now.body = body /\ Now.chars = chars
         /\ Linked(conn, Elements(descs), body, Elements(chars))
         /\ conn \in [Conns -> Conn] /\ body \in [Bodies -> Body] /\ descs \in Seq(Conns) /\ chars \in Seq(Bodies)
         /\ IsInjective(descs) /\ IsInjective(chars) /\ FileOK
  <1>1. Now.conn = conn /\ Now.descs = descs /\ Now.body = body /\ Now.chars = chars
    BY DEF Now
  <1>2. /\ conn \in [Conns -> Conn] /\ body \in [Bodies -> Body]
        /\ descs \in Seq(Conns) /\ chars \in Seq(Bodies)
        /\ Linked(conn, Elements(descs), body, Elements(chars))
        /\ IsInjective(descs) /\ IsInjective(chars) /\ FileOK
    BY DEF IInv, Linked
  <1>3. Now \in Pointers
    BY <1>2 DEF Now, Pointers
  <1> QED BY <1>1, <1>2, <1>3 DEF Good

\* A handler whose result is in order keeps the invariant.
LEMMA Becoming ==
  ASSUME NEW s, Good(s), Follows(conn, body, s.conn, s.body), Becomes(s), FileOK'
  PROVE  Goes
  <1>1. /\ s.descs \in Seq(Conns) /\ IsInjective(s.descs) /\ s.chars \in Seq(Bodies) /\ IsInjective(s.chars)
        /\ Linked(s.conn, Elements(s.descs), s.body, Elements(s.chars))
    BY DEF Good, Pointers
  <1>2. conn' = s.conn /\ descs' = s.descs /\ body' = s.body /\ chars' = s.chars
    BY DEF Becomes
  <1> QED BY <1>1, <1>2 DEF Goes, IInv

LEMMA Writing ==
  ASSUME FileOK, NEW names, names \subseteq Names, file' = Written(names, "whole")
  PROVE  FileOK'
  BY DEF FileOK, Written

\* save_char_obj leaves every file whole or as it was.
LEMMA Saving == ASSUME FileOK, NEW n \in Names, Saved(n) PROVE FileOK'
  <1>1. CASE file' = Written({n}, "whole")
    BY <1>1, Writing
  <1>2. CASE file' = file
    BY <1>2 DEF FileOK
  <1> QED BY <1>1, <1>2 DEF Saved

LEMMA NameOfPlayer ==
  ASSUME IInv, NEW d \in Conns, conn[d].state \in InGame
  PROVE  NameOn(d) \in Names /\ NameOn(d) = NameIn(conn, body, d)
  <1>1. Linked(conn, Elements(descs), body, Elements(chars)) /\ body \in [Bodies -> Body]
    BY NowGood
  <1>2. /\ NameIn(conn, body, d) = body[OwnIn(conn, d)].owner /\ NameIn(conn, body, d) # NoName
        /\ OwnIn(conn, d) \in Conns
    BY <1>1, NameOf
  <1> QED BY <1>1, <1>2, NameOnIn, BodyFields, Facts

LEMMA FileKept == ASSUME FileOK, file' = file PROVE FileOK'
  BY DEF FileOK

\* Only the state of d moves.
LEMMA StateStep ==
  ASSUME IInv, NEW d \in Conns, NEW m \in Conn, conn' = [conn EXCEPT ![d] = m],
         m.character = conn[d].character, m.original = conn[d].original,
         \E K \in {Asked, Loaded, InGame} : conn[d].state \in K /\ m.state \in K,
         m.state \in New => conn[d].state \in New \/ Alone(conn, body, Elements(chars), d),
         UNCHANGED <<descs, body, chars, file>>
  PROVE  Goes
  <1>1. /\ conn \in [Conns -> Conn] /\ Linked(conn, Elements(descs), body, Elements(chars))
        /\ descs \in Seq(Conns) /\ chars \in Seq(Bodies) /\ IsInjective(descs) /\ IsInjective(chars) /\ FileOK
    BY NowGood
  <1>2. PICK en : en = [conn EXCEPT ![d] = m]
    OBVIOUS
  <1>3. en \in [Conns -> Conn] /\ en[d] = m /\ \A x \in Conns : x # d => en[x] = conn[x]
    BY <1>1, <1>2
  <1>4. PICK D : D = Elements(descs)
    OBVIOUS
  <1>5. PICK C : C = Elements(chars)
    OBVIOUS
  <1>6. Linked(en, D, body, C) /\ Follows(conn, body, en, body)
    BY <1>1, <1>3, <1>4, <1>5, StateMoves
  <1>7. conn' = en /\ descs' = descs /\ body' = body /\ chars' = chars /\ FileOK'
    BY <1>1, <1>2, FileKept
  <1> QED BY <1>1, <1>4, <1>5, <1>6, <1>7 DEF Goes, IInv

LEMMA DoAskForNew == ASSUME IInv, NEW d \in Conns, AskForNew(d) PROVE Goes
  <1>1. conn \in [Conns -> Conn]
    BY NowGood
  <1>2. PICK m : m = [conn[d] EXCEPT !.state = "newname"]
    OBVIOUS
  <1>3. m \in Conn /\ m.character = conn[d].character /\ m.original = conn[d].original /\ m.state = "newname"
    BY <1>1, <1>2 DEF Conn, LoggingIn
  <1>4. conn' = [conn EXCEPT ![d] = m] /\ conn[d].state = "name" /\ UNCHANGED <<descs, body, chars, file>>
    BY <1>2 DEF AskForNew
  <1>5. conn[d].state \in Asked /\ m.state \in Asked /\ m.state \notin New
    BY <1>3, <1>4 DEF Asked, New
  <1> QED BY <1>3, <1>4, <1>5, StateStep

LEMMA DoCreate == ASSUME IInv, NEW d \in Conns, Create(d) PROVE Goes
  <1>1. conn \in [Conns -> Conn]
    BY NowGood
  <1>2. PICK m : m = [conn[d] EXCEPT !.state = "motd"]
    OBVIOUS
  <1>3. m \in Conn /\ m.character = conn[d].character /\ m.original = conn[d].original /\ m.state = "motd"
    BY <1>1, <1>2 DEF Conn, LoggingIn
  <1>4. conn' = [conn EXCEPT ![d] = m] /\ conn[d].state = "creating" /\ UNCHANGED <<descs, body, chars, file>>
    BY <1>2 DEF Create
  <1>5. conn[d].state \in Loaded /\ m.state \in Loaded /\ conn[d].state \in New
    BY <1>3, <1>4 DEF Loaded, New
  <1> QED BY <1>3, <1>4, <1>5, StateStep

\* Between the states of one who is in the game
LEMMA PlayStep ==
  ASSUME IInv, NEW d \in Conns, NEW m, m \in Conn, m.character = conn[d].character, m.original = conn[d].original,
         conn[d].state \in InGame, m.state \in InGame, conn' = [conn EXCEPT ![d] = m],
         UNCHANGED <<descs, body, chars, file>>
  PROVE  Goes
  <1>1. m.state \notin New
    BY DEF InGame, New
  <1> QED BY <1>1, StateStep

LEMMA DoModes ==
  ASSUME IInv, ~ amiss', NEW d \in Conns, StartMode(d) \/ EndMode(d) \/ ChangePassword(d)
  PROVE  Goes
  <1>1. conn \in [Conns -> Conn] /\ conn[d] \in Conn
    BY NowGood
  <1>2. CASE StartMode(d)
    <2>1. PICK m : m = [conn[d] EXCEPT !.state = "mode", !.work = TRUE]
      OBVIOUS
    <2>2. m \in Conn /\ m.character = conn[d].character /\ m.original = conn[d].original /\ m.state \in InGame
      BY <1>1, <2>1 DEF Conn, InGame
    <2>3. conn' = [conn EXCEPT ![d] = m] /\ conn[d].state \in InGame /\ UNCHANGED <<descs, body, chars, file>>
      BY <1>1, <1>2, <2>1 DEF StartMode, InBody, Playing, InGame
    <2> QED BY <2>2, <2>3, PlayStep
  <1>3. CASE EndMode(d)
    <2>1. PICK m : m = [conn[d] EXCEPT !.state = "playing", !.work = FALSE]
      OBVIOUS
    <2>2. m \in Conn /\ m.character = conn[d].character /\ m.original = conn[d].original /\ m.state \in InGame
      BY <1>1, <2>1 DEF Conn, InGame
    <2>3. conn' = [conn EXCEPT ![d] = m] /\ conn[d].state \in InGame /\ UNCHANGED <<descs, body, chars, file>>
      BY <1>1, <1>3, <2>1 DEF EndMode, InGame
    <2> QED BY <2>2, <2>3, PlayStep
  <1>4. CASE ChangePassword(d)
    <2>1. PICK st \in {"changing", "playing"} : conn' = [conn EXCEPT ![d].state = st] /\ conn[d].state \in InGame
      BY <1>4 DEF ChangePassword, InBody, Playing, InGame
    <2>2. PICK m : m = [conn[d] EXCEPT !.state = st]
      OBVIOUS
    <2>3. m \in Conn /\ m.character = conn[d].character /\ m.original = conn[d].original /\ m.state \in InGame
      BY <1>1, <2>2 DEF Conn, InGame
    <2>4. conn' = [conn EXCEPT ![d] = m] /\ UNCHANGED <<descs, body, chars, file>>
      BY <1>4, <2>1, <2>2 DEF ChangePassword
    <2> QED BY <2>1, <2>3, <2>4, PlayStep
  <1> QED BY <1>2, <1>3, <1>4

LEMMA DoConnect == ASSUME IInv, NEW d \in Conns, Connect(d) PROVE Goes
  <1>1. /\ conn \in [Conns -> Conn] /\ Linked(conn, Elements(descs), body, Elements(chars))
        /\ descs \in Seq(Conns) /\ chars \in Seq(Bodies) /\ IsInjective(descs) /\ IsInjective(chars) /\ FileOK
    BY NowGood
  <1>2. PICK en : en = [conn EXCEPT ![d].state = "name"]
    OBVIOUS
  <1>3. /\ conn[d] = Closed /\ d \notin Elements(chars) /\ conn' = en /\ descs' = Append(descs, d)
        /\ body' = body /\ chars' = chars /\ file' = file
    BY <1>2 DEF Connect
  <1>4. PICK m : m = [Closed EXCEPT !.state = "name"]
    OBVIOUS
  <1>5. m \in Conn /\ m.state = "name" /\ m.character = NoBody /\ m.original = NoBody
    BY <1>4 DEF Conn, Closed, LoggingIn
  <1>6. en = [conn EXCEPT ![d] = m]
    BY <1>2, <1>3, <1>4
  <1>7. en \in [Conns -> Conn] /\ en[d] = m /\ \A x \in Conns : x # d => en[x] = conn[x]
    BY <1>1, <1>5, <1>6
  <1>8. PICK D : D = Elements(descs)
    OBVIOUS
  <1>9. PICK C : C = Elements(chars)
    OBVIOUS
  <1>10. PICK E : E = D \cup {d}
    OBVIOUS
  <1>11. Linked(en, E, body, C) /\ Follows(conn, body, en, body)
    BY <1>1, <1>3, <1>5, <1>7, <1>8, <1>9, <1>10, ConnectMoves
  <1>12. d \notin Elements(descs)
    <2>1. Session(conn, Elements(descs), body, Elements(chars), d)
      BY <1>1 DEF Linked
    <2> QED BY <1>3, <2>1, ClosedTypes DEF Session
  <1>13. descs' \in Seq(Conns) /\ Elements(descs') = E /\ IsInjective(descs')
    BY <1>1, <1>3, <1>8, <1>10, <1>12, AppendList
  <1>14. FileOK'
    BY <1>1, <1>3, FileKept
  <1> QED BY <1>1, <1>3, <1>9, <1>11, <1>13, <1>14 DEF Goes, IInv

\* The others of that name
LEMMA RivalsOf ==
  ASSUME IInv, NEW d \in Conns, NEW n
  PROVE  /\ Rivals(d, n) \in Seq(Conns)
         /\ \A e : e \in Elements(Rivals(d, n)) <=> e \in Elements(descs) /\ e \in Conns /\ e # d /\ NameOn(e) = n
         /\ Rivals(d, n) # <<>> => Head(Rivals(d, n)) \in Elements(Rivals(d, n))
         /\ n # NoName /\ Rivals(d, n) = <<>> =>
               \A e \in Conns \ {d} : NameIn(conn, body, e) # n
  <1>1. descs \in Seq(Conns) /\ Linked(conn, Elements(descs), body, Elements(chars))
    BY NowGood
  <1>2. /\ Rivals(d, n) \in Seq(Conns)
        /\ \A e : e \in Elements(Rivals(d, n)) <=>
                    e \in Elements(descs) /\ e \in {x \in Conns \ {d} : NameOn(x) = n}
    BY <1>1, OnlyList DEF Rivals
  <1>3. Rivals(d, n) # <<>> => Head(Rivals(d, n)) \in Elements(Rivals(d, n))
    BY <1>2, FirstOfList
  <1>4. ASSUME n # NoName, Rivals(d, n) = <<>>, NEW e \in Conns \ {d}, NameIn(conn, body, e) = n
        PROVE  FALSE
    <2>1. e \notin Elements(Rivals(d, n))
      BY <1>2, <1>4, EmptyList
    <2>2. e \notin Elements(descs)
      BY <1>2, <1>4, <2>1, NameOnIn
    <2>3. conn[e].state = "none"
      <3>1. Session(conn, Elements(descs), body, Elements(chars), e)
        BY <1>1 DEF Linked
      <3> QED BY <2>2, <3>1 DEF Session
    <2> QED BY <1>1, <1>4, <2>3, NameOf
  <1> QED BY <1>2, <1>3, <1>4

\* A name that is free is no newcomer's.
LEMMA FreeName ==
  ASSUME IInv, NEW d \in Conns, NEW n \in Names, NameFree(d, n), conn[d].state \in Asked
  PROVE  \A e \in Conns : conn[e].state \in New => NameIn(conn, body, e) # n
  <1> SUFFICES ASSUME NEW e \in Conns, conn[e].state \in New, NameIn(conn, body, e) = n PROVE FALSE
    OBVIOUS
  <1>1. Linked(conn, Elements(descs), body, Elements(chars)) /\ descs \in Seq(Conns)
    BY NowGood
  <1>2. e # d /\ n # NoName
    BY Facts, States, <1>1 DEF Loaded, New, Asked
  <1>3. Rivals(d, n) # <<>>
    BY <1>2, RivalsOf
  <1>4. PICK h : h = Head(Rivals(d, n))
    OBVIOUS
  <1>5. h \in Conns /\ h # d /\ NameIn(conn, body, h) = n /\ conn[h].state \in InGame
    BY <1>3, <1>4, RivalsOf, NameOnIn DEF NameFree
  <1>6. h # e
    BY <1>1, <1>5, States DEF Loaded
  <1>7. Alone(conn, body, Elements(chars), e)
    BY <1>1 DEF Linked, OneEach
  <1> QED BY <1>5, <1>6, <1>7 DEF Alone

LEMMA DoEnterName == ASSUME IInv, NEW d \in Conns, NEW n \in Names, EnterName(d, n) PROVE Goes
  <1>1. /\ conn \in [Conns -> Conn] /\ Linked(conn, Elements(descs), body, Elements(chars))
        /\ body \in [Bodies -> Body]
        /\ descs \in Seq(Conns) /\ chars \in Seq(Bodies) /\ IsInjective(descs) /\ IsInjective(chars) /\ FileOK
    BY NowGood
  <1>2. PICK st \in {"password", "confirm"} :
          /\ conn' = [conn EXCEPT ![d].state = st, ![d].character = d]
          /\ conn[d].state \in Asked
          /\ st = "confirm" => ~ (n \in DOMAIN file \/ \E b \in Elements(chars) : body[b].owner = n)
    BY DEF EnterName, Asked
  <1>3. PICK p : p = [owner |-> n, desc |-> d, switched |-> NoBody]
    OBVIOUS
  <1>4. PICK ed : ed = [body EXCEPT ![d] = p]
    OBVIOUS
  <1>5. body' = ed /\ descs' = descs /\ chars' = chars /\ file' = file /\ NameFree(d, n)
    BY <1>3, <1>4 DEF EnterName
  <1>6. PICK m : m = [conn[d] EXCEPT !.state = st, !.character = d]
    OBVIOUS
  <1>7. PICK en : en = [conn EXCEPT ![d] = m]
    OBVIOUS
  <1>8. conn' = en
    BY <1>2, <1>6, <1>7
  <1>9. conn[d].original = NoBody
    BY <1>1, <1>2, NameOf
  <1>10. m \in Conn /\ m.state = st /\ m.character = d /\ m.original = NoBody
    <2>1. conn[d] \in Conn /\ d \in Bodies
      BY <1>1, Facts
    <2> QED BY <1>6, <1>9, <2>1 DEF Conn, LoggingIn
  <1>11. en \in [Conns -> Conn] /\ en[d] = m /\ \A x \in Conns : x # d => en[x] = conn[x]
    BY <1>1, <1>7, <1>10
  <1>12. ed \in [Bodies -> Body] /\ ed[d] = p /\ \A x \in Bodies : x # d => ed[x] = body[x]
    <2>1. p \in Body /\ d \in Bodies
      BY <1>3, Facts DEF Body
    <2> QED BY <1>1, <1>4, <2>1
  <1>13. \A e \in Conns : conn[e].state \in New => NameIn(conn, body, e) # n
    BY <1>2, <1>5, FreeName
  <1>14. PICK D : D = Elements(descs)
    OBVIOUS
  <1>15. PICK C : C = Elements(chars)
    OBVIOUS
  <1>16. ASSUME st = "confirm"
         PROVE  /\ \A e \in Conns \ {d} : NameIn(conn, body, e) # n
                /\ \A b \in C : body[b].owner # n
    <2>1. \A b \in C : body[b].owner # n
      BY <1>2, <1>15, <1>16
    <2>2. Rivals(d, n) = <<>>
      <3> SUFFICES ASSUME Rivals(d, n) # <<>> PROVE FALSE
        OBVIOUS
      <3>1. PICK h : h = Head(Rivals(d, n))
        OBVIOUS
      <3>2. h \in Conns /\ NameIn(conn, body, h) = n /\ conn[h].state \in InGame
        BY <1>5, <3>1, RivalsOf, NameOnIn DEF NameFree
      <3>3. OwnIn(conn, h) \in C /\ body[OwnIn(conn, h)].owner = n
        BY <1>1, <1>15, <3>2, NameOf
      <3> QED BY <2>1, <3>3
    <2> QED BY <2>1, <2>2, RivalsOf, Facts
  <1>17. /\ en[d].state \in {"password", "confirm"} /\ en[d].character = d /\ en[d].original = NoBody
         /\ en[d].state = "confirm" =>
              /\ \A e \in Conns \ {d} : NameIn(conn, body, e) # n
              /\ \A b \in C : body[b].owner # n
    BY <1>10, <1>11, <1>16
  <1>18. Linked(en, D, ed, C) /\ Follows(conn, body, en, ed)
    <2>1. Linked(conn, D, body, C) /\ ed[d] = [owner |-> n, desc |-> d, switched |-> NoBody]
      BY <1>1, <1>3, <1>12, <1>14, <1>15
    <2> QED BY <1>2, <1>11, <1>12, <1>13, <1>17, <2>1, LoadMoves
  <1>19. FileOK'
    BY <1>1, <1>5, FileKept
  <1> QED BY <1>1, <1>5, <1>8, <1>14, <1>15, <1>18, <1>19 DEF Goes, IInv

LEMMA DoConfirmName == ASSUME IInv, NEW d \in Conns, NEW yes \in BOOLEAN, ConfirmName(d, yes) PROVE Goes
  <1>1. /\ conn \in [Conns -> Conn] /\ Linked(conn, Elements(descs), body, Elements(chars))
        /\ body \in [Bodies -> Body]
        /\ descs \in Seq(Conns) /\ chars \in Seq(Bodies) /\ IsInjective(descs) /\ IsInjective(chars) /\ FileOK
    BY NowGood
  <1>2. conn[d].state = "confirm" /\ descs' = descs /\ chars' = chars /\ file' = file
    BY DEF ConfirmName
  <1>3. conn[d].state \in Loaded /\ conn[d].state \in New
    BY <1>2 DEF Loaded, New
  <1>4. CASE yes
    <2>1. PICK m : m = [conn[d] EXCEPT !.state = "creating"]
      OBVIOUS
    <2>2. m \in Conn /\ m.character = conn[d].character /\ m.original = conn[d].original /\ m.state = "creating"
      BY <1>1, <2>1 DEF Conn, LoggingIn
    <2>3. conn' = [conn EXCEPT ![d] = m] /\ UNCHANGED <<descs, body, chars, file>>
      BY <1>4, <2>1 DEF ConfirmName
    <2>4. m.state \in Loaded
      BY <2>2 DEF Loaded, New
    <2> QED BY <1>3, <2>2, <2>3, <2>4, StateStep
  <1>5. CASE ~ yes
    <2>1. PICK m : m = [conn[d] EXCEPT !.state = "newname", !.character = NoBody]
      OBVIOUS
    <2>2. conn[d].original = NoBody
      <3>1. Session(conn, Elements(descs), body, Elements(chars), d)
        BY <1>1 DEF Linked
      <3> QED BY <1>3, <3>1 DEF Session
    <2>3. m \in Conn /\ m.character = NoBody /\ m.original = NoBody /\ m.state \in Asked
      BY <1>1, <2>1, <2>2 DEF Conn, LoggingIn, Asked
    <2>4. PICK en : en = [conn EXCEPT ![d] = m]
      OBVIOUS
    <2>5. PICK ed : ed = [body EXCEPT ![d] = Freed]
      OBVIOUS
    <2>6. conn' = en /\ body' = ed
      BY <1>5, <2>1, <2>4, <2>5 DEF ConfirmName
    <2>7. en \in [Conns -> Conn] /\ en[d] = m /\ \A x \in Conns : x # d => en[x] = conn[x]
      BY <1>1, <2>3, <2>4
    <2>8. ed \in [Bodies -> Body] /\ ed[d] = Freed /\ \A x \in Bodies : x # d => ed[x] = body[x]
      BY <1>1, <2>5, Facts, ClosedTypes
    <2>9. PICK D : D = Elements(descs)
      OBVIOUS
    <2>10. PICK C : C = Elements(chars)
      OBVIOUS
    <2>11. Linked(en, D, ed, C) /\ Follows(conn, body, en, ed)
      <3>1. /\ Linked(conn, D, body, C) /\ conn[d].state \in Asked \cup Loaded /\ en[d].state \in Asked
            /\ en[d].character = NoBody /\ en[d].original = NoBody
        BY <1>1, <1>3, <2>3, <2>7, <2>9, <2>10
      <3> QED BY <2>7, <2>8, <3>1, UnloadMoves
    <2>12. FileOK'
      BY <1>1, <1>2, FileKept
    <2> QED BY <1>1, <1>2, <2>6, <2>9, <2>10, <2>11, <2>12 DEF Goes, IInv
  <1> QED BY <1>4, <1>5

LEMMA DoEnterGame == ASSUME IInv, NEW d \in Conns, EnterGame(d) PROVE Goes
  <1>1. /\ conn \in [Conns -> Conn] /\ Linked(conn, Elements(descs), body, Elements(chars))
        /\ descs \in Seq(Conns) /\ chars \in Seq(Bodies) /\ IsInjective(descs) /\ IsInjective(chars) /\ FileOK
    BY NowGood
  <1>2. PICK m : m = [conn[d] EXCEPT !.state = "playing"]
    OBVIOUS
  <1>3. m \in Conn /\ m.state = "playing" /\ m.character = conn[d].character /\ m.original = conn[d].original
    BY <1>1, <1>2 DEF Conn, InGame
  <1>4. PICK en : en = [conn EXCEPT ![d] = m]
    OBVIOUS
  <1>5. /\ conn[d].state = "motd" /\ conn' = en /\ chars' = Append(chars, conn[d].character)
        /\ body' = body /\ descs' = descs /\ file' = file
    BY <1>2, <1>4 DEF EnterGame
  <1>6. en \in [Conns -> Conn] /\ en[d] = m /\ \A x \in Conns : x # d => en[x] = conn[x]
    BY <1>1, <1>3, <1>4
  <1>7. PICK D : D = Elements(descs)
    OBVIOUS
  <1>8. PICK C : C = Elements(chars)
    OBVIOUS
  <1>9. PICK F : F = C \cup {d}
    OBVIOUS
  <1>10. /\ Linked(en, D, body, F) /\ Follows(conn, body, en, body)
         /\ conn[d].character = d /\ d \notin C
    <2>1. /\ Linked(conn, D, body, C) /\ conn[d].state = "motd" /\ en[d].state = "playing"
          /\ en[d].character = conn[d].character /\ en[d].original = conn[d].original
      BY <1>1, <1>3, <1>5, <1>6, <1>7, <1>8
    <2> QED BY <1>6, <1>9, <2>1, EnterMoves
  <1>11. chars' \in Seq(Bodies) /\ Elements(chars') = F /\ IsInjective(chars')
    <2>1. chars' = Append(chars, d) /\ d \in Bodies
      BY <1>5, <1>10, Facts
    <2> QED BY <1>1, <1>8, <1>9, <1>10, <2>1, AppendList
  <1>12. FileOK'
    BY <1>1, <1>5, FileKept
  <1> QED BY <1>1, <1>5, <1>7, <1>10, <1>11, <1>12 DEF Goes, IInv

\* The bodies of a name without a connection
LEMMA LinkDeadOf ==
  ASSUME IInv, NEW n
  PROVE  /\ LinkDead(n) \in Seq(Bodies)
         /\ \A b : b \in Elements(LinkDead(n)) <=>
              b \in Elements(chars) /\ b \in Bodies /\ body[b].owner = n /\ body[b].desc = NoConn
         /\ LinkDead(n) # <<>> => Head(LinkDead(n)) \in Elements(LinkDead(n))
         /\ LinkDead(n) = <<>> => \A b \in Elements(chars) : body[b].owner = n => body[b].desc # NoConn
  <1>1. chars \in Seq(Bodies) /\ Elements(chars) \subseteq Bodies
    BY NowGood DEF Linked
  <1>2. /\ LinkDead(n) \in Seq(Bodies)
        /\ \A b : b \in Elements(LinkDead(n)) <=>
             b \in Elements(chars) /\ b \in {x \in Bodies : body[x].owner = n /\ body[x].desc = NoConn}
    BY <1>1, OnlyList DEF LinkDead
  <1>3. LinkDead(n) # <<>> => Head(LinkDead(n)) \in Elements(LinkDead(n))
    BY <1>2, FirstOfList
  <1>4. LinkDead(n) = <<>> => \A b : b \notin Elements(LinkDead(n))
    BY <1>2, EmptyList
  <1> QED BY <1>1, <1>2, <1>3, <1>4

LEMMA DoReload == ASSUME IInv, ~ amiss', NEW d \in Conns, Reload(d) PROVE Goes
  <1>1. /\ conn \in [Conns -> Conn] /\ Linked(conn, Elements(descs), body, Elements(chars))
    BY NowGood
  <1>2. PICK C : C = Elements(chars)
    OBVIOUS
  <1>3. PICK n : n = NameOn(d)
    OBVIOUS
  <1>4. PICK m : m = [conn[d] EXCEPT !.state = "motd"]
    OBVIOUS
  <1>5. m \in Conn /\ m.state = "motd" /\ m.character = conn[d].character /\ m.original = conn[d].original
    BY <1>1, <1>4 DEF Conn, LoggingIn
  <1>6. /\ conn[d].state = "password" /\ conn' = [conn EXCEPT ![d] = m]
        /\ UNCHANGED <<descs, body, chars, file>>
        /\ Rivals(d, n) = <<>> /\ LinkDead(n) = <<>>
        /\ \A b \in C : body[b].owner = n => ~ Possessed(b)
    BY <1>2, <1>3, <1>4 DEF Reload
  <1>7. conn[d].state \in Loaded /\ m.state \in Loaded /\ conn[d].state \notin InGame
    BY <1>5, <1>6 DEF Loaded, New, InGame
  <1>8. n = NameIn(conn, body, d) /\ n # NoName
    BY <1>1, <1>3, <1>7, NameOf, NameOnIn
  <1>9. \A e \in Conns \ {d} : NameIn(conn, body, e) # n
    BY <1>6, <1>8, RivalsOf
  <1>10. ASSUME NEW b \in C, body[b].owner = n PROVE FALSE
    <2>1. body[b].desc # NoConn
      BY <1>2, <1>6, <1>10, LinkDeadOf
    <2>2. b \in Conns
      <3>1. Attached(conn, Elements(descs), body, C, b)
        BY <1>1, <1>2 DEF Linked
      <3> QED BY <1>8, <1>10, <3>1 DEF Attached
    <2>3. PICK e : e = body[b].desc
      OBVIOUS
    <2>4. e \in Conns /\ conn[e].state \in InGame /\ OwnIn(conn, e) = b
      <3>1. /\ e \in Conns /\ conn[e].state \in InGame /\ conn[e].character = b
            /\ conn[e].original = NoBody => OwnIn(conn, e) = b
        BY <1>1, <1>2, <2>1, <2>3, PlayerOf
      <3>2. conn[e].original = NoBody
        BY <1>6, <1>10, <3>1 DEF Possessed
      <3> QED BY <3>1, <3>2
    <2>5. NameIn(conn, body, e) = n
      BY <1>1, <1>10, <2>4, NameOf
    <2> QED BY <1>7, <1>9, <2>4, <2>5
  <1>11. Alone(conn, body, Elements(chars), d)
    BY <1>2, <1>8, <1>9, <1>10 DEF Alone
  <1> QED BY <1>5, <1>6, <1>7, <1>11, StateStep

LEMMA DoSave == ASSUME IInv, NEW d \in Conns, Save(d) PROVE Goes
  <1>1. Good(Now) /\ FileOK /\ Now.conn = conn /\ Now.body = body
    BY NowGood
  <1>2. conn[d].state \in InGame /\ file' = Written({NameOn(d)}, "whole") /\ UNCHANGED <<conn, descs, body, chars>>
    BY DEF Save, InBody, Playing, InGame
  <1>3. FileOK'
    BY <1>1, <1>2, NameOfPlayer, Writing
  <1>4. Becomes(Now)
    BY <1>2 DEF Becomes, Now
  <1>5. Follows(conn, body, Now.conn, Now.body)
    BY <1>1 DEF Follows
  <1> QED BY <1>1, <1>3, <1>4, <1>5, Becoming

LEMMA DoSwitch == ASSUME IInv, ~ amiss', NEW d \in Conns, NEW v \in Bodies, Switch(d, v) PROVE Goes
  <1>1. /\ conn \in [Conns -> Conn] /\ Linked(conn, Elements(descs), body, Elements(chars))
        /\ body \in [Bodies -> Body]
        /\ descs \in Seq(Conns) /\ chars \in Seq(Bodies) /\ IsInjective(descs) /\ IsInjective(chars) /\ FileOK
    BY NowGood
  <1>2. PICK ch : ch = conn[d].character
    OBVIOUS
  <1>3. /\ conn[d].state \in InGame /\ conn[d].original = NoBody /\ v \in Elements(chars)
        /\ v # ch /\ body[v].desc = NoConn /\ \A x \in Conns : conn[x].original # v
        /\ descs' = descs /\ chars' = chars /\ file' = file
        /\ conn' = [conn EXCEPT ![d].character = v, ![d].original = ch]
        /\ body' = [body EXCEPT ![v].desc = d, ![ch].desc = NoConn, ![ch].switched = v]
    <2>1. \A x \in Conns : conn[x].original # v
      BY DEF Switch, Away
    <2> QED BY <1>2, <2>1 DEF Switch, Target, Playing, InGame
  <1>4. ch \in Bodies
    <2>1. Session(conn, Elements(descs), body, Elements(chars), d)
      BY <1>1 DEF Linked
    <2>2. ch \in Elements(chars) /\ Elements(chars) \subseteq Bodies
      BY <1>1, <1>2, <1>3, <2>1 DEF Session, Linked
    <2> QED BY <2>2
  <1>5. PICK m : m = [conn[d] EXCEPT !.character = v, !.original = ch]
    OBVIOUS
  <1>6. m \in Conn /\ m.state = conn[d].state /\ m.character = v /\ m.original = ch
    BY <1>1, <1>4, <1>5 DEF Conn
  <1>7. PICK en : en = [conn EXCEPT ![d] = m]
    OBVIOUS
  <1>8. conn' = en
    BY <1>1, <1>3, <1>5, <1>7
  <1>9. en \in [Conns -> Conn] /\ en[d] = m /\ \A x \in Conns : x # d => en[x] = conn[x]
    BY <1>1, <1>6, <1>7
  <1>10. PICK p : p = [body[v] EXCEPT !.desc = d]
    OBVIOUS
  <1>11. p \in Body /\ p.desc = d /\ p.owner = body[v].owner /\ p.switched = body[v].switched
    BY <1>1, <1>10 DEF Body
  <1>12. PICK q : q = [body[ch] EXCEPT !.desc = NoConn, !.switched = v]
    OBVIOUS
  <1>13. q \in Body /\ q.desc = NoConn /\ q.owner = body[ch].owner /\ q.switched = v
    BY <1>1, <1>4, <1>12 DEF Body
  <1>14. PICK ed : ed = [body EXCEPT ![v] = p, ![ch] = q]
    OBVIOUS
  <1>15. body' = ed
    BY <1>1, <1>3, <1>4, <1>10, <1>12, <1>14
  <1>16. /\ ed \in [Bodies -> Body] /\ ed[v] = p /\ ed[ch] = q
         /\ \A x \in Bodies : x \notin {v, ch} => ed[x] = body[x]
    BY <1>1, <1>3, <1>4, <1>11, <1>13, <1>14
  <1>17. PICK D : D = Elements(descs)
    OBVIOUS
  <1>18. PICK C : C = Elements(chars)
    OBVIOUS
  <1>19. Linked(en, D, ed, C) /\ Follows(conn, body, en, ed)
    <2>1. /\ Linked(conn, D, body, C) /\ v \in C /\ ch = conn[d].character /\ \A x \in Conns : conn[x].original # v
          /\ conn[d].state \in InGame /\ conn[d].original = NoBody /\ body[v].desc = NoConn
          /\ en[d].state = conn[d].state /\ en[d].character = v /\ en[d].original = ch
          /\ ed[v].desc = d /\ ed[v].owner = body[v].owner /\ ed[v].switched = body[v].switched
          /\ ed[ch].desc = NoConn /\ ed[ch].owner = body[ch].owner /\ ed[ch].switched = v
      BY <1>1, <1>2, <1>3, <1>6, <1>9, <1>11, <1>13, <1>16, <1>17, <1>18
    <2> QED BY <1>9, <1>16, <2>1, SwitchMoves
  <1>20. FileOK'
    BY <1>1, <1>3, FileKept
  <1> QED BY <1>1, <1>3, <1>8, <1>15, <1>17, <1>18, <1>19, <1>20 DEF Goes, IInv

LEMMA DoReturnStep == ASSUME IInv, NEW d \in Conns, Return(d) PROVE Goes
  <1>1. Good(Now) /\ FileOK /\ Now.conn = conn /\ Now.body = body
    BY NowGood
  <1>2. PICK c : c = conn[d].character
    OBVIOUS
  <1>3. PICK t : t = DoReturn(Now, c)
    OBVIOUS
  <1>4. conn[d].original # NoBody /\ Becomes(t) /\ file' = file
    BY <1>2, <1>3 DEF Return
  <1>5. Good(t) /\ Follows(conn, body, t.conn, t.body)
    BY <1>1, <1>2, <1>3, <1>4, ReturnGood
  <1>6. FileOK'
    BY <1>1, <1>4, FileKept
  <1> QED BY <1>4, <1>5, <1>6, Becoming

\* Once the body b is taken out, and its file is in order.
LEMMA TakenStep ==
  ASSUME IInv, NEW b, TakenOut(Now, b, Extract(Now, b)), Becomes(Extract(Now, b)), FileOK'
  PROVE  Goes
  <1>1. PICK t : t = Extract(Now, b)
    OBVIOUS
  <1>2. Good(t) /\ Follows(conn, body, t.conn, t.body) /\ Becomes(t)
    BY <1>1, NowGood DEF TakenOut
  <1> QED BY <1>2, Becoming

LEMMA DoQuit == ASSUME IInv, NEW d \in Conns, Quit(d) PROVE Goes
  <1>1. /\ Good(Now) /\ FileOK /\ Now.body = body /\ Now.chars = chars
        /\ Linked(conn, Elements(descs), body, Elements(chars))
    BY NowGood
  <1>2. PICK b : b = conn[d].character
    OBVIOUS
  <1>3. conn[d].state \in InGame /\ b \in Conns /\ Saved(NameOn(d)) /\ Becomes(Extract(Now, b))
    BY <1>2 DEF Quit, InBody, Playing, InGame, IsPlayer
  <1>4. b \in Elements(chars) /\ body[b].desc = d /\ d # NoConn
    <2>1. Session(conn, Elements(descs), body, Elements(chars), d)
      BY <1>1 DEF Linked
    <2> QED BY <1>2, <1>3, <2>1, Facts DEF Session
  <1>5. TakenOut(Now, b, Extract(Now, b))
    BY <1>1, <1>3, <1>4, ExtractPlayed
  <1>6. FileOK'
    BY <1>1, <1>3, NameOfPlayer, Saving
  <1> QED BY <1>3, <1>5, <1>6, TakenStep

\* A player's body in the game has a name.
LEMMA NamedBody ==
  ASSUME IInv, NEW b \in Elements(chars), b \in Conns
  PROVE  body[b].owner \in Names
  <1>1. Linked(conn, Elements(descs), body, Elements(chars)) /\ body \in [Bodies -> Body] /\ b \in Bodies
    BY NowGood, Facts
  <1>2. Attached(conn, Elements(descs), body, Elements(chars), b)
    BY <1>1 DEF Linked
  <1> QED BY <1>1, <1>2, BodyFields DEF Attached

LEMMA DoIdleOut == ASSUME IInv, ~ amiss', NEW b \in Bodies, IdleOut(b) PROVE Goes
  <1>1. /\ b \in Elements(chars) /\ b \in Conns /\ body[b].desc = NoConn
        /\ Saved(body[b].owner) /\ Becomes(Extract(Now, b))
        /\ \A x \in Conns : conn[x].original # b
    BY DEF IdleOut, Away, IsPlayer
  <1>2. TakenOut(Now, b, Extract(Now, b))
    BY <1>1, NowGood, ExtractUnplayed
  <1>3. FileOK'
    BY <1>1, NowGood, NamedBody, Saving
  <1> QED BY <1>1, <1>2, <1>3, TakenStep

LEMMA DoMobDies == ASSUME IInv, NEW b \in Bodies, MobDies(b) PROVE Goes
  <1>1. /\ b \in Elements(chars) /\ b \in Mobs /\ Becomes(Extract(Now, b)) /\ file' = file /\ FileOK
        /\ Good(Now) /\ Now.chars = chars
    BY NowGood DEF MobDies, IsPlayer, Bodies
  <1>2. TakenOut(Now, b, Extract(Now, b))
    BY <1>1, ExtractMob
  <1>3. FileOK'
    BY <1>1, FileKept
  <1> QED BY <1>1, <1>2, <1>3, TakenStep

LEMMA DoDie == ASSUME IInv, ~ amiss', NEW b \in Bodies, Die(b) PROVE Goes
  <1>1. /\ b \in Elements(chars) /\ b \in Conns /\ Becomes(Extract(Now, b)) /\ FileOK
        /\ Good(Now) /\ Now.chars = chars /\ Now.body = body
        /\ Now.conn = conn /\ \A x \in Conns : conn[x].original # b
    BY NowGood DEF Die, Away, IsPlayer
  <1>2. TakenOut(Now, b, Extract(Now, b))
    BY <1>1, ExtractPlayed, ExtractUnplayed
  <1>3. FileOK'
    <2>1. CASE Saved(body[b].owner)
      BY <1>1, <2>1, NamedBody, Saving
    <2>2. CASE file' = [n \in DOMAIN file \ {body[b].owner} |-> file[n]]
      BY <1>1, <2>2 DEF FileOK
    <2> QED BY <2>1, <2>2 DEF Die
  <1> QED BY <1>1, <1>2, <1>3, TakenStep

LEMMA DoDrop == ASSUME IInv, NEW d \in Conns, Drop(d) PROVE Goes
  <1>1. Good(Now) /\ FileOK /\ Now.conn = conn /\ Now.body = body
    BY NowGood
  <1>2. PICK t : t = CloseSocket(Now, d)
    OBVIOUS
  <1>3. conn[d].state # "none" /\ Becomes(t)
    BY <1>2 DEF Drop
  <1>4. CutOff(Now, d, t)
    BY <1>1, <1>2, <1>3, CloseGood
  <1>5. Good(t) /\ Follows(conn, body, t.conn, t.body)
    BY <1>1, <1>4 DEF CutOff
  <1>6. FileOK'
    <2>1. CASE conn[d].state \in InGame /\ IsPlayer(conn[d].character)
      <3>1. Saved(NameOn(d))
        BY <2>1 DEF Drop
      <3> QED BY <1>1, <2>1, <3>1, NameOfPlayer, Saving
    <2>2. CASE ~ (conn[d].state \in InGame /\ IsPlayer(conn[d].character))
      <3>1. file' = file
        BY <2>2 DEF Drop
      <3> QED BY <1>1, <3>1, FileKept
    <2> QED BY <2>1, <2>2
  <1> QED BY <1>3, <1>5, <1>6, Becoming

\* A state in which d, at its password, has the body ch of r.
Taken(r, d, ch, t, en, ed) ==
  /\ t = Pointing(en, r.descs, ed, r.chars)
  /\ \A x \in Conns : x # d => en[x] = r.conn[x]
  /\ en[d].state \in InGame /\ en[d].character = ch /\ en[d].original = r.conn[d].original
  /\ \A x \in Bodies : x \notin {d, ch} => ed[x] = r.body[x]
  /\ ed[d] = Freed /\ ed[ch].desc = d /\ ed[ch].owner = r.body[ch].owner /\ ed[ch].switched = NoBody

\* What taking over a body does to the pointers.
LEMMA TakenShape ==
  ASSUME NEW r \in Pointers, NEW d \in Conns, NEW ch \in Conns, ch # d, NEW st \in InGame,
         r.body[ch].switched = NoBody
  PROVE  /\ \E en \in [Conns -> Conn], ed \in [Bodies -> Body] :
              Taken(r, d, ch, [Adopt(r, d, ch) EXCEPT !.body[ch].switched = NoBody, !.conn[d].state = st], en, ed)
         /\ \E en \in [Conns -> Conn], ed \in [Bodies -> Body] :
              Taken(r, d, ch, [Adopt(r, d, ch) EXCEPT !.conn[d].state = st], en, ed)
  <1>1. /\ r.conn \in [Conns -> Conn] /\ r.body \in [Bodies -> Body] /\ r.conn[d] \in Conn
        /\ d \in Bodies /\ ch \in Bodies /\ r.body[ch] \in Body
    BY Facts DEF Pointers
  <1>2. PICK m : m = [r.conn[d] EXCEPT !.character = ch]
    OBVIOUS
  <1>3. PICK q : q = [r.body[ch] EXCEPT !.desc = d]
    OBVIOUS
  <1>4. PICK cn : cn = [r.conn EXCEPT ![d] = m]
    OBVIOUS
  <1>5. PICK ed : ed = [r.body EXCEPT ![d] = Freed, ![ch] = q]
    OBVIOUS
  <1>6. PICK s : s = Adopt(r, d, ch)
    OBVIOUS
  <1>7. s = Pointing(cn, r.descs, ed, r.chars)
    BY <1>1, <1>2, <1>3, <1>4, <1>5, <1>6 DEF Adopt, Pointers, Pointing
  <1>8. PICK k : k = [m EXCEPT !.state = st]
    OBVIOUS
  <1>9. k \in Conn /\ k.state = st /\ k.character = ch /\ k.original = r.conn[d].original
    <2>1. m \in Conn /\ m.character = ch /\ m.original = r.conn[d].original
      BY <1>1, <1>2 DEF Conn
    <2> QED BY <1>8, <2>1 DEF Conn, InGame
  <1>10. q \in Body /\ q.desc = d /\ q.owner = r.body[ch].owner /\ q.switched = NoBody
    BY <1>1, <1>3 DEF Body
  <1>11. PICK en : en = [r.conn EXCEPT ![d] = k]
    OBVIOUS
  <1>12. en \in [Conns -> Conn] /\ en[d] = k /\ \A x \in Conns : x # d => en[x] = r.conn[x]
    BY <1>1, <1>9, <1>11
  <1>13. /\ ed \in [Bodies -> Body] /\ ed[d] = Freed /\ ed[ch] = q
         /\ \A x \in Bodies : x \notin {d, ch} => ed[x] = r.body[x]
    BY <1>1, <1>5, <1>10, ClosedTypes
  <1>14. s.conn = cn /\ s.body = ed
    BY <1>7 DEF Pointing
  <1>15. [cn EXCEPT ![d].state = st] = en
    BY <1>1, <1>4, <1>8, <1>11
  <1>16. [ed EXCEPT ![ch].switched = NoBody] = ed
    <2>1. [q EXCEPT !.switched = NoBody] = q
      BY <1>10 DEF Body
    <2> QED BY <1>1, <1>13, <2>1
  <1>17. [s EXCEPT !.conn[d].state = st] = Pointing(en, r.descs, ed, r.chars)
    <2>1. [s EXCEPT !.conn[d].state = st] = [s EXCEPT !.conn = en]
      BY <1>14, <1>15
    <2> QED BY <1>7, <2>1 DEF Pointing
  <1>18. [s EXCEPT !.body[ch].switched = NoBody, !.conn[d].state = st] = Pointing(en, r.descs, ed, r.chars)
    <2>1. [s EXCEPT !.body[ch].switched = NoBody] = [s EXCEPT !.body = ed]
      BY <1>14, <1>16
    <2>2. [s EXCEPT !.body = ed] = s
      BY ONLY <1>7 DEF Pointing
    <2>3. [[s EXCEPT !.body[ch].switched = NoBody] EXCEPT !.conn[d].state = st] =
          [s EXCEPT !.body[ch].switched = NoBody, !.conn[d].state = st]
      OBVIOUS
    <2> QED BY <1>17, <2>1, <2>2, <2>3
  <1>19. Taken(r, d, ch, Pointing(en, r.descs, ed, r.chars), en, ed)
    BY <1>9, <1>10, <1>12, <1>13 DEF Taken
  <1> QED BY <1>6, <1>10, <1>12, <1>13, <1>14, <1>17, <1>18, <1>19

LEMMA AdoptKeeps ==
  ASSUME NEW r \in Pointers, NEW d \in Conns, NEW ch \in Conns, ch # d, r.body[ch].switched = NoBody
  PROVE  Adopt(r, d, ch).body[ch].switched = NoBody
  <1>1. r.body \in [Bodies -> Body] /\ d \in Bodies /\ ch \in Bodies /\ r.body[ch] \in Body
    BY Facts DEF Pointers
  <1>2. PICK q : q = [r.body[ch] EXCEPT !.desc = d]
    OBVIOUS
  <1>3. q.switched = NoBody
    BY <1>1, <1>2 DEF Body
  <1>4. Adopt(r, d, ch).body = [r.body EXCEPT ![d] = Freed, ![ch] = q]
    BY <1>1, <1>2 DEF Adopt, Pointers
  <1> QED BY <1>1, <1>3, <1>4

\* Taking over a link-dead body of one's own name keeps the pointers in order.
LEMMA TakenGood ==
  ASSUME NEW r, Good(r), NEW d \in Conns, r.conn[d].state = "password",
         NEW ch \in Elements(r.chars), ch \in Conns, r.body[ch].desc = NoConn, r.body[ch].switched = NoBody,
         r.body[ch].owner = NameIn(r.conn, r.body, d),
         NEW en \in [Conns -> Conn], NEW ed \in [Bodies -> Body], NEW t, Taken(r, d, ch, t, en, ed)
  PROVE  Good(t) /\ Follows(r.conn, r.body, t.conn, t.body) /\ t.conn = en
  <1>1. /\ r \in Pointers /\ r.descs \in Seq(Conns) /\ r.chars \in Seq(Bodies)
        /\ Linked(r.conn, Elements(r.descs), r.body, Elements(r.chars))
        /\ IsInjective(r.descs) /\ IsInjective(r.chars)
    BY DEF Good, Pointers
  <1>2. t.conn = en /\ t.descs = r.descs /\ t.body = ed /\ t.chars = r.chars
    BY DEF Taken, Pointing
  <1>3. t \in Pointers
    BY <1>1 DEF Taken, Pointing, Pointers
  <1>4. PICK D : D = Elements(r.descs)
    OBVIOUS
  <1>5. PICK C : C = Elements(r.chars)
    OBVIOUS
  <1>6. PICK sc : sc = r.conn
    OBVIOUS
  <1>7. PICK sb : sb = r.body
    OBVIOUS
  <1>8. sc[d].original = NoBody
    <2>1. Session(sc, D, sb, C, d)
      BY <1>1, <1>4, <1>5, <1>6, <1>7 DEF Linked
    <2> QED BY <1>6, <2>1 DEF Session, Loaded
  <1>9. /\ Linked(sc, D, sb, C) /\ sc[d].state = "password" /\ ch \in C
        /\ sb[ch].desc = NoConn /\ sb[ch].switched = NoBody /\ sb[ch].owner = NameIn(sc, sb, d)
        /\ \A x \in Conns : x # d => en[x] = sc[x]
        /\ en[d].state \in InGame /\ en[d].character = ch /\ en[d].original = NoBody
        /\ \A x \in Bodies : x \notin {d, ch} => ed[x] = sb[x]
        /\ ed[d] = Freed /\ ed[ch].desc = d /\ ed[ch].owner = sb[ch].owner /\ ed[ch].switched = NoBody
    BY <1>1, <1>4, <1>5, <1>6, <1>7, <1>8 DEF Taken
  <1>10. Linked(en, D, ed, C) /\ Follows(sc, sb, en, ed)
    BY <1>9, AdoptMoves
  <1> QED BY <1>1, <1>2, <1>3, <1>4, <1>5, <1>6, <1>7, <1>10 DEF Good

\* A link-dead body is taken back.
LEMMA DoReconnect == ASSUME IInv, NEW d \in Conns, Reconnect(d) PROVE Goes
  <1>1. /\ Good(Now) /\ FileOK /\ Now.conn = conn /\ Now.body = body /\ Now.chars = chars
        /\ Linked(conn, Elements(descs), body, Elements(chars))
    BY NowGood
  <1>2. PICK n : n = NameOn(d)
    OBVIOUS
  <1>3. PICK ch : ch = Head(LinkDead(n))
    OBVIOUS
  <1>4. conn[d].state = "password" /\ LinkDead(n) # <<>> /\ file' = file
    BY <1>2 DEF Reconnect
  <1>5. conn[d].state \in Loaded /\ conn[d].state # "none"
    BY <1>4 DEF Loaded
  <1>6. n = NameIn(conn, body, d) /\ n # NoName
    BY <1>1, <1>2, <1>5, NameOf, NameOnIn
  <1>7. ch \in Elements(chars) /\ ch \in Bodies /\ body[ch].owner = n /\ body[ch].desc = NoConn
    BY <1>3, <1>4, LinkDeadOf
  <1>8. ch \in Conns
    <2>1. Attached(conn, Elements(descs), body, Elements(chars), ch)
      BY <1>1, <1>7 DEF Linked
    <2> QED BY <1>6, <1>7, <2>1 DEF Attached
  <1>9. FileOK'
    BY <1>1, <1>4, FileKept
  <1>10. CASE body[ch].switched # NoBody
    <2>1. PICK t : t = CloseSocket(Now, d)
      OBVIOUS
    <2>2. Becomes(t)
      BY <1>2, <1>3, <1>10, <2>1 DEF Reconnect
    <2>3. CutOff(Now, d, t)
      BY <1>1, <1>5, <2>1, CloseGood
    <2>4. Good(t) /\ Follows(conn, body, t.conn, t.body)
      BY <1>1, <2>3 DEF CutOff
    <2> QED BY <1>9, <2>2, <2>4, Becoming
  <1>11. CASE body[ch].switched = NoBody
    <2>1. PICK t : t = [Adopt(Now, d, ch) EXCEPT !.conn[d].state = "playing"]
      OBVIOUS
    <2>2. Becomes(t)
      BY <1>2, <1>3, <1>11, <2>1 DEF Reconnect
    <2>3. ch # d
      <3>1. Session(conn, Elements(descs), body, Elements(chars), d)
        BY <1>1 DEF Linked
      <3> QED BY <1>5, <1>7, <3>1 DEF Session
    <2>4. "playing" \in InGame /\ Now \in Pointers
      BY <1>1 DEF InGame, Good
    <2>5. PICK en \in [Conns -> Conn], ed \in [Bodies -> Body] : Taken(Now, d, ch, t, en, ed)
      BY <1>1, <1>8, <1>11, <2>1, <2>3, <2>4, TakenShape
    <2>6. Good(t) /\ Follows(conn, body, t.conn, t.body)
      BY <1>1, <1>4, <1>6, <1>7, <1>8, <1>11, <2>5, TakenGood
    <2> QED BY <1>9, <2>2, <2>6, Becoming
  <1> QED BY <1>10, <1>11

\* An old link is closed and its body taken over.
LEMMA DoKickOff == ASSUME IInv, NEW d \in Conns, KickOff(d) PROVE Goes
  <1>1. /\ Good(Now) /\ FileOK /\ Now.conn = conn /\ Now.body = body /\ Now.chars = chars /\ Now.descs = descs
        /\ Linked(conn, Elements(descs), body, Elements(chars))
    BY NowGood
  <1>2. PICK n : n = NameOn(d)
    OBVIOUS
  <1>3. PICK e : e = Head(Rivals(d, n))
    OBVIOUS
  <1>4. PICK ch : ch = Own(e)
    OBVIOUS
  <1>5. PICK r : r = CloseSocket(Now, e)
    OBVIOUS
  <1>6. PICK s : s = Adopt(r, d, ch)
    OBVIOUS
  <1>7. /\ conn[d].state = "password" /\ Rivals(d, n) # <<>> /\ conn[e].state \in InGame /\ file' = file
        /\ s.body[ch].switched = NoBody =>
             Becomes([s EXCEPT !.body[ch].switched = NoBody, !.conn[d].state = conn[e].state])
    BY <1>2, <1>3, <1>4, <1>5, <1>6 DEF KickOff
  <1>8. conn[d].state \in Loaded /\ conn[e].state # "none" /\ conn[d].state \notin InGame
    BY <1>7 DEF Loaded, InGame
  <1>9. e \in Conns /\ e # d /\ NameIn(conn, body, e) = n
    BY <1>3, <1>7, RivalsOf, NameOnIn
  <1>10. ch = OwnIn(conn, e) /\ ch \in Elements(chars) /\ ch \in Conns /\ body[ch].owner = n
    <2>1. ch = OwnIn(conn, e)
      BY <1>4, <1>9 DEF Own, OwnIn
    <2> QED BY <1>1, <1>7, <1>9, <2>1, NameOf
  <1>11. /\ d \notin Elements(chars) /\ NameIn(conn, body, d) = n /\ body[d].owner = n /\ conn[d].original = NoBody
         /\ conn[d].character = d /\ d \in Bodies
    <2>1. Session(conn, Elements(descs), body, Elements(chars), d)
      BY <1>1 DEF Linked
    <2>2. NameIn(conn, body, d) = body[d].owner
      BY <1>1, <1>8, NameOf
    <2> QED BY <1>2, <1>8, <2>1, <2>2, NameOnIn, Facts DEF Session
  <1>12. CutOff(Now, e, r)
    BY <1>1, <1>5, <1>8, <1>9, CloseGood
  <1>13. /\ Good(r) /\ Follows(conn, body, r.conn, r.body) /\ r.chars = chars
         /\ r.conn[e] = Closed /\ \A x \in Conns : x # e => r.conn[x] = conn[x]
         /\ \A x \in Elements(chars) : r.body[x].owner = body[x].owner
         /\ \A x \in Bodies \ Elements(chars) : x # e => r.body[x] = body[x]
         /\ r.body[ch].desc = NoConn /\ r.body[ch].switched = NoBody
    BY <1>1, <1>7, <1>10, <1>12 DEF CutOff
  <1>14. /\ r.conn[d].state = "password" /\ r.body[ch].owner = n /\ r \in Pointers /\ ch # d
         /\ NameIn(r.conn, r.body, d) = n
    <2>1. r.conn[d] = conn[d] /\ r.body[d] = body[d] /\ r.body[ch].owner = n
      BY <1>9, <1>10, <1>11, <1>13
    <2>2. OwnIn(r.conn, d) = d /\ d # NoBody
      BY <1>11, <2>1, Facts DEF OwnIn
    <2>3. NameIn(r.conn, r.body, d) = n
      BY <1>11, <2>1, <2>2 DEF NameIn
    <2> QED BY <1>7, <1>10, <1>11, <1>13, <2>1, <2>3 DEF Good
  <1>15. PICK t : t = [s EXCEPT !.body[ch].switched = NoBody, !.conn[d].state = conn[e].state]
    OBVIOUS
  <1>16. Becomes(t)
    <2>1. s.body[ch].switched = NoBody
      BY <1>6, <1>10, <1>13, <1>14, AdoptKeeps
    <2> QED BY <1>7, <1>15, <2>1
  <1>17. PICK en \in [Conns -> Conn], ed \in [Bodies -> Body] : Taken(r, d, ch, t, en, ed)
    BY <1>6, <1>7, <1>10, <1>13, <1>14, <1>15, TakenShape
  <1>18. Good(t) /\ Follows(r.conn, r.body, t.conn, t.body) /\ t.conn = en
    BY <1>10, <1>13, <1>14, <1>17, TakenGood
  <1>19. Follows(conn, body, t.conn, t.body)
    <2> SUFFICES ASSUME NEW x \in Conns, conn[x].state \in InGame, t.conn[x].state # "none"
                 PROVE  t.conn[x].state \in InGame /\ NameIn(t.conn, t.body, x) = NameIn(conn, body, x)
      BY DEF Follows
    <2>1. x # e
      <3>1. en[e] = r.conn[e]
        BY <1>9, <1>17 DEF Taken
      <3> QED BY <1>13, <1>18, <3>1, ClosedTypes
    <2>2. r.conn[x].state \in InGame /\ r.conn[x].state # "none"
      BY <1>13, <2>1 DEF InGame
    <2>3. NameIn(r.conn, r.body, x) = NameIn(conn, body, x)
      BY <1>13, <2>2 DEF Follows
    <2> QED BY <1>18, <2>2, <2>3 DEF Follows
  <1>20. FileOK'
    BY <1>1, <1>7, FileKept
  <1> QED BY <1>16, <1>18, <1>19, <1>20, Becoming

LEMMA InSeqs == \A X, Y : X \subseteq Y => Seq(X) \subseteq Seq(Y)
  <1> SUFFICES ASSUME NEW X, NEW Y, X \subseteq Y, NEW q \in Seq(X) PROVE q \in Seq(Y)
    OBVIOUS
  <1>1. Len(q) \in Nat /\ DOMAIN q = 1..Len(q) /\ q \in [1..Len(q) -> X]
    BY LenProperties
  <1>2. q \in [1..Len(q) -> Y]
    BY <1>1
  <1> QED BY <1>1, <1>2, SeqDef

\* A world that holds nobody but the players of K, each in the body loaded for
\* him, under his name N.
Fresh(K, N, F, en, ed) ==
  /\ K \subseteq Conns /\ \A d \in K : N[d] \in Names
  /\ \A d, e \in K : N[d] = N[e] => d = e
  /\ \A b : b \in F <=> b \in Mobs \/ b \in K
  /\ en \in [Conns -> Conn] /\ ed \in [Bodies -> Body]
  /\ \A d \in K : en[d].state = "playing" /\ en[d].character = d /\ en[d].original = NoBody
  /\ \A d \in Conns : d \notin K => en[d] = Closed
  /\ \A b \in K : ed[b].owner = N[b] /\ ed[b].desc = b /\ ed[b].switched = NoBody
  /\ \A b \in Bodies : b \notin K => ed[b] = Freed

Peopled(K, N, en, ed) ==
  /\ en = [d \in Conns |-> IF d \in K THEN [Closed EXCEPT !.state = "playing", !.character = d] ELSE Closed]
  /\ ed = [b \in Bodies |-> IF b \in K THEN [owner |-> N[b], desc |-> b, switched |-> NoBody] ELSE Freed]

LEMMA FreshPointers ==
  ASSUME NEW K, NEW N, NEW F,
         NEW en, NEW ed, Fresh(K, N, F, en, ed)
  PROVE  Linked(en, K, ed, F) /\ \A d \in K : en[d].state \in InGame /\ NameIn(en, ed, d) = N[d]
  <1> USE DEF Fresh
  <1>3. F \subseteq Bodies
    BY Facts
  <1>4. Freed.owner = NoName /\ Freed.desc = NoConn /\ Freed.switched = NoBody
    BY DEF Freed
  <1>5. /\ {"playing"} \subseteq InGame /\ "playing" \notin Asked \cup Loaded \cup {"none"}
        /\ "none" \notin Asked \cup Loaded \cup InGame
    BY DEF InGame, Asked, Loaded, New
  <1>6. ASSUME NEW d \in Conns PROVE Session(en, K, ed, F, d)
    <2>1. CASE d \in K
      BY <1>5, <2>1, Facts DEF Session
    <2>2. CASE d \notin K
      BY <1>5, <2>2, ClosedTypes DEF Session
    <2> QED BY <2>1, <2>2
  <1>7. ASSUME NEW b \in Bodies PROVE Attached(en, K, ed, F, b)
    <2>1. CASE b \in K
      <3>1. b \in Conns /\ N[b] # NoName /\ b \in F /\ b \notin Mobs
        BY <2>1, Facts
      <3> QED BY <2>1, <3>1, Facts DEF Attached
    <2>2. CASE b \notin K
      <3>1. b \in F => b \notin Conns
        BY <2>2, Facts
      <3> QED BY <1>4, <2>2, <3>1 DEF Attached
    <2> QED BY <2>1, <2>2
  <1>8. OneEach(en, ed, F)
    <2>1. ASSUME NEW b \in F, NEW c \in F, b \in Conns, c \in Conns, ed[b].owner = ed[c].owner
          PROVE  b = c
      BY <2>1, Facts
    <2>2. \A d \in Conns : en[d].state \notin New
      BY <1>5, ClosedTypes DEF Loaded
    <2> QED BY <2>1, <2>2 DEF OneEach
  <1>9. ASSUME NEW d \in K PROVE en[d].state \in InGame /\ NameIn(en, ed, d) = N[d]
    <2>1. OwnIn(en, d) = d /\ d # NoBody /\ d \in Bodies /\ d \in Conns
      BY Facts DEF OwnIn
    <2> QED BY <1>5, <2>1 DEF NameIn
  <1> QED BY <1>3, <1>6, <1>7, <1>8, <1>9 DEF Linked

LEMMA FreshWorld ==
  ASSUME NEW K \in SUBSET Conns, NEW N \in [K -> Names],
         \A d, e \in K : N[d] = N[e] => d = e,
         NEW en, NEW ed, Peopled(K, N, en, ed), NEW F, F = Mobs \cup K
  PROVE  Linked(en, K, ed, F) /\ \A d \in K : en[d].state \in InGame /\ NameIn(en, ed, d) = N[d]
  <1>1. ASSUME NEW d \in Conns
        PROVE  /\ en[d] \in Conn
               /\ d \in K => en[d].state = "playing" /\ en[d].character = d /\ en[d].original = NoBody
               /\ d \notin K => en[d] = Closed
    BY DEF Peopled, Conn, Closed, InGame, Bodies
  <1>2. ASSUME NEW b \in Bodies
        PROVE  /\ ed[b] \in Body
               /\ b \in K => ed[b].owner = N[b] /\ ed[b].desc = b /\ ed[b].switched = NoBody
               /\ b \notin K => ed[b] = Freed
    BY DEF Peopled, Body, Freed
  <1>3. en \in [Conns -> Conn] /\ ed \in [Bodies -> Body]
    BY <1>1, <1>2 DEF Peopled
  <1>4. /\ \A d \in K : en[d].state = "playing" /\ en[d].character = d /\ en[d].original = NoBody
        /\ \A d \in Conns : d \notin K => en[d] = Closed
        /\ \A b \in K : ed[b].owner = N[b] /\ ed[b].desc = b /\ ed[b].switched = NoBody
        /\ \A b \in Bodies : b \notin K => ed[b] = Freed
    BY <1>1, <1>2, Facts
  <1>5. /\ K \subseteq Conns /\ \A d \in K : N[d] \in Names
        /\ \A d, e \in K : N[d] = N[e] => d = e
        /\ \A b : b \in F <=> b \in Mobs \/ b \in K
    OBVIOUS
  <1>6. Fresh(K, N, F, en, ed)
    BY ONLY <1>3, <1>4, <1>5 DEF Fresh
  <1> QED BY <1>6, FreshPointers

\* The world as the process starts it
LEMMA EmptyWorld ==
  Linked([d \in Conns |-> Closed], Elements(<<>>), [b \in Bodies |-> Freed], Elements(World))
  <1>1. PICK K : K = {}
    OBVIOUS
  <1>2. PICK N : N = [x \in K |-> x]
    OBVIOUS
  <1>3. N \in [K -> Names] /\ \A d, e \in K : N[d] = N[e] => d = e
    BY <1>1, <1>2
  <1>4. PICK en : en = [d \in Conns |-> IF d \in K THEN [Closed EXCEPT !.state = "playing", !.character = d]
                                        ELSE Closed]
    OBVIOUS
  <1>5. PICK ed : ed = [b \in Bodies |-> IF b \in K THEN [owner |-> N[b], desc |-> b, switched |-> NoBody]
                                         ELSE Freed]
    OBVIOUS
  <1>6. PICK F : F = Mobs \cup K
    OBVIOUS
  <1>7. Linked(en, K, ed, F)
    <2>1. K \in SUBSET Conns
      BY <1>1
    <2>2. Peopled(K, N, en, ed)
      BY <1>4, <1>5 DEF Peopled
    <2> QED BY <2>2, <2>1, <1>3, <1>4, <1>5, <1>6, FreshWorld
  <1>8. en = [d \in Conns |-> Closed] /\ ed = [b \in Bodies |-> Freed] /\ F = Elements(World)
    BY <1>1, <1>4, <1>5, <1>6, WorldList
  <1>9. Elements(<<>>) = K
    BY <1>1 DEF Elements
  <1> QED BY <1>7, <1>8, <1>9

LEMMA EmptyLists == /\ <<>> \in Seq(Conns) /\ IsInjective(<<>>)
                    /\ World \in Seq(Bodies) /\ IsInjective(World)
  <1>1. <<>> \in Seq(Conns) /\ IsInjective(<<>>)
    BY EmptySeq DEF IsInjective
  <1> QED BY <1>1, WorldList, InSeqs, Facts

LEMMA InitInv == Init => IInv
  <1> SUFFICES ASSUME Init PROVE IInv
    OBVIOUS
  <1>1. FileOK
    <2>1. PICK known \in SUBSET Names : file = [n \in known |-> "whole"]
      BY DEF Init
    <2> QED BY <2>1 DEF FileOK
  <1> QED BY <1>1, EmptyWorld, EmptyLists DEF Init, IInv

\* Those of the list who are in the game, but the lost, keep their places.
LEMMA KeptOf ==
  ASSUME IInv, NEW lost
  PROVE  /\ Kept(lost) \in Seq(Conns) /\ IsInjective(Kept(lost))
         /\ \A d : d \in Elements(Kept(lost)) <=> d \in Conns /\ d \notin lost /\ conn[d].state \in InGame
         /\ {NameOn(d) : d \in Elements(Kept(lost))} \subseteq Names
  <1>1. /\ descs \in Seq(Conns) /\ IsInjective(descs)
        /\ Linked(conn, Elements(descs), body, Elements(chars))
    BY NowGood
  <1>2. /\ Kept(lost) \in Seq(Conns) /\ IsInjective(Kept(lost))
        /\ \A d : d \in Elements(Kept(lost)) <=>
                    d \in Elements(descs) /\ d \in {x \in Conns \ lost : conn[x].state \in InGame}
    BY <1>1, OnlyList DEF Kept
  <1>3. ASSUME NEW d \in Conns, conn[d].state \in InGame PROVE d \in Elements(descs)
    <2>1. Session(conn, Elements(descs), body, Elements(chars), d)
      BY <1>1 DEF Linked
    <2> QED BY <1>3, <2>1 DEF Session, InGame
  <1> QED BY <1>2, <1>3, NameOfPlayer

LEMMA DoCopyover == ASSUME IInv, NEW lost \in SUBSET Conns, Copyover(lost) PROVE Goes
  <1>1. /\ Linked(conn, Elements(descs), body, Elements(chars)) /\ FileOK
    BY NowGood
  <1>2. PICK kept : kept = Kept(lost)
    OBVIOUS
  <1>3. PICK K : K = Elements(kept)
    OBVIOUS
  <1>4. /\ kept \in Seq(Conns) /\ IsInjective(kept) /\ K \in SUBSET Conns
        /\ \A d \in Conns : d \in K <=> d \notin lost /\ conn[d].state \in InGame
    <2>1. /\ kept \in Seq(Conns) /\ IsInjective(kept)
          /\ \A d : d \in K <=> d \in Conns /\ d \notin lost /\ conn[d].state \in InGame
      BY <1>2, <1>3, KeptOf
    <2> QED BY <2>1
  <1>5. PICK N : N = [d \in K |-> NameOn(d)]
    OBVIOUS
  <1>6. \A d \in K : N[d] \in Names /\ N[d] = NameIn(conn, body, d) /\ N[d] = NameOn(d)
    BY <1>4, <1>5, NameOfPlayer
  <1>7. N \in [K -> Names] /\ \A d, e \in K : N[d] = N[e] => d = e
    BY <1>1, <1>4, <1>5, <1>6, OneName
  <1>8. PICK F : F = Mobs \cup K
    OBVIOUS
  <1>9. /\ conn' = [d \in Conns |-> IF d \in K THEN [Closed EXCEPT !.state = "playing", !.character = d]
                                    ELSE Closed]
        /\ descs' = kept /\ chars' = World \o kept
        /\ file' = Written({NameOn(d) : d \in Elements(Kept({}))}, "whole")
    BY <1>2, <1>3 DEF Copyover
  <1>10. body' = [b \in Bodies |-> IF b \in K THEN [owner |-> N[b], desc |-> b, switched |-> NoBody]
                                   ELSE Freed]
    BY <1>2, <1>3, <1>6 DEF Copyover
  <1>11. PICK en : en = conn'
    OBVIOUS
  <1>12. PICK ed : ed = body'
    OBVIOUS
  <1>13. Linked(en, K, ed, F) /\ \A d \in K : en[d].state \in InGame /\ NameIn(en, ed, d) = N[d]
    <2>1. Peopled(K, N, en, ed)
      BY <1>9, <1>10, <1>11, <1>12 DEF Peopled
    <2>2. K \in SUBSET Conns /\ N \in [K -> Names] /\ F = Mobs \cup K
          /\ \A d, e \in K : N[d] = N[e] => d = e
      BY <1>4, <1>7, <1>8
    <2> QED BY ONLY <2>1, <2>2, FreshWorld
  <1>14. Follows(conn, body, en, ed)
    <2>1. \A d \in Conns : d \notin K => en[d].state = "none"
      BY <1>9, <1>11, ClosedTypes
    <2> QED BY <1>6, <1>13, <2>1 DEF Follows
  <1>15. chars' \in Seq(Bodies) /\ Elements(chars') = F /\ IsInjective(chars')
    <2>1. World \in Seq(Bodies) /\ Elements(World) = Mobs /\ IsInjective(World) /\ kept \in Seq(Bodies)
      BY <1>4, WorldList, EmptyLists, InSeqs, Facts
    <2>2. Elements(World) \cap Elements(kept) = {}
      BY <1>3, <1>4, <2>1, Facts
    <2>3. PICK w : w = World
      OBVIOUS
    <2>4. PICK z : z = w \o kept
      OBVIOUS
    <2>5. z \in Seq(Bodies) /\ Elements(z) = Elements(w) \cup Elements(kept) /\ IsInjective(z)
      BY <1>4, <2>1, <2>2, <2>3, <2>4, ConcatList
    <2> QED BY <1>3, <1>8, <1>9, <2>1, <2>3, <2>4, <2>5
  <1>16. FileOK'
    <2>1. PICK names : names = {NameOn(d) : d \in Elements(Kept({}))}
      OBVIOUS
    <2>2. names \subseteq Names
      <3>1. PICK none : none = {}
        OBVIOUS
      <3>2. {NameOn(d) : d \in Elements(Kept(none))} \subseteq Names
        BY KeptOf
      <3> QED BY <2>1, <3>1, <3>2
    <2> QED BY <1>1, <1>9, <2>1, <2>2, Writing
  <1> QED BY <1>3, <1>4, <1>9, <1>11, <1>12, <1>13, <1>14, <1>15, <1>16 DEF Goes, IInv

\* Those who are logging in are thrown out.
Thrown(cn, D, bd, out, en, E, ed) ==
  /\ \A d : d \in out <=> d \in D /\ cn[d].state \notin InGame
  /\ en \in [Conns -> Conn] /\ \A d \in Conns : en[d] = IF d \in out THEN Closed ELSE cn[d]
  /\ ed \in [Bodies -> Body]
  /\ \A b \in Bodies : ed[b] = IF \E d \in out : cn[d].character = b THEN Freed ELSE bd[b]
  /\ \A d : d \in E <=> d \in Conns /\ cn[d].state \in InGame

LEMMA ThrownOut ==
  ASSUME NEW cn, NEW D, NEW bd, NEW C, Linked(cn, D, bd, C),
         NEW out, NEW en, NEW ed, NEW E, Thrown(cn, D, bd, out, en, E, ed)
  PROVE  Linked(en, E, ed, C) /\ Follows(cn, bd, en, ed)
  <1> USE DEF Thrown
  <1>1. /\ out \subseteq Conns /\ C \subseteq Bodies /\ E \subseteq Conns /\ bd \in [Bodies -> Body]
        /\ \A d \in Conns : Session(cn, D, bd, C, d)
        /\ \A b \in Bodies : Attached(cn, D, bd, C, b)
    BY DEF Linked
  <1>2. ASSUME NEW d \in Conns
        PROVE  /\ d \in out => /\ cn[d].state \in Asked \cup Loaded /\ d \notin C
                               /\ cn[d].character \in {d, NoBody}
                               /\ cn[d].state \notin Loaded => bd[d] = Freed
                               /\ cn[d].state \in Loaded => cn[d].character = d
                               /\ en[d] = Closed /\ d \notin E
               /\ d \notin out => en[d] = cn[d] /\ cn[d].state \in InGame \cup {"none"}
                                  /\ (d \in E <=> cn[d].state # "none")
    <2>1. Session(cn, D, bd, C, d) /\ d \in Bodies /\ Attached(cn, D, bd, C, d)
      BY <1>1, Facts
    <2>2. CASE d \in out
      <3>1. d \in D /\ cn[d].state \notin InGame
        BY <2>2
      <3>2. cn[d].state \in Asked \cup Loaded
        BY <2>1, <3>1, States DEF Session
      <3>3. /\ d \notin C
            /\ cn[d].character \in {d, NoBody}
            /\ cn[d].state \in Loaded => cn[d].character = d
        BY <2>1, <3>2 DEF Session
      <3>4. cn[d].state \notin Loaded => bd[d] = Freed
        BY <2>1, <3>3 DEF Attached
      <3> QED BY <2>2, <3>1, <3>2, <3>3, <3>4
    <2>3. CASE d \notin out
      <3>1. d \in D => cn[d].state \in InGame
        BY <2>3
      <3>2. cn[d].state \in InGame \cup {"none"}
        BY <2>1, <3>1 DEF Session
      <3> QED BY <2>3, <3>2, States
    <2> QED BY <2>2, <2>3
  <1>3. ASSUME NEW b \in Bodies
        PROVE  ed[b] = IF b \in out THEN Freed ELSE bd[b]
    <2>1. b # NoBody
      BY Facts
    <2>2. ASSUME NEW d \in out, cn[d].character = b PROVE b = d
      BY <1>1, <1>2, <2>1, <2>2
    <2>3. CASE b \in out
      <3>1. CASE cn[b].state \in Loaded
        BY <1>1, <1>2, <2>3, <3>1
      <3>2. CASE cn[b].state \notin Loaded
        BY <1>1, <1>2, <2>3, <3>2
      <3> QED BY <3>1, <3>2
    <2>4. CASE b \notin out
      BY <2>2, <2>4
    <2> QED BY <2>3, <2>4
  <1>4. \A b \in C : ed[b] = bd[b] /\ b \notin out
    BY <1>1, <1>2, <1>3
  <1>5. ASSUME NEW d \in Conns PROVE Session(en, E, ed, C, d)
    <2>1. CASE d \in out
      BY <1>2, <2>1, ClosedTypes, States DEF Session
    <2>2. CASE d \notin out
      <3>1. CASE cn[d].state = "none"
        BY <1>1, <1>2, <2>2, <3>1, States DEF Session
      <3>2. CASE cn[d].state \in InGame
        <4>1. Session(cn, D, bd, C, d) /\ en[d] = cn[d] /\ d \in E
          BY <1>1, <1>2, <2>2, <3>2, States
        <4> QED BY <1>4, <3>2, <4>1, States DEF Session
      <3> QED BY <1>2, <2>2, <3>1, <3>2
    <2> QED BY <2>1, <2>2
  <1>6. ASSUME NEW b \in Bodies PROVE Attached(en, E, ed, C, b)
    <2>1. Attached(cn, D, bd, C, b)
      BY <1>1
    <2>2. CASE b \in C
      <3>1. ASSUME bd[b].desc # NoConn
            PROVE  bd[b].desc \in E /\ en[bd[b].desc].character = b
        <4>1. PICK e : e = bd[b].desc
          OBVIOUS
        <4>2. e \in Conns /\ cn[e].state \in InGame /\ cn[e].character = b
          BY <2>2, <3>1, <4>1, PlayerOf
        <4>3. e \notin out
          BY <4>2
        <4> QED BY <1>2, <4>1, <4>2, <4>3
      <3>2. ASSUME NEW e \in Conns, cn[e].original = b PROVE en[e].original = b
        <4>1. cn[e].state \in InGame
          BY <3>2, WaitingOf, Facts
        <4> QED BY <1>2, <3>2, <4>1
      <3> QED BY <1>4, <2>1, <2>2, <3>1, <3>2 DEF Attached
    <2>3. CASE b \notin C
      <3>1. CASE b \in out
        BY <1>3, <2>3, <3>1 DEF Attached
      <3>2. CASE b \notin out /\ b \in Conns
        <4>1. en[b] = cn[b] /\ ed[b] = bd[b]
          BY <1>2, <1>3, <3>2
        <4> QED BY <2>1, <2>3, <3>2, <4>1, Facts DEF Attached
      <3>3. CASE b \notin out /\ b \in Mobs
        <4>1. ed[b] = bd[b]
          BY <1>3, <3>3
        <4> QED BY <2>1, <2>3, <3>3, <4>1 DEF Attached
      <3> QED BY <3>1, <3>2, <3>3 DEF Bodies
    <2> QED BY <2>2, <2>3
  <1>7. ASSUME NEW x \in Conns
        PROVE  /\ x \in out => NameIn(en, ed, x) = NoName
               /\ x \notin out => NameIn(en, ed, x) = NameIn(cn, bd, x)
    <2>1. CASE x \in out
      BY <1>2, <2>1, ClosedTypes DEF NameIn, OwnIn
    <2>2. CASE x \notin out
      <3>1. en[x] = cn[x] /\ OwnIn(en, x) = OwnIn(cn, x)
        BY <1>2, <2>2 DEF OwnIn
      <3>2. CASE cn[x].state = "none"
        <4>1. OwnIn(cn, x) = NoBody
          BY <3>2, NameOf
        <4> QED BY <2>2, <3>1, <4>1 DEF NameIn
      <3>3. CASE cn[x].state \in InGame
        <4>1. OwnIn(cn, x) \in C
          BY <3>3, NameOf
        <4> QED BY <1>4, <2>2, <3>1, <4>1 DEF NameIn
      <3> QED BY <1>2, <2>2, <3>2, <3>3
    <2> QED BY <2>1, <2>2
  <1>8. OneEach(en, ed, C)
    <2>1. \A b \in C : ed[b].owner = bd[b].owner
      BY <1>4
    <2>2. \A x \in Conns : NameIn(en, ed, x) \in {NameIn(cn, bd, x), NoName}
      BY <1>7
    <2>3. \A x \in Conns : en[x].state \notin New
      BY <1>2, ClosedTypes, States DEF Loaded
    <2> QED BY <2>1, <2>2, <2>3, NamesKept
  <1>9. Follows(cn, bd, en, ed)
    <2> SUFFICES ASSUME NEW x \in Conns, cn[x].state \in InGame
                 PROVE  en[x].state \in InGame /\ NameIn(en, ed, x) = NameIn(cn, bd, x)
      BY DEF Follows
    <2> QED BY <1>2, <1>7
  <1> QED BY <1>1, <1>5, <1>6, <1>8, <1>9 DEF Linked

LEMMA DoCopyoverFails == ASSUME IInv, CopyoverFails PROVE Goes
  <1>1. /\ Linked(conn, Elements(descs), body, Elements(chars)) /\ FileOK
        /\ conn \in [Conns -> Conn] /\ body \in [Bodies -> Body]
        /\ chars \in Seq(Bodies) /\ IsInjective(chars)
    BY NowGood
  <1>2. PICK D : D = Elements(descs)
    OBVIOUS
  <1>3. PICK C : C = Elements(chars)
    OBVIOUS
  <1>4. PICK out : out = {d \in D : conn[d].state \notin InGame}
    OBVIOUS
  <1>5. PICK none : none = {}
    OBVIOUS
  <1>6. PICK kept : kept = Kept(none)
    OBVIOUS
  <1>7. PICK E : E = Elements(kept)
    OBVIOUS
  <1>8. PICK names : names = {NameOn(d) : d \in Elements(Kept({}))}
    OBVIOUS
  <1>9. /\ kept \in Seq(Conns) /\ IsInjective(kept) /\ names \subseteq Names
        /\ \A d : d \in E <=> d \in Conns /\ conn[d].state \in InGame
    <2>1. /\ kept \in Seq(Conns) /\ IsInjective(kept)
          /\ \A d : d \in E <=> d \in Conns /\ d \notin none /\ conn[d].state \in InGame
          /\ {NameOn(d) : d \in Elements(kept)} \subseteq Names
      BY <1>6, <1>7, KeptOf
    <2> QED BY <1>5, <1>6, <1>8, <2>1
  <1>10. /\ conn' = [d \in Conns |-> IF d \in out THEN Closed ELSE conn[d]]
         /\ body' = [b \in Bodies |-> IF \E d \in out : conn[d].character = b THEN Freed ELSE body[b]]
         /\ descs' = kept /\ chars' = chars /\ file' = Written(names, "whole")
    BY <1>2, <1>4, <1>5, <1>6, <1>8 DEF CopyoverFails
  <1>11. PICK en : en = conn'
    OBVIOUS
  <1>12. PICK ed : ed = body'
    OBVIOUS
  <1>13. /\ en \in [Conns -> Conn] /\ \A d \in Conns : en[d] = IF d \in out THEN Closed ELSE conn[d]
    BY <1>1, <1>10, <1>11, ClosedTypes
  <1>14. /\ ed \in [Bodies -> Body]
         /\ \A b \in Bodies : ed[b] = IF \E d \in out : conn[d].character = b THEN Freed ELSE body[b]
    BY <1>1, <1>10, <1>12, ClosedTypes
  <1>15. Linked(conn, D, body, C) /\ \A d : d \in out <=> d \in D /\ conn[d].state \notin InGame
    BY <1>1, <1>2, <1>3, <1>4
  <1>16. Linked(en, E, ed, C) /\ Follows(conn, body, en, ed)
    <2>1. Thrown(conn, D, body, out, en, E, ed)
      BY ONLY <1>9, <1>13, <1>14, <1>15 DEF Thrown
    <2> QED BY <1>15, <2>1, ThrownOut
  <1>17. FileOK'
    BY <1>1, <1>9, <1>10, Writing
  <1> QED BY <1>1, <1>3, <1>7, <1>9, <1>10, <1>11, <1>12, <1>16, <1>17 DEF Goes, IInv

LEMMA ConnGoes == ASSUME IInv, ~ amiss', NEW d \in Conns, ConnStep(d) PROVE Goes
  BY DoConnect, DoAskForNew, DoCreate, DoKickOff, DoReconnect, DoReload, DoEnterGame, DoSave, DoModes,
     DoReturnStep, DoQuit, DoDrop, DoEnterName, DoConfirmName, DoSwitch DEF ConnStep

LEMMA NextGoes == ASSUME IInv, ~ amiss', Next, ~ Crash PROVE Goes
  <1>1. CASE \E d \in Conns : ConnStep(d)
    BY <1>1, ConnGoes
  <1>2. CASE \E b \in Bodies : IdleOut(b) \/ MobDies(b) \/ Die(b)
    BY <1>2, DoIdleOut, DoMobDies, DoDie
  <1>3. CASE \E lost \in SUBSET Conns : Copyover(lost)
    BY <1>3, DoCopyover
  <1>4. CASE CopyoverFails
    BY <1>4, DoCopyoverFails
  <1> QED BY <1>1, <1>2, <1>3, <1>4 DEF Next

-----------------------------------------------------------------------------
(* Whatever went amiss: what types need, on any state of the pointers that is *)
(* not Broken.  A connection past the name has a body, its own is a player's, *)
(* and it plays another only past the password.                              *)

Fit(m) ==
  /\ m.state \in Loaded \cup InGame => m.character # NoBody
  /\ m.original = NoBody => m.character \in Conns \cup {NoBody}
  /\ m.original # NoBody => /\ m.original \in Conns /\ m.character # NoBody
                            /\ m.state \in {"creating", "motd"} \cup InGame

Shaped(cn, D) == \A d \in Conns : Fit(cn[d]) /\ (cn[d].state # "none" => d \in D)

Nameless(bd) == \A b \in Mobs : bd[b].owner = NoName

Typed(s) == s \in Pointers /\ Shaped(s.conn, Elements(s.descs)) /\ Nameless(s.body)

Shape == Typed(Now) /\ FileOK /\ amiss \in BOOLEAN

LEMMA NowTyped ==
  ASSUME Shape
  PROVE  /\ Typed(Now) /\ Now \in Pointers /\ FileOK
         /\ Now.conn = conn /\ Now.descs = descs /\ Now.body = body /\ Now.chars = chars
         /\ conn \in [Conns -> Conn] /\ body \in [Bodies -> Body] /\ descs \in Seq(Conns) /\ chars \in Seq(Bodies)
         /\ Shaped(conn, Elements(descs)) /\ Nameless(body)
  <1>1. Now.conn = conn /\ Now.descs = descs /\ Now.body = body /\ Now.chars = chars
    BY DEF Now
  <1>2. Now \in Pointers /\ Shaped(Now.conn, Elements(Now.descs)) /\ Nameless(Now.body) /\ FileOK
    BY DEF Shape, Typed
  <1>3. /\ Now.conn \in [Conns -> Conn] /\ Now.body \in [Bodies -> Body]
        /\ Now.descs \in Seq(Conns) /\ Now.chars \in Seq(Bodies)
    BY <1>2 DEF Pointers
  <1> QED BY <1>1, <1>2, <1>3 DEF Shape

LEMMA ShapeType == Shape => TypeOK
  <1> SUFFICES ASSUME Shape PROVE TypeOK
    OBVIOUS
  <1> QED BY NowTyped DEF Shape, FileOK, TypeOK, Conn, Body

\* The parts of the pointers keep their types.
LEMMA Building ==
  ASSUME NEW cn \in [Conns -> Conn], NEW ds \in Seq(Conns), NEW bd \in [Bodies -> Body],
         NEW cs \in Seq(Bodies), Shaped(cn, Elements(ds)), Nameless(bd)
  PROVE  Typed(Pointing(cn, ds, bd, cs))
  BY DEF Typed, Pointing, Pointers

\* A handler that leaves the types right
LEMMA BecomesTyped ==
  ASSUME NEW s, Typed(s), Becomes(s), FileOK', amiss' \in BOOLEAN
  PROVE  Shape'
  <1>1. s \in Pointers
    BY DEF Typed
  <1>2. s = Pointing(s.conn, s.descs, s.body, s.chars)
    BY <1>1 DEF Pointing, Pointers
  <1>3. Now' = Pointing(s.conn, s.descs, s.body, s.chars)
    BY DEF Becomes, Now, Pointing
  <1> QED BY <1>2, <1>3 DEF Shape, Typed

LEMMA MovesTyped ==
  ASSUME conn' \in [Conns -> Conn], descs' \in Seq(Conns), body' \in [Bodies -> Body],
         chars' \in Seq(Bodies), Shaped(conn', Elements(descs')), Nameless(body'), FileOK', amiss' \in BOOLEAN
  PROVE  Shape'
  <1>1. Typed(Pointing(conn', descs', body', chars'))
    BY Building
  <1>2. Becomes(Pointing(conn', descs', body', chars'))
    BY DEF Becomes, Pointing
  <1> QED BY <1>1, <1>2, BecomesTyped

\* What do_return does, whoever plays c.
Turned(s, c, t, cn, bd) ==
  /\ t = Pointing(cn, s.descs, bd, s.chars)
  /\ \A x \in Conns : cn[x].state = s.conn[x].state /\ (s.conn[x].original = NoBody => cn[x] = s.conn[x])
  /\ \A x \in Bodies : bd[x].owner = s.body[x].owner
  /\ bd[c].desc # NoConn => cn[bd[c].desc].original = NoBody
  /\ Shaped(cn, Elements(s.descs))

LEMMA ReturnTyped ==
  ASSUME NEW s, Typed(s), NEW c \in Bodies
  PROVE  \E cn \in [Conns -> Conn], bd \in [Bodies -> Body] : Turned(s, c, DoReturn(s, c), cn, bd)
  <1>1. /\ s \in Pointers /\ s.conn \in [Conns -> Conn] /\ s.body \in [Bodies -> Body] /\ s.body[c] \in Body
        /\ Shaped(s.conn, Elements(s.descs)) /\ s.body[c].desc \in Conns \cup {NoConn}
    BY BodyFields DEF Typed, Pointers
  <1>2. PICK d : d = s.body[c].desc
    OBVIOUS
  <1>3. CASE d = NoConn \/ s.conn[d].original = NoBody
    <2>1. DoReturn(s, c) = s
      BY <1>2, <1>3 DEF DoReturn
    <2>2. s = Pointing(s.conn, s.descs, s.body, s.chars)
      BY <1>1 DEF Pointing, Pointers
    <2>3. Turned(s, c, DoReturn(s, c), s.conn, s.body)
      BY <1>1, <1>2, <1>3, <2>1, <2>2 DEF Turned
    <2> QED BY <1>1, <2>3
  <1>4. CASE d # NoConn /\ s.conn[d].original # NoBody
    <2>1. d \in Conns /\ s.conn[d] \in Conn
      BY <1>1, <1>2, <1>4
    <2>2. PICK o : o = s.conn[d].original
      OBVIOUS
    <2>3. o \in Conns /\ o \in Bodies /\ o # NoBody /\ s.body[o] \in Body
      BY <1>1, <1>4, <2>1, <2>2, Facts DEF Shaped, Fit
    <2>4. PICK m : m = [s.conn[d] EXCEPT !.character = o, !.original = NoBody]
      OBVIOUS
    <2>5. m \in Conn /\ m.state = s.conn[d].state /\ m.character = o /\ m.original = NoBody
      BY <2>1, <2>3, <2>4 DEF Conn
    <2>6. PICK p : p = [s.body[o] EXCEPT !.desc = d, !.switched = NoBody]
      OBVIOUS
    <2>7. p \in Body /\ p.owner = s.body[o].owner
      BY <2>1, <2>3, <2>6 DEF Body
    <2>8. PICK b1 : b1 = [s.body EXCEPT ![o] = p]
      OBVIOUS
    <2>9. b1 \in [Bodies -> Body] /\ \A x \in Bodies : b1[x].owner = s.body[x].owner
      BY <1>1, <2>3, <2>7, <2>8
    <2>10. PICK q : q = [b1[c] EXCEPT !.desc = NoConn]
      OBVIOUS
    <2>11. q \in Body /\ q.owner = s.body[c].owner /\ q.desc = NoConn
      <3>1. b1[c] \in Body
        BY <2>9
      <3> QED BY <2>9, <2>10, <3>1 DEF Body
    <2>12. PICK bd : bd = [b1 EXCEPT ![c] = q]
      OBVIOUS
    <2>13. /\ bd \in [Bodies -> Body] /\ \A x \in Bodies : bd[x].owner = s.body[x].owner
           /\ bd[c].desc = NoConn
      BY <2>9, <2>11, <2>12
    <2>14. PICK cn : cn = [s.conn EXCEPT ![d] = m]
      OBVIOUS
    <2>15. cn \in [Conns -> Conn] /\ cn[d] = m /\ \A x \in Conns : x # d => cn[x] = s.conn[x]
      BY <1>1, <2>1, <2>5, <2>14
    <2>16. DoReturn(s, c) = Pointing(cn, s.descs, bd, s.chars)
      <3>0. PICK z : z = [s.body EXCEPT ![o].desc = d, ![o].switched = NoBody, ![c].desc = NoConn]
        OBVIOUS
      <3>1. DoReturn(s, c) = [s EXCEPT !.conn[d].character = o, !.conn[d].original = NoBody, !.body = z]
        BY <1>2, <1>4, <2>2, <3>0 DEF DoReturn
      <3>2. [s.body EXCEPT ![o].desc = d, ![o].switched = NoBody, ![c].desc = NoConn] = bd
        <4>1. [s.body EXCEPT ![o].desc = d, ![o].switched = NoBody] = b1
          <5>1. [s.body EXCEPT ![o].desc = d] = [s.body EXCEPT ![o] = [s.body[o] EXCEPT !.desc = d]]
            BY <1>1, <2>3
          <5> QED BY <1>1, <2>3, <2>6, <2>8, <5>1
        <4>2. [b1 EXCEPT ![c].desc = NoConn] = bd
          BY <2>9, <2>10, <2>12
        <4>3. [s.body EXCEPT ![o].desc = d, ![o].switched = NoBody, ![c].desc = NoConn] =
              [[s.body EXCEPT ![o].desc = d, ![o].switched = NoBody] EXCEPT ![c].desc = NoConn]
          OBVIOUS
        <4> QED BY <4>1, <4>2, <4>3
      <3>3. DoReturn(s, c) = [s EXCEPT !.conn = cn, !.body = bd]
        <4>1. [s.conn EXCEPT ![d].character = o, ![d].original = NoBody] = cn
          BY <1>1, <2>1, <2>4, <2>14
        <4>2. [s EXCEPT !.conn[d].character = o, !.conn[d].original = NoBody] = [s EXCEPT !.conn = cn]
          BY <4>1
        <4> QED BY <3>0, <3>1, <3>2, <4>2
      <3> QED BY <1>1, <3>3 DEF Pointers, Pointing
    <2>17. Shaped(cn, Elements(s.descs))
      <3>1. Loaded \cap InGame = {}
        BY DEF Loaded, New, InGame
      <3> QED BY <1>1, <2>1, <2>3, <2>5, <2>15 DEF Shaped, Fit
    <2>18. \A x \in Conns : cn[x].state = s.conn[x].state /\ (s.conn[x].original = NoBody => cn[x] = s.conn[x])
      BY <1>4, <2>5, <2>15
    <2>19. Turned(s, c, DoReturn(s, c), cn, bd)
      BY <2>13, <2>16, <2>17, <2>18 DEF Turned
    <2> QED BY <2>13, <2>15, <2>19
  <1> QED BY <1>3, <1>4

\* After do_return the types are right, and who still plays c has no other body.
LEMMA Turning ==
  ASSUME NEW s, Typed(s), NEW c \in Bodies, NEW t, t = DoReturn(s, c)
  PROVE  /\ Typed(t) /\ t.descs = s.descs /\ t.chars = s.chars
         /\ \A x \in Conns : t.conn[x].state = s.conn[x].state
         /\ \A x \in Conns : s.conn[x].original = NoBody => t.conn[x] = s.conn[x]
         /\ t.body[c].desc # NoConn => t.conn[t.body[c].desc].original = NoBody
  <1>1. PICK cn \in [Conns -> Conn], bd \in [Bodies -> Body] : Turned(s, c, t, cn, bd)
    BY ReturnTyped
  <1>2. t = Pointing(cn, s.descs, bd, s.chars) /\ Shaped(cn, Elements(s.descs))
    BY <1>1 DEF Turned
  <1>3. t.conn = cn /\ t.descs = s.descs /\ t.body = bd /\ t.chars = s.chars
    BY <1>2 DEF Pointing
  <1>4. s.descs \in Seq(Conns) /\ s.chars \in Seq(Bodies) /\ Nameless(s.body)
    BY DEF Typed, Pointers
  <1>5. Nameless(bd)
    BY <1>1, <1>4, Facts DEF Turned, Nameless
  <1>6. Typed(t)
    BY <1>2, <1>4, <1>5, Building
  <1> QED BY <1>1, <1>3, <1>6 DEF Turned

\* The end of close_socket, whatever the connection plays
Shut(r, d) ==
  LET ch == r.conn[d].character IN
  [r EXCEPT !.conn[d] = Closed,
            !.descs = Without(@, d),
            !.body = IF ch = NoBody THEN @
                     ELSE IF r.conn[d].state \in InGame THEN [@ EXCEPT ![ch].desc = NoConn]
                     ELSE [@ EXCEPT ![ch] = Freed]]

ShutAs(r, d, t, cn, bd) ==
  /\ t = Pointing(cn, Without(r.descs, d), bd, r.chars) /\ Nameless(bd)
  /\ cn[d] = Closed /\ \A x \in Conns : x # d => cn[x] = r.conn[x]

LEMMA Shutting ==
  ASSUME NEW r \in Pointers, NEW d \in Conns, Nameless(r.body), NEW t, t = Shut(r, d)
  PROVE  \E cn \in [Conns -> Conn], bd \in [Bodies -> Body] : ShutAs(r, d, t, cn, bd)
  <1>1. /\ r.conn \in [Conns -> Conn] /\ r.body \in [Bodies -> Body] /\ r.conn[d] \in Conn
    BY DEF Pointers
  <1>2. PICK ch : ch = r.conn[d].character
    OBVIOUS
  <1>3. ch \in Bodies \cup {NoBody} /\ (ch # NoBody => ch \in Bodies /\ r.body[ch] \in Body)
    BY <1>1, <1>2 DEF Conn
  <1>4. PICK q : q = IF r.conn[d].state \in InGame THEN [r.body[ch] EXCEPT !.desc = NoConn] ELSE Freed
    OBVIOUS
  <1>5. ch # NoBody => q \in Body /\ q.owner \in {r.body[ch].owner, NoName}
    <2>1. ch # NoBody /\ r.conn[d].state \in InGame => q \in Body /\ q.owner = r.body[ch].owner
      BY <1>3, <1>4 DEF Body
    <2>2. Freed.owner = NoName
      BY DEF Freed
    <2> QED BY <1>4, <2>1, <2>2, ClosedTypes
  <1>6. PICK bd : bd = IF ch = NoBody THEN r.body ELSE [r.body EXCEPT ![ch] = q]
    OBVIOUS
  <1>7. bd \in [Bodies -> Body] /\ Nameless(bd)
    BY <1>1, <1>3, <1>5, <1>6, Facts DEF Nameless
  <1>8. PICK cn : cn = [r.conn EXCEPT ![d] = Closed]
    OBVIOUS
  <1>9. cn \in [Conns -> Conn] /\ cn[d] = Closed /\ \A x \in Conns : x # d => cn[x] = r.conn[x]
    BY <1>1, <1>8, ClosedTypes
  <1>10. t = Pointing(cn, Without(r.descs, d), bd, r.chars)
    <2>1. t = [r EXCEPT !.conn[d] = Closed, !.descs = Without(@, d),
                        !.body = IF ch = NoBody THEN @
                                 ELSE IF r.conn[d].state \in InGame THEN [@ EXCEPT ![ch].desc = NoConn]
                                 ELSE [@ EXCEPT ![ch] = Freed]]
      BY <1>2 DEF Shut
    <2>2. bd = IF ch = NoBody THEN r.body
               ELSE IF r.conn[d].state \in InGame THEN [r.body EXCEPT ![ch].desc = NoConn]
               ELSE [r.body EXCEPT ![ch] = Freed]
      BY <1>1, <1>3, <1>4, <1>6
    <2>3. t = [r EXCEPT !.conn = cn, !.descs = Without(r.descs, d), !.body = bd]
      BY <1>8, <2>1, <2>2
    <2> QED BY <2>3 DEF Pointers, Pointing
  <1> QED BY <1>7, <1>9, <1>10 DEF ShutAs

\* Whoever else is fine stays so when d is closed.
LEMMA ShutShaped ==
  ASSUME NEW r \in Pointers, NEW cn \in [Conns -> Conn], NEW d \in Conns, NEW bc, Shaped(bc, Elements(r.descs)),
         cn[d] = Closed, \A x \in Conns : x # d => cn[x] = bc[x]
  PROVE  Shaped(cn, Elements(Without(r.descs, d))) /\ Without(r.descs, d) \in Seq(Conns)
  <1>1. /\ Elements(Without(r.descs, d)) = Elements(r.descs) \ {d} /\ Without(r.descs, d) \in Seq(Conns)
    BY WithoutList DEF Pointers
  <1>2. "none" \notin Loaded \cup InGame
    BY DEF Loaded, New, InGame
  <1> QED BY <1>1, <1>2, ClosedTypes DEF Shaped, Fit

\* close_socket leaves the types right, and the connections that play no other
\* body alone.
LEMMA CloseTyped ==
  ASSUME NEW s, Typed(s), NEW d \in Conns, NEW t, t = CloseSocket(s, d)
  PROVE  /\ Typed(t) /\ t.descs = Without(s.descs, d) /\ t.chars = s.chars /\ t.conn[d] = Closed
         /\ \A x \in Conns : x # d /\ s.conn[x].original = NoBody => t.conn[x] = s.conn[x]
  <1>1. PICK r : r = IF s.conn[d].original # NoBody THEN DoReturn(s, s.conn[d].character) ELSE s
    OBVIOUS
  <1>2. t = Shut(r, d)
    BY <1>1 DEF CloseSocket, Shut
  <1>3. /\ Typed(r) /\ r.descs = s.descs /\ r.chars = s.chars
        /\ \A x \in Conns : s.conn[x].original = NoBody => r.conn[x] = s.conn[x]
    <2>1. CASE s.conn[d].original = NoBody
      BY <1>1, <2>1
    <2>2. CASE s.conn[d].original # NoBody
      <3>1. s.conn[d].character \in Bodies
        <4>1. s.conn \in [Conns -> Conn] /\ s.conn[d].character # NoBody
          BY <2>2 DEF Typed, Pointers, Shaped, Fit
        <4> QED BY <4>1, ConnFields
      <3> QED BY <1>1, <2>2, <3>1, Turning
    <2> QED BY <2>1, <2>2
  <1>4. r \in Pointers /\ Nameless(r.body) /\ Shaped(r.conn, Elements(r.descs)) /\ r.chars \in Seq(Bodies)
    BY <1>3 DEF Typed, Pointers
  <1>a. PICK cn \in [Conns -> Conn], bd \in [Bodies -> Body] : ShutAs(r, d, t, cn, bd)
    BY <1>2, <1>4, Shutting
  <1>5. /\ t = Pointing(cn, Without(r.descs, d), bd, r.chars) /\ Nameless(bd)
        /\ cn[d] = Closed /\ \A x \in Conns : x # d => cn[x] = r.conn[x]
    BY <1>a DEF ShutAs
  <1>6. Shaped(cn, Elements(Without(r.descs, d))) /\ Without(r.descs, d) \in Seq(Conns)
    BY <1>4, <1>5, ShutShaped
  <1>7. Typed(t)
    BY <1>4, <1>5, <1>6, Building
  <1>8. t.conn = cn /\ t.descs = Without(r.descs, d) /\ t.chars = r.chars
    BY <1>5 DEF Pointing
  <1> QED BY <1>3, <1>5, <1>7, <1>8

\* extract_char leaves the types right.
LEMMA ExtractTyped ==
  ASSUME NEW s, Typed(s), NEW b \in Bodies
  PROVE  Typed(Extract(s, b))
  <1>1. PICK r : r = DoReturn(s, b)
    OBVIOUS
  <1>2. Typed(r) /\ (r.body[b].desc # NoConn => r.conn[r.body[b].desc].original = NoBody)
    BY <1>1, Turning
  <1>3. /\ r \in Pointers /\ r.conn \in [Conns -> Conn] /\ r.body \in [Bodies -> Body]
        /\ r.descs \in Seq(Conns) /\ r.chars \in Seq(Bodies)
        /\ Nameless(r.body) /\ Shaped(r.conn, Elements(r.descs))
    BY <1>2 DEF Typed, Pointers
  <1>4. PICK d : d = r.body[b].desc
    OBVIOUS
  <1>5. PICK q : q = Without(r.chars, b)
    OBVIOUS
  <1>6. q \in Seq(Bodies)
    BY <1>3, <1>5, WithoutList
  <1>7. PICK t : t = [r EXCEPT !.chars = Without(@, b)]
    OBVIOUS
  <1>8. t = Pointing(r.conn, r.descs, r.body, q)
    BY <1>3, <1>5, <1>7 DEF Pointers, Pointing
  <1>9. t.conn = r.conn
    BY <1>8 DEF Pointing
  <1>10. PICK u : u = IF d = NoConn \/ t.conn[d].character # b THEN t
                      ELSE CloseSocket([t EXCEPT !.conn[d].character = NoBody], d)
    OBVIOUS
  <1>11. Extract(s, b) = [u EXCEPT !.body[b] = Freed]
    BY <1>1, <1>4, <1>7, <1>10 DEF Extract
  <1>12. Typed(u)
    <2>1. CASE d = NoConn \/ t.conn[d].character # b
      BY <1>3, <1>6, <1>8, <1>10, <2>1, Building
    <2>2. CASE d # NoConn /\ t.conn[d].character = b
      <3>1. d \in Conns /\ r.conn[d] \in Conn /\ r.conn[d].original = NoBody
        BY <1>2, <1>3, <1>4, <2>2, BodyFields
      <3>2. PICK m : m = [r.conn[d] EXCEPT !.character = NoBody]
        OBVIOUS
      <3>3. m \in Conn /\ m.character = NoBody /\ m.original = NoBody
        BY <3>1, <3>2 DEF Conn
      <3>4. PICK cn : cn = [r.conn EXCEPT ![d] = m]
        OBVIOUS
      <3>5. cn \in [Conns -> Conn] /\ cn[d] = m /\ \A x \in Conns : x # d => cn[x] = r.conn[x]
        BY <1>3, <3>1, <3>3, <3>4
      <3>6. PICK v : v = [t EXCEPT !.conn[d].character = NoBody]
        OBVIOUS
      <3>7. v = Pointing(cn, r.descs, r.body, q)
        BY <1>8, <3>2, <3>4, <3>6 DEF Pointing
      <3>8. v.conn = cn /\ v.descs = r.descs /\ v.body = r.body /\ v.chars = q /\ v \in Pointers
        BY <1>3, <1>6, <3>5, <3>7 DEF Pointing, Pointers
      <3>9. u = Shut(v, d)
        <4>1. u = CloseSocket(v, d)
          BY <1>10, <2>2, <3>6
        <4>2. v.conn[d].original = NoBody
          BY <3>3, <3>5, <3>8
        <4> QED BY <4>1, <4>2 DEF CloseSocket, Shut
      <3>a. PICK ce \in [Conns -> Conn], bd \in [Bodies -> Body] : ShutAs(v, d, u, ce, bd)
        <4>1. Nameless(v.body) /\ v \in Pointers /\ d \in Conns
          BY <1>3, <3>1, <3>8
        <4> QED BY <3>9, <4>1, Shutting
      <3>10. /\ u = Pointing(ce, Without(v.descs, d), bd, v.chars) /\ Nameless(bd)
             /\ ce[d] = Closed /\ \A x \in Conns : x # d => ce[x] = v.conn[x]
        BY <3>a DEF ShutAs
      <3>11. \A x \in Conns : x # d => ce[x] = r.conn[x]
        BY <3>5, <3>8, <3>10
      <3>12. Shaped(ce, Elements(Without(r.descs, d))) /\ Without(r.descs, d) \in Seq(Conns)
        BY <1>3, <3>1, <3>10, <3>11, ShutShaped
      <3> QED BY <1>6, <3>8, <3>10, <3>12, Building
    <2> QED BY <2>1, <2>2
  <1>13. /\ u \in Pointers /\ u.conn \in [Conns -> Conn] /\ u.body \in [Bodies -> Body]
         /\ u.descs \in Seq(Conns) /\ u.chars \in Seq(Bodies)
         /\ Nameless(u.body) /\ Shaped(u.conn, Elements(u.descs))
    BY <1>12 DEF Typed, Pointers
  <1>14. PICK bd : bd = [u.body EXCEPT ![b] = Freed]
    OBVIOUS
  <1>15. bd \in [Bodies -> Body] /\ Nameless(bd)
    <2>1. Freed.owner = NoName
      BY DEF Freed
    <2> QED BY <1>13, <1>14, <2>1, ClosedTypes, Facts DEF Nameless
  <1>16. [u EXCEPT !.body[b] = Freed] = Pointing(u.conn, u.descs, bd, u.chars)
    <2>1. [u EXCEPT !.body[b] = Freed] = [u EXCEPT !.body = bd]
      BY <1>14
    <2> QED BY <1>13, <2>1 DEF Pointing, Pointers
  <1> QED BY <1>11, <1>13, <1>15, <1>16, Building

\* The connection d becomes m, and nothing else changes the pointers.
LEMMA PutTyped ==
  ASSUME NEW s, Typed(s), NEW d \in Conns, NEW m \in Conn, Fit(m),
         s.conn[d].state # "none" \/ m.state = "none", NEW bd \in [Bodies -> Body], Nameless(bd)
  PROVE  Typed(Pointing([s.conn EXCEPT ![d] = m], s.descs, bd, s.chars))
  <1>1. /\ s.conn \in [Conns -> Conn] /\ s.descs \in Seq(Conns) /\ s.chars \in Seq(Bodies)
        /\ Shaped(s.conn, Elements(s.descs))
    BY DEF Typed, Pointers
  <1>2. PICK cn : cn = [s.conn EXCEPT ![d] = m]
    OBVIOUS
  <1>3. cn \in [Conns -> Conn] /\ cn[d] = m /\ \A x \in Conns : x # d => cn[x] = s.conn[x]
    BY <1>1, <1>2
  <1>4. Shaped(cn, Elements(s.descs))
    BY <1>1, <1>3 DEF Shaped
  <1> QED BY <1>1, <1>2, <1>3, <1>4, Building

LEMMA OneTyped ==
  ASSUME Shape, NEW d \in Conns, NEW m \in Conn, Fit(m), conn[d].state # "none",
         conn' = [conn EXCEPT ![d] = m], descs' = descs, body' \in [Bodies -> Body], Nameless(body'),
         chars' \in Seq(Bodies), FileOK', amiss' \in BOOLEAN
  PROVE  Shape'
  <1>1. /\ conn \in [Conns -> Conn] /\ descs \in Seq(Conns) /\ Shaped(conn, Elements(descs))
    BY NowTyped
  <1>2. PICK cn : cn = [conn EXCEPT ![d] = m]
    OBVIOUS
  <1>3. cn \in [Conns -> Conn] /\ cn[d] = m /\ \A x \in Conns : x # d => cn[x] = conn[x]
    BY <1>1, <1>2
  <1>4. Shaped(cn, Elements(descs))
    BY <1>1, <1>3 DEF Shaped
  <1>5. conn' = cn
    BY <1>2
  <1> QED BY <1>1, <1>3, <1>4, <1>5, MovesTyped

\* Only the state of d moves.
LEMMA StateTyped ==
  ASSUME Shape, NEW d \in Conns, NEW m \in Conn, m.character = conn[d].character, m.original = conn[d].original,
         conn[d].state # "none",
         m.state \in Loaded \cup InGame => conn[d].state \in Loaded \cup InGame,
         conn[d].state \in {"creating", "motd"} \cup InGame => m.state \in {"creating", "motd"} \cup InGame,
         conn' = [conn EXCEPT ![d] = m], UNCHANGED <<descs, body, chars, file>>, amiss' \in BOOLEAN
  PROVE  Shape'
  <1>1. /\ conn \in [Conns -> Conn] /\ body \in [Bodies -> Body] /\ Nameless(body) /\ chars \in Seq(Bodies)
        /\ FileOK /\ Shaped(conn, Elements(descs))
    BY NowTyped
  <1>2. Fit(m)
    BY <1>1 DEF Shaped, Fit
  <1>3. FileOK'
    BY <1>1, FileKept
  <1>4. body' \in [Bodies -> Body] /\ Nameless(body') /\ chars' \in Seq(Bodies) /\ descs' = descs
    BY <1>1
  <1> QED BY <1>2, <1>3, <1>4, OneTyped

\* A player whose connection is on the list, his body not freed, has a name.
LEMMA NamedOn ==
  ASSUME Shape, ~ Broken, NEW d \in Conns, conn[d].state \in Loaded \cup InGame
  PROVE  NameOn(d) \in Names /\ Own(d) \in Conns /\ NameOn(d) = body[Own(d)].owner
  <1>1. /\ conn \in [Conns -> Conn] /\ body \in [Bodies -> Body] /\ Shaped(conn, Elements(descs))
    BY NowTyped
  <1>2. conn[d].state # "none"
    BY DEF Loaded, New, InGame
  <1>3. d \in Elements(descs) /\ Own(d) \in Conns /\ Own(d) \in {conn[d].character, conn[d].original}
    BY <1>1, <1>2, Facts DEF Shaped, Fit, Own
  <1>4. Own(d) # NoBody /\ Own(d) \in Bodies
    BY <1>3, Facts
  <1>5. Live(Own(d))
    BY <1>3, <1>4 DEF Broken
  <1>6. body[Own(d)].owner # NoName
    BY <1>3, <1>5 DEF Broken, Live, IsPlayer
  <1> QED BY <1>1, <1>3, <1>4, <1>6, BodyFields DEF NameOn

LEMMA NamedHere ==
  ASSUME Shape, ~ Broken, NEW b \in Elements(chars), b \in Conns
  PROVE  body[b].owner \in Names
  <1>1. body \in [Bodies -> Body] /\ b \in Bodies
    BY NowTyped, Facts
  <1>2. body[b].owner # NoName
    BY DEF Broken, IsPlayer
  <1> QED BY <1>1, <1>2, BodyFields

\* The handlers that only move the state of a connection
LEMMA StatesMoved ==
  ASSUME Shape, NEW d \in Conns,
         \/ AskForNew(d) \/ Create(d) \/ Reload(d) \/ StartMode(d) \/ EndMode(d) \/ ConfirmName(d, TRUE)
  PROVE  Shape'
  <1>1. conn \in [Conns -> Conn] /\ conn[d] \in Conn /\ amiss \in BOOLEAN
    BY NowTyped DEF Shape
  <1>2. CASE AskForNew(d)
    <2>1. PICK m : m = [conn[d] EXCEPT !.state = "newname"]
      OBVIOUS
    <2>2. m \in Conn /\ m.character = conn[d].character /\ m.original = conn[d].original /\ m.state = "newname"
      BY <1>1, <2>1 DEF Conn, LoggingIn, InGame
    <2>3. /\ conn' = [conn EXCEPT ![d] = m] /\ conn[d].state = "name"
          /\ UNCHANGED <<descs, body, chars, file>> /\ amiss' \in BOOLEAN
      BY <1>1, <1>2, <2>1 DEF AskForNew
    <2>4. /\ conn[d].state # "none"
          /\ m.state \in Loaded \cup InGame => conn[d].state \in Loaded \cup InGame
          /\ conn[d].state \in {"creating", "motd"} \cup InGame => m.state \in {"creating", "motd"} \cup InGame
      BY <2>2, <2>3 DEF Loaded, New, InGame
    <2> QED BY <2>2, <2>3, <2>4, StateTyped
  <1>3. CASE Create(d)
    <2>1. PICK m : m = [conn[d] EXCEPT !.state = "motd"]
      OBVIOUS
    <2>2. m \in Conn /\ m.character = conn[d].character /\ m.original = conn[d].original /\ m.state = "motd"
      BY <1>1, <2>1 DEF Conn, LoggingIn, InGame
    <2>3. /\ conn' = [conn EXCEPT ![d] = m] /\ conn[d].state = "creating"
          /\ UNCHANGED <<descs, body, chars, file>> /\ amiss' \in BOOLEAN
      BY <1>1, <1>3, <2>1 DEF Create
    <2>4. /\ conn[d].state # "none"
          /\ m.state \in Loaded \cup InGame => conn[d].state \in Loaded \cup InGame
          /\ conn[d].state \in {"creating", "motd"} \cup InGame => m.state \in {"creating", "motd"} \cup InGame
      BY <2>2, <2>3 DEF Loaded, New, InGame
    <2> QED BY <2>2, <2>3, <2>4, StateTyped
  <1>4. CASE Reload(d)
    <2>1. PICK m : m = [conn[d] EXCEPT !.state = "motd"]
      OBVIOUS
    <2>2. m \in Conn /\ m.character = conn[d].character /\ m.original = conn[d].original /\ m.state = "motd"
      BY <1>1, <2>1 DEF Conn, LoggingIn, InGame
    <2>3. /\ conn' = [conn EXCEPT ![d] = m] /\ conn[d].state = "password"
          /\ UNCHANGED <<descs, body, chars, file>> /\ amiss' \in BOOLEAN
      BY <1>1, <1>4, <2>1 DEF Reload
    <2>4. /\ conn[d].state # "none"
          /\ m.state \in Loaded \cup InGame => conn[d].state \in Loaded \cup InGame
          /\ conn[d].state \in {"creating", "motd"} \cup InGame => m.state \in {"creating", "motd"} \cup InGame
      BY <2>2, <2>3 DEF Loaded, New, InGame
    <2> QED BY <2>2, <2>3, <2>4, StateTyped
  <1>5. CASE ConfirmName(d, TRUE)
    <2>1. PICK m : m = [conn[d] EXCEPT !.state = "creating"]
      OBVIOUS
    <2>2. m \in Conn /\ m.character = conn[d].character /\ m.original = conn[d].original /\ m.state = "creating"
      BY <1>1, <2>1 DEF Conn, LoggingIn, InGame
    <2>3. /\ conn' = [conn EXCEPT ![d] = m] /\ conn[d].state = "confirm"
          /\ UNCHANGED <<descs, body, chars, file>> /\ amiss' \in BOOLEAN
      BY <1>1, <1>5, <2>1 DEF ConfirmName
    <2>4. /\ conn[d].state # "none"
          /\ m.state \in Loaded \cup InGame => conn[d].state \in Loaded \cup InGame
          /\ conn[d].state \in {"creating", "motd"} \cup InGame => m.state \in {"creating", "motd"} \cup InGame
      BY <2>2, <2>3 DEF Loaded, New, InGame
    <2> QED BY <2>2, <2>3, <2>4, StateTyped
  <1>6. CASE StartMode(d)
    <2>1. PICK m : m = [conn[d] EXCEPT !.state = "mode", !.work = TRUE]
      OBVIOUS
    <2>2. m \in Conn /\ m.character = conn[d].character /\ m.original = conn[d].original /\ m.state = "mode"
      BY <1>1, <2>1 DEF Conn, LoggingIn, InGame
    <2>3. /\ conn' = [conn EXCEPT ![d] = m] /\ conn[d].state = "playing"
          /\ UNCHANGED <<descs, body, chars, file>> /\ amiss' \in BOOLEAN
      BY <1>1, <1>6, <2>1 DEF StartMode, InBody, Playing
    <2>4. /\ conn[d].state # "none"
          /\ m.state \in Loaded \cup InGame => conn[d].state \in Loaded \cup InGame
          /\ conn[d].state \in {"creating", "motd"} \cup InGame => m.state \in {"creating", "motd"} \cup InGame
      BY <2>2, <2>3 DEF Loaded, New, InGame
    <2> QED BY <2>2, <2>3, <2>4, StateTyped
  <1>7. CASE EndMode(d)
    <2>1. PICK m : m = [conn[d] EXCEPT !.state = "playing", !.work = FALSE]
      OBVIOUS
    <2>2. m \in Conn /\ m.character = conn[d].character /\ m.original = conn[d].original /\ m.state = "playing"
      BY <1>1, <2>1 DEF Conn, LoggingIn, InGame
    <2>3. /\ conn' = [conn EXCEPT ![d] = m] /\ conn[d].state = "mode"
          /\ UNCHANGED <<descs, body, chars, file>> /\ amiss' \in BOOLEAN
      BY <1>1, <1>7, <2>1 DEF EndMode
    <2>4. /\ conn[d].state # "none"
          /\ m.state \in Loaded \cup InGame => conn[d].state \in Loaded \cup InGame
          /\ conn[d].state \in {"creating", "motd"} \cup InGame => m.state \in {"creating", "motd"} \cup InGame
      BY <2>2, <2>3 DEF Loaded, New, InGame
    <2> QED BY <2>2, <2>3, <2>4, StateTyped
  <1> QED BY <1>2, <1>3, <1>4, <1>5, <1>6, <1>7

LEMMA PasswordChanged == ASSUME Shape, NEW d \in Conns, ChangePassword(d) PROVE Shape'
  <1>1. conn \in [Conns -> Conn] /\ conn[d] \in Conn /\ amiss \in BOOLEAN
    BY NowTyped DEF Shape
  <1>2. PICK st \in {"changing", "playing", "creating"} :
          conn' = [conn EXCEPT ![d].state = st] /\ conn[d].state \in InGame
    BY DEF ChangePassword, InBody, Playing, InGame
  <1>3. PICK m : m = [conn[d] EXCEPT !.state = st]
    OBVIOUS
  <1>4. m \in Conn /\ m.character = conn[d].character /\ m.original = conn[d].original /\ m.state = st
    BY <1>1, <1>3 DEF Conn, LoggingIn, InGame
  <1>5. conn' = [conn EXCEPT ![d] = m] /\ UNCHANGED <<descs, body, chars, file>> /\ amiss' \in BOOLEAN
    BY <1>1, <1>2, <1>3 DEF ChangePassword
  <1>6. conn[d].state # "none" /\ m.state \in {"creating", "motd"} \cup InGame
    BY <1>2, <1>4 DEF InGame
  <1> QED BY <1>2, <1>4, <1>5, <1>6, StateTyped

LEMMA ConnectTyped == ASSUME Shape, NEW d \in Conns, Connect(d) PROVE Shape'
  <1>1. /\ conn \in [Conns -> Conn] /\ descs \in Seq(Conns) /\ body \in [Bodies -> Body] /\ chars \in Seq(Bodies)
        /\ Shaped(conn, Elements(descs)) /\ Nameless(body) /\ FileOK /\ amiss \in BOOLEAN
    BY NowTyped DEF Shape
  <1>2. PICK m : m = [Closed EXCEPT !.state = "name"]
    OBVIOUS
  <1>3. m \in Conn /\ m.state = "name" /\ m.character = NoBody /\ m.original = NoBody
    BY <1>2 DEF Conn, Closed, LoggingIn
  <1>4. conn' = [conn EXCEPT ![d] = m] /\ descs' = Append(descs, d) /\ UNCHANGED <<body, chars, file, amiss>>
    BY <1>2 DEF Connect
  <1>5. conn' \in [Conns -> Conn] /\ conn'[d] = m /\ \A x \in Conns : x # d => conn'[x] = conn[x]
    BY <1>1, <1>3, <1>4
  <1>6. descs' \in Seq(Conns) /\ Elements(descs') = Elements(descs) \cup {d}
    BY <1>1, <1>4, AppendList
  <1>7. Fit(m)
    BY <1>3 DEF Fit, Loaded, New, InGame
  <1>8. Shaped(conn', Elements(descs'))
    BY <1>1, <1>5, <1>6, <1>7 DEF Shaped
  <1>9. FileOK'
    BY <1>1, <1>4, FileKept
  <1> QED BY <1>1, <1>4, <1>5, <1>6, <1>8, <1>9, MovesTyped

LEMMA EnterNameTyped == ASSUME Shape, NEW d \in Conns, NEW n \in Names, EnterName(d, n) PROVE Shape'
  <1>1. /\ conn \in [Conns -> Conn] /\ conn[d] \in Conn /\ body \in [Bodies -> Body] /\ chars \in Seq(Bodies)
        /\ Shaped(conn, Elements(descs)) /\ Nameless(body) /\ FileOK /\ amiss \in BOOLEAN
    BY NowTyped DEF Shape
  <1>2. PICK st \in {"password", "confirm"} :
          conn' = [conn EXCEPT ![d].state = st, ![d].character = d] /\ conn[d].state \in Asked
    BY DEF EnterName, Asked
  <1>3. PICK m : m = [conn[d] EXCEPT !.state = st, !.character = d]
    OBVIOUS
  <1>4. conn[d].original = NoBody /\ conn[d].state # "none"
    BY <1>1, <1>2 DEF Shaped, Fit, Asked, InGame
  <1>5. m \in Conn /\ m.state = st /\ m.character = d /\ m.original = NoBody
    BY <1>1, <1>3, <1>4, Facts DEF Conn, LoggingIn
  <1>6. Fit(m)
    BY <1>5, Facts DEF Fit
  <1>7. conn' = [conn EXCEPT ![d] = m]
    BY <1>2, <1>3
  <1>8. PICK p : p = [owner |-> n, desc |-> d, switched |-> NoBody]
    OBVIOUS
  <1>9. p \in Body /\ d \in Bodies
    BY <1>8, Facts DEF Body
  <1>10. body' = [body EXCEPT ![d] = p] /\ UNCHANGED <<descs, chars, file, amiss>>
    BY <1>8 DEF EnterName
  <1>11. body' \in [Bodies -> Body] /\ Nameless(body')
    BY <1>1, <1>9, <1>10, Facts DEF Nameless
  <1>12. FileOK'
    BY <1>1, <1>10, FileKept
  <1> QED BY <1>1, <1>4, <1>5, <1>6, <1>7, <1>10, <1>11, <1>12, OneTyped

LEMMA RefusedTyped == ASSUME Shape, NEW d \in Conns, ConfirmName(d, FALSE) PROVE Shape'
  <1>1. /\ conn \in [Conns -> Conn] /\ conn[d] \in Conn /\ body \in [Bodies -> Body] /\ chars \in Seq(Bodies)
        /\ Shaped(conn, Elements(descs)) /\ Nameless(body) /\ FileOK /\ amiss \in BOOLEAN
    BY NowTyped DEF Shape
  <1>2. PICK m : m = [conn[d] EXCEPT !.state = "newname", !.character = NoBody]
    OBVIOUS
  <1>3. /\ conn[d].state = "confirm" /\ conn' = [conn EXCEPT ![d] = m]
        /\ body' = [body EXCEPT ![d] = Freed] /\ UNCHANGED <<descs, chars, file, amiss>>
    BY <1>2 DEF ConfirmName
  <1>4. conn[d].original = NoBody
    BY <1>1, <1>3 DEF Shaped, Fit, InGame
  <1>5. m \in Conn /\ m.state = "newname" /\ m.character = NoBody /\ m.original = NoBody
    BY <1>1, <1>2, <1>4 DEF Conn, LoggingIn
  <1>6. Fit(m)
    BY <1>5 DEF Fit, Loaded, New, InGame
  <1>7. body' \in [Bodies -> Body] /\ Nameless(body')
    BY <1>1, <1>3, ClosedTypes, Facts DEF Nameless
  <1>8. FileOK'
    BY <1>1, <1>3, FileKept
  <1> QED BY <1>1, <1>3, <1>5, <1>6, <1>7, <1>8, OneTyped

LEMMA EnterTyped == ASSUME Shape, NEW d \in Conns, EnterGame(d) PROVE Shape'
  <1>1. /\ conn \in [Conns -> Conn] /\ conn[d] \in Conn /\ body \in [Bodies -> Body] /\ chars \in Seq(Bodies)
        /\ Shaped(conn, Elements(descs)) /\ Nameless(body) /\ FileOK /\ amiss \in BOOLEAN
    BY NowTyped DEF Shape
  <1>2. PICK m : m = [conn[d] EXCEPT !.state = "playing"]
    OBVIOUS
  <1>3. m \in Conn /\ m.character = conn[d].character /\ m.original = conn[d].original /\ m.state = "playing"
    BY <1>1, <1>2 DEF Conn, InGame
  <1>4. /\ conn[d].state = "motd" /\ conn' = [conn EXCEPT ![d] = m] /\ chars' = Append(chars, conn[d].character)
        /\ UNCHANGED <<descs, body, file, amiss>>
    BY <1>2 DEF EnterGame
  <1>5. conn[d].character \in Bodies
    <2>1. conn[d].character # NoBody
      BY <1>1, <1>4 DEF Shaped, Fit, Loaded, New
    <2> QED BY <1>1, <2>1 DEF Conn
  <1>6. Fit(m)
    BY <1>1, <1>3, <1>4 DEF Shaped, Fit, Loaded, New, InGame
  <1>7. chars' \in Seq(Bodies)
    BY <1>1, <1>4, <1>5, AppendList
  <1>8. FileOK'
    BY <1>1, <1>4, FileKept
  <1> QED BY <1>1, <1>3, <1>4, <1>6, <1>7, <1>8, OneTyped

LEMMA SwitchTyped == ASSUME Shape, NEW d \in Conns, NEW v \in Bodies, Switch(d, v) PROVE Shape'
  <1>1. /\ conn \in [Conns -> Conn] /\ conn[d] \in Conn /\ body \in [Bodies -> Body] /\ chars \in Seq(Bodies)
        /\ Shaped(conn, Elements(descs)) /\ Nameless(body) /\ FileOK /\ amiss \in BOOLEAN
    BY NowTyped DEF Shape
  <1>2. PICK ch : ch = conn[d].character
    OBVIOUS
  <1>3. PICK m : m = [conn[d] EXCEPT !.character = v, !.original = ch]
    OBVIOUS
  <1>4. /\ conn[d].state = "playing" /\ conn[d].original = NoBody
        /\ conn' = [conn EXCEPT ![d] = m]
        /\ body' = [body EXCEPT ![v].desc = d, ![ch].desc = NoConn, ![ch].switched = v]
        /\ UNCHANGED <<descs, chars, file>> /\ amiss' \in BOOLEAN
    BY <1>1, <1>2, <1>3 DEF Switch, Playing, Away
  <1>5. ch \in Conns /\ ch # NoBody
    BY <1>1, <1>2, <1>4 DEF Shaped, Fit, InGame
  <1>6. m \in Conn /\ m.character = v /\ m.original = ch /\ m.state = "playing"
    BY <1>1, <1>3, <1>4, <1>5, Facts DEF Conn
  <1>7. Fit(m)
    BY <1>5, <1>6, Facts DEF Fit, InGame
  <1>8. body' \in [Bodies -> Body] /\ Nameless(body')
    <2>1. ch \in Bodies /\ body[v] \in Body
      BY <1>1, <1>5, Facts
    <2>2. PICK p : p = [body[v] EXCEPT !.desc = d]
      OBVIOUS
    <2>3. p \in Body /\ p.owner = body[v].owner
      BY <2>1, <2>2 DEF Body
    <2>4. PICK b1 : b1 = [body EXCEPT ![v] = p]
      OBVIOUS
    <2>5. b1 \in [Bodies -> Body] /\ \A x \in Bodies : b1[x].owner = body[x].owner
      BY <1>1, <2>3, <2>4
    <2>6. PICK q : q = [b1[ch] EXCEPT !.desc = NoConn, !.switched = v]
      OBVIOUS
    <2>7. q \in Body /\ q.owner = body[ch].owner
      <3>1. b1[ch] \in Body
        BY <2>1, <2>5
      <3> QED BY <2>1, <2>5, <2>6, <3>1 DEF Body
    <2>8. PICK b2 : b2 = [b1 EXCEPT ![ch] = q]
      OBVIOUS
    <2>9. b2 \in [Bodies -> Body] /\ \A x \in Bodies : b2[x].owner = body[x].owner
      BY <2>1, <2>5, <2>7, <2>8
    <2>10. body' = b2
      <3>1. [body EXCEPT ![v].desc = d] = b1
        BY <1>1, <2>2, <2>4
      <3>2. [b1 EXCEPT ![ch].desc = NoConn, ![ch].switched = v] = b2
        BY <2>1, <2>5, <2>6, <2>8
      <3>3. [body EXCEPT ![v].desc = d, ![ch].desc = NoConn, ![ch].switched = v] =
            [[body EXCEPT ![v].desc = d] EXCEPT ![ch].desc = NoConn, ![ch].switched = v]
        OBVIOUS
      <3> QED BY <1>4, <3>1, <3>2, <3>3
    <2> QED BY <1>1, <2>9, <2>10, Facts DEF Nameless
  <1>9. FileOK'
    BY <1>1, <1>4, FileKept
  <1> QED BY <1>1, <1>4, <1>6, <1>7, <1>8, <1>9, OneTyped

\* The handlers that leave the pointers alone or give them to one block
LEMMA SaveTyped == ASSUME Shape, ~ Broken, NEW d \in Conns, Save(d) PROVE Shape'
  <1>1. FileOK /\ Typed(Now) /\ amiss \in BOOLEAN
    BY NowTyped DEF Shape
  <1>2. conn[d].state \in InGame /\ file' = Written({NameOn(d)}, "whole")
        /\ UNCHANGED <<conn, descs, body, chars, amiss>>
    BY DEF Save, InBody, Playing, InGame
  <1>3. NameOn(d) \in Names
    BY <1>2, NamedOn
  <1>4. FileOK'
    BY <1>1, <1>2, <1>3, Writing
  <1>5. Becomes(Now)
    BY <1>2 DEF Becomes, Now
  <1> QED BY <1>1, <1>2, <1>4, <1>5, BecomesTyped

LEMMA ReturnedTyped == ASSUME Shape, NEW d \in Conns, Return(d) PROVE Shape'
  <1>1. /\ FileOK /\ Typed(Now) /\ amiss \in BOOLEAN /\ conn \in [Conns -> Conn]
        /\ Shaped(conn, Elements(descs))
    BY NowTyped DEF Shape
  <1>2. PICK c : c = conn[d].character
    OBVIOUS
  <1>3. PICK t : t = DoReturn(Now, c)
    OBVIOUS
  <1>4. conn[d].original # NoBody /\ Becomes(t) /\ file' = file /\ amiss' = amiss
    BY <1>2, <1>3 DEF Return
  <1>5. c \in Bodies
    BY <1>1, <1>2, <1>4, ConnFields DEF Shaped, Fit
  <1>6. Typed(t)
    BY <1>1, <1>3, <1>5, Turning
  <1>7. FileOK'
    BY <1>1, <1>4, FileKept
  <1> QED BY <1>1, <1>4, <1>6, <1>7, BecomesTyped

LEMMA QuitTyped == ASSUME Shape, ~ Broken, NEW d \in Conns, Quit(d) PROVE Shape'
  <1>1. FileOK /\ Typed(Now) /\ amiss \in BOOLEAN
    BY NowTyped DEF Shape
  <1>2. PICK b : b = conn[d].character
    OBVIOUS
  <1>3. PICK t : t = Extract(Now, b)
    OBVIOUS
  <1>4. b \in Conns /\ conn[d].state \in InGame /\ Saved(NameOn(d)) /\ Becomes(t) /\ amiss' = amiss
    BY <1>2, <1>3 DEF Quit, InBody, Playing, IsPlayer, InGame
  <1>5. Typed(t)
    BY <1>1, <1>3, <1>4, Facts, ExtractTyped
  <1>6. FileOK'
    <2>1. NameOn(d) \in Names
      BY <1>4, NamedOn
    <2> QED BY <1>1, <1>4, <2>1, Saving
  <1> QED BY <1>1, <1>4, <1>5, <1>6, BecomesTyped

LEMMA LeftTyped ==
  ASSUME Shape, ~ Broken, NEW b \in Bodies, IdleOut(b) \/ MobDies(b) \/ Die(b)
  PROVE  Shape'
  <1>1. FileOK /\ Typed(Now) /\ amiss \in BOOLEAN
    BY NowTyped DEF Shape
  <1>2. PICK t : t = Extract(Now, b)
    OBVIOUS
  <1>3. Becomes(t) /\ amiss' \in BOOLEAN
    BY <1>1, <1>2 DEF IdleOut, MobDies, Die, Away
  <1>4. Typed(t)
    BY <1>1, <1>2, ExtractTyped
  <1>5. FileOK'
    <2>1. CASE file' = file
      BY <1>1, <2>1, FileKept
    <2>2. CASE b \in Elements(chars) /\ b \in Conns /\ Saved(body[b].owner)
      <3>1. body[b].owner \in Names
        BY <2>2, NamedHere
      <3> QED BY <1>1, <2>2, <3>1, Saving
    <2>3. CASE file' = [n \in DOMAIN file \ {body[b].owner} |-> file[n]]
      BY <1>1, <2>3 DEF FileOK
    <2> QED BY <2>1, <2>2, <2>3 DEF IdleOut, MobDies, Die, IsPlayer
  <1> QED BY <1>3, <1>4, <1>5, BecomesTyped

LEMMA DropTyped == ASSUME Shape, ~ Broken, NEW d \in Conns, Drop(d) PROVE Shape'
  <1>1. FileOK /\ Typed(Now) /\ amiss \in BOOLEAN
    BY NowTyped DEF Shape
  <1>2. PICK t : t = CloseSocket(Now, d)
    OBVIOUS
  <1>3. Becomes(t) /\ amiss' = amiss
    BY <1>2 DEF Drop
  <1>4. Typed(t)
    BY <1>1, <1>2, CloseTyped
  <1>5. FileOK'
    <2>1. CASE conn[d].state \in InGame /\ IsPlayer(conn[d].character)
      <3>1. Saved(NameOn(d)) /\ NameOn(d) \in Names
        BY <2>1, NamedOn DEF Drop
      <3> QED BY <1>1, <3>1, Saving
    <2>2. CASE ~ (conn[d].state \in InGame /\ IsPlayer(conn[d].character))
      <3>1. file' = file
        BY <2>2 DEF Drop
      <3> QED BY <1>1, <3>1, FileKept
    <2> QED BY <2>1, <2>2
  <1> QED BY <1>1, <1>3, <1>4, <1>5, BecomesTyped

\* d, who plays no other body, takes the player's body ch for the one loaded on it.
LEMMA AdoptTyped ==
  ASSUME NEW r, Typed(r), NEW d \in Conns, NEW ch \in Conns,
         r.conn[d].state # "none", r.conn[d].original = NoBody, NEW s, s = Adopt(r, d, ch)
  PROVE  /\ Typed(s) /\ s.conn[d].character = ch /\ s.conn[d].original = NoBody
         /\ s.conn[d].state = r.conn[d].state
  <1>1. /\ r \in Pointers /\ r.conn \in [Conns -> Conn] /\ r.body \in [Bodies -> Body] /\ Nameless(r.body)
        /\ r.conn[d] \in Conn /\ d \in Bodies /\ ch \in Bodies /\ ch \notin Mobs /\ d \notin Mobs
    BY Facts DEF Typed, Pointers
  <1>2. PICK m : m = [r.conn[d] EXCEPT !.character = ch]
    OBVIOUS
  <1>3. m \in Conn /\ m.character = ch /\ m.original = NoBody /\ m.state = r.conn[d].state
    BY <1>1, <1>2 DEF Conn
  <1>4. Fit(m)
    BY <1>1, <1>3, Facts DEF Fit
  <1>5. PICK b1 : b1 = [r.body EXCEPT ![d] = Freed]
    OBVIOUS
  <1>6. b1 \in [Bodies -> Body] /\ \A x \in Mobs : b1[x] = r.body[x]
    BY <1>1, <1>5, ClosedTypes, Facts
  <1>7. PICK p : p = [b1[ch] EXCEPT !.desc = d]
    OBVIOUS
  <1>8. p \in Body
    <2>1. b1[ch] \in Body
      BY <1>1, <1>6
    <2> QED BY <1>7, <2>1 DEF Body
  <1>9. PICK bd : bd = [b1 EXCEPT ![ch] = p]
    OBVIOUS
  <1>10. bd \in [Bodies -> Body] /\ Nameless(bd)
    BY <1>1, <1>6, <1>8, <1>9, Facts DEF Nameless
  <1>11. PICK cn : cn = [r.conn EXCEPT ![d] = m]
    OBVIOUS
  <1>12. s = Pointing(cn, r.descs, bd, r.chars)
    <2>1. [r.conn EXCEPT ![d].character = ch] = cn
      BY <1>1, <1>2, <1>11
    <2>2. [r.body EXCEPT ![d] = Freed, ![ch].desc = d] = bd
      <3>1. [r.body EXCEPT ![d] = Freed, ![ch].desc = d] = [[r.body EXCEPT ![d] = Freed] EXCEPT ![ch].desc = d]
        OBVIOUS
      <3>2. [b1 EXCEPT ![ch].desc = d] = bd
        BY <1>1, <1>6, <1>7, <1>9
      <3> QED BY <1>5, <3>1, <3>2
    <2>3. s = [r EXCEPT !.conn[d].character = ch, !.body = [r.body EXCEPT ![d] = Freed, ![ch].desc = d]]
      BY DEF Adopt
    <2>4. s = [r EXCEPT !.conn = cn, !.body = bd]
      BY <2>1, <2>2, <2>3
    <2> QED BY <1>1, <2>4 DEF Pointing, Pointers
  <1>13. Typed(s)
    BY <1>3, <1>4, <1>10, <1>11, <1>12, PutTyped
  <1>14. s.conn[d] = m
    BY <1>1, <1>3, <1>11, <1>12 DEF Pointing
  <1> QED BY <1>3, <1>13, <1>14

\* d, who has a player's body and no other, comes into the game.
LEMMA SeatTyped ==
  ASSUME NEW t, Typed(t), NEW d \in Conns, t.conn[d].state # "none", t.conn[d].original = NoBody,
         t.conn[d].character \in Conns, NEW st \in InGame
  PROVE  Typed([t EXCEPT !.conn[d].state = st])
  <1>1. /\ t \in Pointers /\ t.conn \in [Conns -> Conn] /\ t.body \in [Bodies -> Body] /\ Nameless(t.body)
        /\ t.conn[d] \in Conn
    BY DEF Typed, Pointers
  <1>2. PICK m : m = [t.conn[d] EXCEPT !.state = st]
    OBVIOUS
  <1>3. m \in Conn /\ m.character = t.conn[d].character /\ m.original = NoBody /\ m.state = st
    BY <1>1, <1>2 DEF Conn
  <1>4. Fit(m)
    BY <1>3, Facts DEF Fit
  <1>5. PICK cn : cn = [t.conn EXCEPT ![d] = m]
    OBVIOUS
  <1>6. cn \in [Conns -> Conn]
    BY <1>1, <1>3, <1>5
  <1>7. [t EXCEPT !.conn[d].state = st] = Pointing(cn, t.descs, t.body, t.chars)
    <2>1. [t.conn EXCEPT ![d].state = st] = cn
      BY <1>1, <1>2, <1>5
    <2>2. [t EXCEPT !.conn[d].state = st] = [t EXCEPT !.conn = cn]
      BY <2>1
    <2> QED BY <1>1, <2>2 DEF Pointing, Pointers
  <1> QED BY <1>1, <1>3, <1>4, <1>5, <1>7, PutTyped

\* A body that is played by nobody
LEMMA FreedOf ==
  ASSUME NEW t, Typed(t), NEW ch \in Bodies
  PROVE  /\ Typed([t EXCEPT !.body[ch].switched = NoBody])
         /\ [t EXCEPT !.body[ch].switched = NoBody].conn = t.conn
  <1>1. /\ t \in Pointers /\ t.conn \in [Conns -> Conn] /\ t.body \in [Bodies -> Body] /\ Nameless(t.body)
        /\ t.body[ch] \in Body /\ t.descs \in Seq(Conns) /\ t.chars \in Seq(Bodies)
        /\ Shaped(t.conn, Elements(t.descs))
    BY DEF Typed, Pointers
  <1>2. PICK p : p = [t.body[ch] EXCEPT !.switched = NoBody]
    OBVIOUS
  <1>3. p \in Body /\ p.owner = t.body[ch].owner
    BY <1>1, <1>2 DEF Body
  <1>4. PICK bd : bd = [t.body EXCEPT ![ch] = p]
    OBVIOUS
  <1>5. bd \in [Bodies -> Body] /\ Nameless(bd)
    BY <1>1, <1>3, <1>4, Facts DEF Nameless
  <1>6. [t EXCEPT !.body[ch].switched = NoBody] = Pointing(t.conn, t.descs, bd, t.chars)
    <2>1. [t.body EXCEPT ![ch].switched = NoBody] = bd
      BY <1>1, <1>2, <1>4
    <2>2. [t EXCEPT !.body[ch].switched = NoBody] = [t EXCEPT !.body = bd]
      BY <2>1
    <2> QED BY <1>1, <2>2 DEF Pointing, Pointers
  <1> QED BY <1>1, <1>5, <1>6, Building DEF Pointing

LEMMA ReconnectTyped == ASSUME Shape, ~ Broken, NEW d \in Conns, Reconnect(d) PROVE Shape'
  <1>1. /\ FileOK /\ Typed(Now) /\ amiss \in BOOLEAN /\ Now.conn = conn /\ chars \in Seq(Bodies)
        /\ Nameless(body) /\ Shaped(conn, Elements(descs))
    BY NowTyped DEF Shape
  <1>2. PICK n : n = NameOn(d)
    OBVIOUS
  <1>3. PICK ch : ch = Head(LinkDead(n))
    OBVIOUS
  <1>4. /\ conn[d].state = "password" /\ LinkDead(n) # <<>> /\ file' = file /\ amiss' = amiss
        /\ Becomes(CloseSocket(Now, d)) \/ Becomes([Adopt(Now, d, ch) EXCEPT !.conn[d].state = "playing"])
    BY <1>2, <1>3 DEF Reconnect
  <1>5. n \in Names
    BY <1>2, <1>4, NamedOn DEF Loaded
  <1>6. ch \in Conns
    <2>1. /\ LinkDead(n) \in Seq(Bodies)
          /\ \A b : b \in Elements(LinkDead(n)) <=>
               b \in Elements(chars) /\ b \in {x \in Bodies : body[x].owner = n /\ body[x].desc = NoConn}
      BY <1>1, OnlyList DEF LinkDead
    <2>2. ch \in Bodies /\ body[ch].owner = n
      BY <1>3, <1>4, <2>1, FirstOfList
    <2> QED BY <1>1, <1>5, <2>2, Facts DEF Nameless, Bodies
  <1>7. FileOK'
    BY <1>1, <1>4, FileKept
  <1>8. CASE Becomes(CloseSocket(Now, d))
    <2>1. PICK t : t = CloseSocket(Now, d)
      OBVIOUS
    <2>2. Typed(t) /\ Becomes(t)
      BY <1>1, <1>8, <2>1, CloseTyped
    <2> QED BY <1>1, <1>4, <1>7, <2>2, BecomesTyped
  <1>9. CASE Becomes([Adopt(Now, d, ch) EXCEPT !.conn[d].state = "playing"])
    <2>1. PICK s : s = Adopt(Now, d, ch)
      OBVIOUS
    <2>2. conn[d].original = NoBody /\ conn[d].state # "none" /\ "playing" \in InGame
      BY <1>1, <1>4 DEF Shaped, Fit, InGame
    <2>3. /\ Typed(s) /\ s.conn[d].character = ch /\ s.conn[d].original = NoBody
          /\ s.conn[d].state = conn[d].state
      BY <1>1, <1>6, <2>1, <2>2, AdoptTyped
    <2>4. PICK t : t = [s EXCEPT !.conn[d].state = "playing"]
      OBVIOUS
    <2>5. Typed(t)
      BY <1>6, <2>2, <2>3, <2>4, SeatTyped
    <2>6. Becomes(t)
      BY <1>9, <2>1, <2>4
    <2> QED BY <1>1, <1>4, <1>7, <2>5, <2>6, BecomesTyped
  <1> QED BY <1>4, <1>8, <1>9

LEMMA KickOffTyped == ASSUME Shape, ~ Broken, NEW d \in Conns, KickOff(d) PROVE Shape'
  <1>1. /\ FileOK /\ Typed(Now) /\ amiss \in BOOLEAN /\ Now.conn = conn /\ descs \in Seq(Conns)
        /\ Shaped(conn, Elements(descs))
    BY NowTyped DEF Shape
  <1>2. PICK n : n = NameOn(d)
    OBVIOUS
  <1>3. PICK e : e = Head(Rivals(d, n))
    OBVIOUS
  <1>4. PICK ch : ch = Own(e)
    OBVIOUS
  <1>5. PICK r : r = CloseSocket(Now, e)
    OBVIOUS
  <1>6. PICK s : s = Adopt(r, d, ch)
    OBVIOUS
  <1>7. PICK t : t = IF s.body[ch].switched # NoBody THEN DoReturn(s, s.body[ch].switched) ELSE s
    OBVIOUS
  <1>8. /\ conn[d].state = "password" /\ Rivals(d, n) # <<>> /\ conn[e].state \in InGame
        /\ file' = file /\ amiss' = amiss
        /\ Becomes([t EXCEPT !.body[ch].switched = NoBody, !.conn[d].state = conn[e].state])
    BY <1>2, <1>3, <1>4, <1>5, <1>6, <1>7 DEF KickOff
  <1>9. e \in Conns /\ e # d
    <2>1. /\ Rivals(d, n) \in Seq(Conns)
          /\ \A x : x \in Elements(Rivals(d, n)) <=>
               x \in Elements(descs) /\ x \in {y \in Conns \ {d} : NameOn(y) = n}
      BY <1>1, OnlyList DEF Rivals
    <2> QED BY <1>3, <1>8, <2>1, FirstOfList
  <1>10. ch \in Conns /\ ch \in Bodies
    BY <1>4, <1>8, <1>9, NamedOn, Facts
  <1>11. conn[d].original = NoBody
    BY <1>1, <1>8 DEF Shaped, Fit, InGame
  <1>12. Typed(r) /\ r.conn[d] = conn[d]
    BY <1>1, <1>5, <1>9, <1>11, CloseTyped
  <1>13. /\ Typed(s) /\ s.conn[d].character = ch /\ s.conn[d].original = NoBody
         /\ s.conn[d].state = "password"
    BY <1>6, <1>8, <1>10, <1>11, <1>12, AdoptTyped
  <1>14. Typed(t) /\ t.conn[d] = s.conn[d]
    <2>1. CASE s.body[ch].switched = NoBody
      BY <1>7, <1>13, <2>1
    <2>2. CASE s.body[ch].switched # NoBody
      <3>1. s.body[ch].switched \in Bodies
        <4>1. s.body \in [Bodies -> Body]
          BY <1>13 DEF Typed, Pointers
        <4> QED BY <1>10, <2>2, <4>1, BodyFields
      <3> QED BY <1>7, <1>13, <2>2, <3>1, Turning
    <2> QED BY <2>1, <2>2
  <1>15. PICK v : v = [t EXCEPT !.body[ch].switched = NoBody]
    OBVIOUS
  <1>16. Typed(v) /\ v.conn = t.conn
    BY <1>10, <1>14, <1>15, FreedOf
  <1>17. PICK w : w = [v EXCEPT !.conn[d].state = conn[e].state]
    OBVIOUS
  <1>18. Typed(w)
    BY <1>8, <1>10, <1>13, <1>14, <1>16, <1>17, SeatTyped
  <1>19. Becomes(w)
    <2>1. [t EXCEPT !.body[ch].switched = NoBody, !.conn[d].state = conn[e].state] =
          [[t EXCEPT !.body[ch].switched = NoBody] EXCEPT !.conn[d].state = conn[e].state]
      OBVIOUS
    <2> QED BY <1>8, <1>15, <1>17, <2>1
  <1>20. FileOK'
    BY <1>1, <1>8, FileKept
  <1> QED BY <1>1, <1>8, <1>18, <1>19, <1>20, BecomesTyped

LEMMA KeptNamed ==
  ASSUME Shape, ~ Broken, NEW lost
  PROVE  /\ Kept(lost) \in Seq(Conns)
         /\ \A d : d \in Elements(Kept(lost)) <=>
              d \in Elements(descs) /\ d \in Conns /\ d \notin lost /\ conn[d].state \in InGame
         /\ \A d \in Elements(Kept(lost)) : NameOn(d) \in Names
  <1>1. descs \in Seq(Conns)
    BY NowTyped
  <1>2. /\ Kept(lost) \in Seq(Conns)
        /\ \A d : d \in Elements(Kept(lost)) <=>
             d \in Elements(descs) /\ d \in {x \in Conns \ lost : conn[x].state \in InGame}
    BY <1>1, OnlyList DEF Kept
  <1> QED BY <1>2, NamedOn

\* The files as copyover leaves them
LEMMA KeptWritten ==
  ASSUME Shape, ~ Broken, file' = Written({NameOn(d) : d \in Elements(Kept({}))}, "whole")
  PROVE  FileOK'
  <1>1. PICK none : none = {}
    OBVIOUS
  <1>2. \A d \in Elements(Kept(none)) : NameOn(d) \in Names
    BY KeptNamed
  <1>3. PICK names : names = {NameOn(d) : d \in Elements(Kept({}))}
    OBVIOUS
  <1>4. names \subseteq Names
    BY <1>1, <1>2, <1>3
  <1> QED BY <1>3, <1>4, NowTyped, Writing

LEMMA CopyoverTyped == ASSUME Shape, ~ Broken, NEW lost \in SUBSET Conns, Copyover(lost) PROVE Shape'
  <1>1. amiss \in BOOLEAN
    BY DEF Shape
  <1>2. PICK kept : kept = Kept(lost)
    OBVIOUS
  <1>3. PICK K : K = Elements(kept)
    OBVIOUS
  <1>4. kept \in Seq(Conns) /\ K \subseteq Conns /\ \A d \in K : NameOn(d) \in Names
    BY <1>2, <1>3, KeptNamed
  <1>5. /\ conn' = [d \in Conns |-> IF d \in K THEN [Closed EXCEPT !.state = "playing", !.character = d]
                                    ELSE Closed]
        /\ body' = [b \in Bodies |-> IF b \in K THEN [owner |-> NameOn(b), desc |-> b, switched |-> NoBody]
                                     ELSE Freed]
        /\ descs' = kept /\ chars' = World \o kept /\ amiss' = amiss
        /\ file' = Written({NameOn(d) : d \in Elements(Kept({}))}, "whole")
    BY <1>2, <1>3 DEF Copyover
  <1>6. ASSUME NEW d \in Conns
        PROVE  /\ [Closed EXCEPT !.state = "playing", !.character = d] \in Conn
               /\ Fit([Closed EXCEPT !.state = "playing", !.character = d]) /\ Fit(Closed)
    <2>1. PICK m : m = [Closed EXCEPT !.state = "playing", !.character = d]
      OBVIOUS
    <2>2. m \in Conn /\ m.state = "playing" /\ m.character = d /\ m.original = NoBody
      BY <2>1, Facts DEF Closed, Conn, InGame
    <2>3. Fit(m)
      BY <2>2, Facts DEF Fit
    <2>4. Fit(Closed)
      BY ClosedTypes DEF Fit, Loaded, New, InGame
    <2> QED BY <2>1, <2>2, <2>3, <2>4
  <1>7. conn' \in [Conns -> Conn] /\ Shaped(conn', Elements(descs'))
    <2>1. \A d \in Conns : conn'[d] \in Conn /\ Fit(conn'[d]) /\ (d \notin K => conn'[d].state = "none")
      BY <1>5, <1>6, ClosedTypes
    <2> QED BY <1>3, <1>5, <2>1 DEF Shaped
  <1>8. body' \in [Bodies -> Body] /\ Nameless(body')
    <2>1. \A b \in K : [owner |-> NameOn(b), desc |-> b, switched |-> NoBody] \in Body
      BY <1>4 DEF Body
    <2>2. \A b \in Mobs : b \notin K /\ b \in Bodies
      BY <1>4, Facts
    <2>3. Freed.owner = NoName
      BY DEF Freed
    <2> QED BY <1>5, <2>1, <2>2, <2>3, ClosedTypes DEF Nameless
  <1>9. descs' \in Seq(Conns) /\ chars' \in Seq(Bodies)
    <2>1. PICK w : w = World
      OBVIOUS
    <2>2. w \in Seq(Bodies) /\ kept \in Seq(Bodies)
      BY <1>4, <2>1, EmptyLists, InSeqs, Facts
    <2>3. w \o kept \in Seq(Bodies)
      BY <2>2, ConcatList
    <2> QED BY <1>4, <1>5, <2>1, <2>3
  <1>10. FileOK'
    BY <1>5, KeptWritten
  <1> QED BY <1>1, <1>5, <1>7, <1>8, <1>9, <1>10, MovesTyped

LEMMA FailsTyped == ASSUME Shape, ~ Broken, CopyoverFails PROVE Shape'
  <1>1. /\ amiss \in BOOLEAN /\ conn \in [Conns -> Conn] /\ body \in [Bodies -> Body] /\ chars \in Seq(Bodies)
        /\ Shaped(conn, Elements(descs)) /\ Nameless(body)
    BY NowTyped DEF Shape
  <1>2. PICK out : out = {d \in Elements(descs) : conn[d].state \notin InGame}
    OBVIOUS
  <1>3. PICK none : none = {}
    OBVIOUS
  <1>4. PICK kept : kept = Kept(none)
    OBVIOUS
  <1>5. /\ kept \in Seq(Conns)
        /\ \A d \in Conns : d \in Elements(kept) <=> d \in Elements(descs) /\ conn[d].state \in InGame
    <2>1. /\ kept \in Seq(Conns)
          /\ \A d : d \in Elements(kept) <=>
               d \in Elements(descs) /\ d \in Conns /\ d \notin none /\ conn[d].state \in InGame
      BY <1>4, KeptNamed
    <2> QED BY <1>3, <2>1
  <1>6. /\ conn' = [d \in Conns |-> IF d \in out THEN Closed ELSE conn[d]]
        /\ body' = [b \in Bodies |-> IF \E d \in out : conn[d].character = b THEN Freed ELSE body[b]]
        /\ descs' = kept /\ chars' = chars /\ amiss' = amiss
        /\ file' = Written({NameOn(d) : d \in Elements(Kept({}))}, "whole")
    BY <1>2, <1>3, <1>4 DEF CopyoverFails
  <1>7. conn' \in [Conns -> Conn] /\ Shaped(conn', Elements(descs'))
    <2>1. Fit(Closed)
      BY ClosedTypes DEF Fit, Loaded, New, InGame
    <2>2. ASSUME NEW d \in Conns
          PROVE conn'[d] \in Conn /\ Fit(conn'[d]) /\ (conn'[d].state # "none" => d \in Elements(kept))
      <3>1. CASE d \in out
        BY <1>6, <2>1, <3>1, ClosedTypes
      <3>2. CASE d \notin out
        BY <1>1, <1>2, <1>5, <1>6, <3>2 DEF Shaped
      <3> QED BY <3>1, <3>2
    <2> QED BY <1>6, <2>2 DEF Shaped
  <1>8. body' \in [Bodies -> Body] /\ Nameless(body')
    <2>1. Freed.owner = NoName
      BY DEF Freed
    <2>2. \A b \in Bodies : body'[b] = Freed \/ body'[b] = body[b]
      BY <1>6
    <2>3. body' \in [Bodies -> Body]
      BY <1>1, <1>6, ClosedTypes
    <2> QED BY <1>1, <2>1, <2>2, <2>3, Facts DEF Nameless
  <1>9. FileOK'
    BY <1>6, KeptWritten
  <1> QED BY <1>1, <1>5, <1>6, <1>7, <1>8, <1>9, MovesTyped

\* A new process starts without connections, whatever the old one had come to.
LEMMA CrashClears ==
  ASSUME Shape, Crash
  PROVE  IInv' /\ (\A d \in Conns : conn'[d].state = "none") /\ ~ amiss'
  <1>1. FileOK /\ conn \in [Conns -> Conn] /\ body \in [Bodies -> Body] /\ descs \in Seq(Conns)
    BY NowTyped
  <1>2. /\ conn' = [d \in Conns |-> Closed] /\ descs' = <<>>
        /\ body' = [b \in Bodies |-> Freed] /\ chars' = World /\ amiss' = FALSE
    BY DEF Crash
  <1>3. FileOK'
    <2>1. CASE UNCHANGED file
      BY <1>1, <2>1, FileKept
    <2>2. ASSUME NEW saved \in SUBSET ({NameOn(d) : d \in Elements(descs)} \ {NoName}),
                 file' = [n \in DOMAIN file \cup saved |->
                            IF n \in saved THEN Written({n}, Rescued(n))[n] ELSE file[n]]
          PROVE  FileOK'
      <3>1. ASSUME NEW d \in Elements(descs) PROVE NameOn(d) \in Names \cup {NoName}
        <4>1. d \in Conns
          BY <1>1, ElementOfSeq, LenProperties DEF Elements
        <4>2. Own(d) \in Bodies \cup {NoBody}
          BY <1>1, <4>1, ConnFields DEF Own
        <4> QED BY <1>1, <4>2, BodyFields DEF NameOn
      <3>2. saved \subseteq Names
        BY <3>1
      <3>3. \A n \in saved : Written({n}, Rescued(n))[n] \in {"whole", "half"}
        <4> TAKE n \in saved
        <4>1. Rescued(n) \in {"whole", "half"}
          BY DEF Rescued
        <4>2. Written({n}, Rescued(n))[n] = IF n \in DOMAIN file /\ file[n] = "half" THEN file[n] ELSE Rescued(n)
          BY DEF Written
        <4> QED BY <4>1, <4>2
      <3> QED BY <1>1, <2>2, <3>2, <3>3 DEF FileOK
    <2> QED BY <2>1, <2>2 DEF Crash
  <1>4. Linked(conn', Elements(descs'), body', Elements(chars'))
    BY <1>2, EmptyWorld
  <1> QED BY <1>2, <1>3, <1>4, EmptyLists, ClosedTypes DEF IInv

LEMMA ConnTyped == ASSUME Shape, ~ Broken, NEW d \in Conns, ConnStep(d) PROVE Shape'
  <1>1. CASE \E n \in Names : EnterName(d, n)
    BY <1>1, EnterNameTyped
  <1>2. CASE \E yes \in BOOLEAN : ConfirmName(d, yes)
    BY <1>2, StatesMoved, RefusedTyped
  <1>3. CASE \E v \in Bodies : Switch(d, v)
    BY <1>3, SwitchTyped
  <1>4. CASE AskForNew(d) \/ Create(d) \/ Reload(d) \/ StartMode(d) \/ EndMode(d)
    BY <1>4, StatesMoved
  <1>5. CASE Connect(d) \/ EnterGame(d) \/ ChangePassword(d) \/ Return(d)
    BY <1>5, ConnectTyped, EnterTyped, PasswordChanged, ReturnedTyped
  <1>6. CASE Save(d) \/ Quit(d) \/ Drop(d)
    BY <1>6, SaveTyped, QuitTyped, DropTyped
  <1>7. CASE KickOff(d) \/ Reconnect(d)
    BY <1>7, KickOffTyped, ReconnectTyped
  <1> QED BY <1>1, <1>2, <1>3, <1>4, <1>5, <1>6, <1>7 DEF ConnStep

LEMMA NextTyped == ASSUME Shape, Next PROVE Shape' \/ Crash
  <1>1. CASE ~ Broken /\ \E d \in Conns : ConnStep(d)
    BY <1>1, ConnTyped
  <1>2. CASE ~ Broken /\ \E b \in Bodies : IdleOut(b) \/ MobDies(b) \/ Die(b)
    BY <1>2, LeftTyped
  <1>3. CASE ~ Broken /\ \E lost \in SUBSET Conns : Copyover(lost)
    BY <1>3, CopyoverTyped
  <1>4. CASE ~ Broken /\ CopyoverFails
    BY <1>4, FailsTyped
  <1> QED BY <1>1, <1>2, <1>3, <1>4 DEF Next

\* What went amiss is forgotten by no handler.
LEMMA AmissStays == ASSUME amiss, Next, ~ Crash PROVE amiss'
  <1>1. CASE \E d \in Conns : ConnStep(d)
    <2>1. PICK d \in Conns : ConnStep(d)
      BY <1>1
    <2>2. CASE \/ Connect(d) \/ AskForNew(d) \/ Create(d) \/ EnterGame(d) \/ Save(d) \/ StartMode(d)
               \/ EndMode(d) \/ ChangePassword(d)
      BY <2>2 DEF Connect, AskForNew, Create, EnterGame, Save, StartMode, EndMode, ChangePassword
    <2>3. CASE KickOff(d)
      BY <2>3 DEF KickOff
    <2>4. CASE Reconnect(d) \/ Reload(d) \/ Return(d) \/ Quit(d) \/ Drop(d)
      BY <2>4 DEF Reconnect, Reload, Return, Quit, Drop
    <2>5. CASE \E n \in Names : EnterName(d, n)
      BY <2>5 DEF EnterName
    <2>6. CASE \E yes \in BOOLEAN : ConfirmName(d, yes)
      BY <2>6 DEF ConfirmName
    <2>7. CASE \E v \in Bodies : Switch(d, v)
      BY <2>7 DEF Switch
    <2> QED BY <2>1, <2>2, <2>3, <2>4, <2>5, <2>6, <2>7 DEF ConnStep
  <1>2. CASE \E b \in Bodies : IdleOut(b) \/ MobDies(b) \/ Die(b)
    BY <1>2 DEF IdleOut, MobDies, Die
  <1>3. CASE (\E lost \in SUBSET Conns : Copyover(lost)) \/ CopyoverFails
    BY <1>3 DEF Copyover, CopyoverFails
  <1> QED BY <1>1, <1>2, <1>3 DEF Next

\* Where nothing went amiss, the types need no more than the invariant says.
LEMMA InvShape == IInv /\ amiss \in BOOLEAN => Shape
  <1> SUFFICES ASSUME IInv, amiss \in BOOLEAN PROVE Shape
    OBVIOUS
  <1>1. /\ Now \in Pointers /\ FileOK /\ Now.conn = conn /\ Now.descs = descs /\ Now.body = body
        /\ Linked(conn, Elements(descs), body, Elements(chars))
    BY NowGood DEF Good
  <1>2. Shaped(conn, Elements(descs))
    <2> SUFFICES ASSUME NEW d \in Conns
                 PROVE  Fit(conn[d]) /\ (conn[d].state # "none" => d \in Elements(descs))
      BY DEF Shaped
    <2>1. Session(conn, Elements(descs), body, Elements(chars), d) /\ d # NoBody
      BY <1>1, Facts DEF Linked
    <2>2. conn[d].state \in InGame => conn[d].character \in Bodies
      BY <1>1, <2>1 DEF Session, Linked
    <2>3. conn[d].original # NoBody => conn[d].state \in InGame /\ conn[d].original \in Conns
      BY <1>1, WaitingOf
    <2>4. conn[d].original = NoBody => conn[d].character \in Conns \cup {NoBody}
      BY <1>1, <2>1, States, ClosedTypes DEF Session
    <2>5. conn[d].state \in Loaded \cup InGame => conn[d].character # NoBody
      BY <2>1, <2>2, Facts DEF Session
    <2> QED BY <2>1, <2>2, <2>3, <2>4, <2>5, Facts DEF Session, Fit
  <1>3. Nameless(body)
    <2>1. Freed.owner = NoName
      BY DEF Freed
    <2>2. ASSUME NEW b \in Mobs PROVE body[b].owner = NoName
      <3>1. Attached(conn, Elements(descs), body, Elements(chars), b) /\ b \notin Conns
        BY <1>1, Facts DEF Linked
      <3> QED BY <2>1, <3>1 DEF Attached
    <2> QED BY <2>2 DEF Nameless
  <1> QED BY <1>1, <1>2, <1>3 DEF Shape, Typed

-----------------------------------------------------------------------------
(* The theorems: the types whatever happens, the rest until something goes  *)
(* amiss, and again once the server is started anew.                        *)

SInv == Shape /\ (amiss \/ IInv)

\* A handler keeps the invariant, and a connection in the game its player.
LEMMA Step ==
  ASSUME SInv, Next
  PROVE  SInv' /\ (amiss' \/ Follows(conn, body, conn', body'))
  <1>1. Shape /\ amiss \in BOOLEAN
    BY DEF SInv, Shape
  <1>2. CASE Crash
    <2>1. IInv' /\ (\A d \in Conns : conn'[d].state = "none") /\ ~ amiss' /\ amiss' \in BOOLEAN
      BY <1>1, <1>2, CrashClears DEF Crash
    <2>2. IInv' /\ (amiss \in BOOLEAN)' => Shape'
      BY InvShape, PTL
    <2> QED BY <2>1, <2>2 DEF SInv, Follows
  <1>3. CASE ~ Crash
    <2>1. Shape'
      BY <1>1, <1>3, NextTyped
    <2>2. CASE amiss'
      BY <2>1, <2>2 DEF SInv
    <2>3. CASE ~ amiss'
      <3>1. ~ amiss /\ IInv
        BY <1>3, <2>3, AmissStays DEF SInv
      <3>2. Goes
        BY <1>3, <2>3, <3>1, NextGoes
      <3> QED BY <2>1, <3>2 DEF SInv, Goes
    <2> QED BY <2>2, <2>3
  <1> QED BY <1>2, <1>3

LEMMA SessionsInvariant == Spec => []SInv
  <1>1. Init => SInv
    BY InitInv, InvShape DEF Init, SInv
  <1>2. SInv /\ [Next]_vars => SInv'
    <2> SUFFICES ASSUME SInv, [Next]_vars PROVE SInv'
      OBVIOUS
    <2>1. CASE Next
      BY <2>1, Step
    <2>2. CASE UNCHANGED vars
      BY <2>2 DEF vars, SInv, Shape, Typed, Now, IInv, FileOK
    <2> QED BY <2>1, <2>2
  <1> QED BY <1>1, <1>2, PTL DEF Spec

\* Connections, bodies and player files hold what the handlers put there, and
\* nobody but connections and bodies is on the lists, whatever goes amiss.
THEOREM SessionsTypeCorrect == Spec => []TypeOK
  <1>1. SInv => TypeOK
    BY ShapeType DEF SInv
  <1> QED BY <1>1, SessionsInvariant, PTL

\* A player never has two bodies in the game, and a name never two newcomers,
\* whatever order nanny, close_socket, extract_char and copyover get their turns
\* in and whoever is played by an immortal, until something goes amiss.
THEOREM SessionsOneOfEach == Spec => []OneOfEach
  <1>1. SInv => OneOfEach
    BY InvOneOfEach DEF SInv, OneOfEach
  <1> QED BY <1>1, SessionsInvariant, PTL

\* ch->desc and d->character, d->original and ch->switched always agree, and a
\* connection is past the login just when its character is in the game, until
\* something goes amiss.
THEOREM SessionsLinksMutual == Spec => []LinksMutual
  <1>1. SInv => LinksMutual
    BY InvLinks DEF SInv, LinksMutual
  <1> QED BY <1>1, SessionsInvariant, PTL

\* Nothing points to a body that free_char got, and add_char never lists a body
\* twice, until something goes amiss: only then may the model stop where the
\* program is undefined.
THEOREM SessionsNeverBroken == Spec => [](amiss \/ ~ Broken)
  <1>1. SInv => amiss \/ ~ Broken
    BY InvNotBroken DEF SInv
  <1> QED BY <1>1, SessionsInvariant, PTL

\* Action property: no handler turns a connection that is in the game into
\* another player's; it may only close it, or something goes amiss.
THEOREM SessionsSamePlayer == Spec => SamePlayer
  <1> DEFINE A == \A d \in Elements(descs) :
       conn[d].state \in InGame =>
         conn'[d].state = "none" \/ NameOn(d)' = NameOn(d) \/ amiss'
  <1>1. SInv /\ [Next]_vars => [A]_vars
    <2> SUFFICES ASSUME SInv, Next PROVE A
      BY DEF A
    <2>1. amiss' \/ Follows(conn, body, conn', body')
      BY Step
    <2>2. Elements(descs) \subseteq Conns
      <3>1. descs \in Seq(Conns)
        BY NowTyped DEF SInv
      <3> QED BY <3>1, ElementOfSeq, LenProperties DEF Elements
    <2>3. \A d \in Conns : NameOn(d) = NameIn(conn, body, d) /\ NameOn(d)' = NameIn(conn', body', d)
      BY DEF NameOn, Own, NameIn, OwnIn
    <2> QED BY <2>1, <2>2, <2>3 DEF Follows
  <1>2. Spec => [][A]_vars
    BY <1>1, SessionsInvariant, PTL DEF Spec
  <1> QED BY <1>2 DEF SamePlayer
=============================================================================
