---------------------------- MODULE Ships_proofs ----------------------------
(***************************************************************************)
(* Proofs about Ships, for any ships, hangars in hangars, docks, systems   *)
(* and bounds.                                                             *)
(***************************************************************************)
EXTENDS Ships, TLAPS

LEMMA ShipsFacts ==
    /\ None \notin Ships /\ None \notin Systems /\ None \notin Places /\ None \notin Docks
    /\ Pads \cap Hangars = {} /\ Pads \subseteq Places /\ Hangars \subseteq Places
    /\ Orbit \in [Pads -> Systems]
    /\ Bearer \in [Hangars -> Ships]
    /\ DockOf \in [Docks -> Ships]
    /\ Yard \in [Ships -> Pads]
    /\ Home \in [Capital -> Systems]
    /\ Capital \subseteq Ships
    /\ MaxIon \in Nat /\ MaxTimer \in Nat /\ MaxLegs \in Nat /\ MaxOdd \in Nat
    /\ N \in Nat /\ N > 0
  BY ShipsAssumption DEF N, Places

USE ShipsFacts

-----------------------------------------------------------------------------
(* The inductive invariant.                                                *)

\* A mooring has two ends of two ships: one that came and one that was there.
TwoEnds ==
    \A d, e \in Docks : link[d] = e =>
        /\ link[e] = d
        /\ DockOf[d] # DockOf[e]
        /\ (role[d] = 0 /\ role[e] = 1) \/ (role[d] = 1 /\ role[e] = 0)

\* A ship that is destroyed is in no system, moored to nothing and tracks
\* nothing.
OutOfIt(s) ==
    /\ sys[s] = None
    /\ track[s] = None
    /\ \A d \in DocksOf(s) : link[d] = None

\* What holds of one of the regulars: it is where it says, and its
\* state fits that.
Regular(s) ==
    /\ Gone(s) => OutOfIt(s)
    /\ at[s] # None /\ state[s] # "REPOSITORY" => room[s] = at[s] /\ s \in parked[at[s]]
    /\ at[s] = None \/ sys[s] = None
    /\ \A y \in Systems : s \in flying[y] <=> sys[s] = y
    /\ state[s] = "HYPERSPACE" => sys[s] = None /\ at[s] = None
    /\ state[s] \in {"LAND", "LAND_2", "DOCKED2", "DOCKED2_2"} => sys[s] # None
    /\ "rooms" \notin torn /\ at[s] \in Hangars /\ state[s] # "REPOSITORY" =>
          Bearer[at[s]] \notin Regulars \/ ~ Gone(Bearer[at[s]])

\* And of any ship: its manoeuvre can be finished.
Steady(s) ==
    /\ state[s] \in {"LAUNCH", "LAUNCH_2"} => at[s] # None
    /\ state[s] = "HYPERSPACE" /\ sys[s] = None => jump[s] # None /\ ion[s] = 0
    /\ state[s] \in {"DOCKED2", "DOCKED2_2"} =>
          \E d, e \in Docks : dest[s] = <<d, e>> /\ DockOf[d] = s /\ DockOf[e] # s

Fine(s) == (s \in Regulars => Regular(s)) /\ Steady(s)

IInv == TypeOK /\ TwoEnds /\ \A s \in Ships : Fine(s)

-----------------------------------------------------------------------------
(* Steps of one ship.                                                      *)

\* A step of s that leaves the other ships where and what they are.
LeavesOthers(s) ==
    /\ torn \subseteq torn' /\ Regulars' \subseteq Regulars
    /\ Gone(s)' => Gone(s)
    /\ \A t \in Ships \ {s} :
        /\ state'[t] = state[t] /\ sys'[t] = sys[t] /\ at'[t] = at[t] /\ room'[t] = room[t]
        /\ ion'[t] = ion[t] /\ jump'[t] = jump[t] /\ track'[t] = track[t] /\ dest'[t] = dest[t]
        /\ \A y \in Systems : t \in flying'[y] <=> t \in flying[y]
        /\ \A p \in Places : t \in parked[p] => t \in parked'[p]
        /\ t \in Regulars /\ Gone(t) => \A d \in DocksOf(t) : link[d] = None => link'[d] = None

\* A ship never becomes one of the regulars again.
LEMMA RegularsShrink ==
  ASSUME torn \subseteq torn', strayed \subseteq strayed'
  PROVE  Regulars' \subseteq Regulars
  BY DEF Regulars

LEMMA OneShip ==
  ASSUME IInv, NEW s \in Ships, TypeOK', TwoEnds', LeavesOthers(s), Fine(s)'
  PROVE  IInv'
<1>1. ASSUME NEW t \in Ships \ {s}, t \in Regulars' PROVE Regular(t)'
  <2>1. /\ t \in Regulars /\ Regular(t)
        /\ state'[t] = state[t] /\ sys'[t] = sys[t] /\ at'[t] = at[t] /\ room'[t] = room[t]
        /\ track'[t] = track[t] /\ at[t] \in Places \cup {None}
    BY <1>1 DEF IInv, Fine, LeavesOthers, TypeOK
  <2>2. (Gone(t) => OutOfIt(t))'
    BY <1>1, <2>1 DEF Regular, OutOfIt, LeavesOthers, Gone, DocksOf
  <2>3. \A y \in Systems : t \in flying'[y] <=> sys'[t] = y
    BY <1>1, <2>1 DEF Regular, LeavesOthers
  <2>4. at'[t] # None /\ state'[t] # "REPOSITORY" => room'[t] = at'[t] /\ t \in parked'[at'[t]]
    BY <1>1, <2>1 DEF Regular, LeavesOthers
  <2>5. ("rooms" \notin torn /\ at[t] \in Hangars /\ state[t] # "REPOSITORY" =>
          Bearer[at[t]] \notin Regulars \/ ~ Gone(Bearer[at[t]]))'
    <3>1. \A b \in Ships : Gone(b)' => Gone(b)
      BY DEF LeavesOthers, Gone
    <3>2. SUFFICES ASSUME "rooms" \notin torn', at'[t] \in Hangars, state'[t] # "REPOSITORY"
                   PROVE  Bearer[at'[t]] \notin Regulars' \/ state'[Bearer[at'[t]]] \notin {"REPOSITORY", "FREED"}
      BY DEF Gone
    <3>3. Bearer[at[t]] \in Ships
      BY <2>1, <3>2
    <3>4. Bearer[at[t]] \notin Regulars \/ ~ Gone(Bearer[at[t]])
      BY <2>1, <3>2 DEF Regular, LeavesOthers
    <3>5. QED
      <4>1. ~ Gone(Bearer[at[t]]) => ~ (Gone(Bearer[at[t]]))'
        BY <2>1, <3>1, <3>3 DEF Gone
      <4>2. QED
        BY <2>1, <3>4, <4>1 DEF LeavesOthers, Gone
  <2>6. QED
    BY <2>1, <2>2, <2>3, <2>4, <2>5 DEF Regular
<1>2. ASSUME NEW t \in Ships \ {s} PROVE Steady(t)'
  <2>1. /\ Steady(t)
        /\ state'[t] = state[t] /\ sys'[t] = sys[t] /\ at'[t] = at[t]
        /\ ion'[t] = ion[t] /\ jump'[t] = jump[t] /\ dest'[t] = dest[t]
    BY <1>2 DEF IInv, Fine, LeavesOthers
  <2>2. QED
    BY <2>1 DEF Steady
<1>3. QED
  BY <1>1, <1>2 DEF IInv, Fine

LEMMA InitIInv == Init => IInv
<1> SUFFICES ASSUME Init PROVE IInv
  OBVIOUS
<1> USE DEF Init
<1>1. TypeOK
  BY DEF TypeOK, ShipStates, Places
<1>2. TwoEnds
  BY DEF TwoEnds
<1>3. ASSUME NEW s \in Ships PROVE Regular(s)
  BY <1>3, <1>1 DEF Regular, Gone, OutOfIt, DocksOf, TypeOK
<1>4. ASSUME NEW s \in Ships PROVE Steady(s)
  BY <1>4 DEF Steady
<1>5. QED
  BY <1>1, <1>2, <1>3, <1>4 DEF IInv, Fine

\* What ship_to_starsystem and ship_from_starsystem leave alone.
SystemsKept(s) ==
    /\ torn \subseteq torn' /\ torn' \subseteq {"rooms", "systems"}
    /\ sys' \in [Ships -> Systems \cup {None}]
    /\ flying' \in [Systems -> SUBSET Ships]
    /\ \A t \in Ships \ {s} : /\ sys'[t] = sys[t]
                              /\ \A y \in Systems : t \in flying'[y] <=> t \in flying[y]

LEMMA ToSystemKeeps ==
  ASSUME TypeOK, NEW s \in Ships, NEW y \in Systems \cup {None}, ToSystem(s, y)
  PROVE  SystemsKept(s)
<1>1. sys' \in [Ships -> Systems \cup {None}]
  BY DEF ToSystem, TypeOK
<1>2. flying' \in [Systems -> SUBSET Ships]
  BY DEF ToSystem, TypeOK
<1>3. QED
  BY <1>1, <1>2 DEF ToSystem, TypeOK, SystemsKept

LEMMA FromSystemKeeps ==
  ASSUME TypeOK, NEW s \in Ships, FromSystem(s), UNCHANGED torn
  PROVE  SystemsKept(s)
<1>1. sys' \in [Ships -> Systems \cup {None}]
  BY DEF FromSystem, TypeOK
<1>2. flying' \in [Systems -> SUBSET Ships]
  BY DEF FromSystem, TypeOK
<1>3. QED
  BY <1>1, <1>2 DEF FromSystem, TypeOK, SystemsKept

\* What ship_to_room and extract_ship leave alone.
RoomsKept(s) ==
    /\ torn \subseteq torn' /\ torn' \subseteq {"rooms", "systems"}
    /\ room' \in [Ships -> Places \cup {None}]
    /\ parked' \in [Places -> SUBSET Ships]
    /\ \A t \in Ships \ {s} : /\ room'[t] = room[t]
                              /\ \A p \in Places : t \in parked'[p] <=> t \in parked[p]

LEMMA ToRoomKeeps ==
  ASSUME TypeOK, NEW s \in Ships, NEW p \in Places, ToRoom(s, p)
  PROVE  RoomsKept(s)
<1>1. room' \in [Ships -> Places \cup {None}]
  BY DEF ToRoom, TypeOK
<1>2. parked' \in [Places -> SUBSET Ships]
  BY DEF ToRoom, TypeOK
<1>3. QED
  BY <1>1, <1>2 DEF ToRoom, TypeOK, RoomsKept

LEMMA FromRoomKeeps ==
  ASSUME TypeOK, NEW s \in Ships, FromRoom(s), torn \subseteq torn',
         torn' \subseteq {"rooms", "systems"}
  PROVE  RoomsKept(s)
<1>1. room' \in [Ships -> Places \cup {None}]
  BY DEF FromRoom, TypeOK
<1>2. parked' \in [Places -> SUBSET Ships]
  BY DEF FromRoom, TypeOK
<1>3. QED
  BY <1>1, <1>2 DEF FromRoom, TypeOK, RoomsKept

\* What the pulse counts for every ship.
LEMMA CountedTypes ==
  ASSUME TypeOK, NEW s \in Ships, Counted(s)
  PROVE  /\ ion' \in [Ships -> 0 .. MaxIon]
         /\ timer' \in [Ships -> -1 .. MaxTimer]
         /\ auto' \in [Ships -> BOOLEAN]
         /\ \A t \in Ships \ {s} : ion'[t] = ion[t]
  BY DEF Counted, TypeOK

LEMMA UpkeepTypes ==
  ASSUME TypeOK, NEW s \in Ships, FirstLoop(s), Upkeep(s)
  PROVE  /\ ion' \in [Ships -> 0 .. MaxIon]
         /\ timer' \in [Ships -> -1 .. MaxTimer]
         /\ auto' \in [Ships -> BOOLEAN]
         /\ track' \in [Ships -> Ships \cup {None}]
         /\ jump' \in [Ships -> Systems \cup {None}]
         /\ turn' \in 0 .. 2 * N
         /\ UNCHANGED <<up, odd, leg>>
         /\ \A t \in Ships \ {s} : ion'[t] = ion[t] /\ track'[t] = track[t] /\ jump'[t] = jump[t]
         /\ ion[s] = 0 => ion'[s] = 0 /\ jump'[s] = jump[s]
         /\ track[s] = None => track'[s] = None
<1> USE DEF Upkeep
<1>1. track' \in [Ships -> Ships \cup {None}]
  BY DEF Tracked, TypeOK
<1>2. jump' \in [Ships -> Systems \cup {None}]
  BY DEF JumpOf, TypeOK
<1>3. turn' \in 0 .. 2 * N
  BY DEF FirstLoop
<1>4. QED
  BY <1>1, <1>2, <1>3, CountedTypes DEF TypeOK, Tracked, Counted, JumpOf

LEMMA LaunchIInv ==
  ASSUME IInv, NEW s \in Ships, Launch(s), UNCHANGED strayed
  PROVE  IInv'
<1> USE DEF Launch, Free, clock, place, moving, inside, mooring
<1>1. TypeOK'
  BY DEF IInv, TypeOK, ShipStates
<1>2. LeavesOthers(s)
  BY DEF IInv, TypeOK, LeavesOthers, Regulars, Gone
<1>3. Regular(s) \/ s \notin Regulars
  BY DEF IInv, Fine
<1>4. s \in Regulars' => Regular(s)'
  BY <1>3 DEF IInv, Regulars, TypeOK, Regular, Gone, OutOfIt, DocksOf
<1>5. Steady(s)'
  BY DEF IInv, TypeOK, Fine, Steady
<1>6. TwoEnds'
  BY DEF IInv, TwoEnds
<1>7. QED
  BY <1>1, <1>2, <1>4, <1>5, <1>6, OneShip DEF Fine

LEMMA HijackPadIInv ==
  ASSUME IInv, NEW s \in Ships, HijackPad(s), UNCHANGED strayed
  PROVE  IInv'
<1> USE DEF HijackPad, Free, Odd, Costs, clock, place, moving, inside, mooring
<1>1. TypeOK'
  BY DEF IInv, TypeOK, ShipStates
<1>2. LeavesOthers(s)
  BY DEF IInv, TypeOK, LeavesOthers, Regulars, Gone
<1>3. Regular(s) \/ s \notin Regulars
  BY DEF IInv, Fine
<1>4. s \in Regulars' => Regular(s)'
  BY <1>3 DEF IInv, Regulars, TypeOK, Regular, Gone, OutOfIt, DocksOf
<1>5. Steady(s)'
  BY DEF IInv, TypeOK, Fine, Steady
<1>6. TwoEnds'
  BY DEF IInv, TwoEnds
<1>7. QED
  BY <1>1, <1>2, <1>4, <1>5, <1>6, OneShip DEF Fine

LEMMA TurnIInv ==
  ASSUME IInv, NEW s \in Ships, Turn(s), UNCHANGED strayed
  PROVE  IInv'
<1> USE DEF Turn, Free, InRealSpace, Mooring, clock, place, moving, inside, mooring
<1>1. TypeOK'
  BY DEF IInv, TypeOK, ShipStates
<1>2. LeavesOthers(s)
  BY DEF IInv, TypeOK, LeavesOthers, Regulars, Gone
<1>3. Regular(s) \/ s \notin Regulars
  BY DEF IInv, Fine
<1>4. s \in Regulars' => Regular(s)'
  BY <1>3 DEF IInv, Regulars, TypeOK, Regular, Gone, OutOfIt, DocksOf
<1>5. Steady(s)'
  BY DEF IInv, TypeOK, Fine, Steady
<1>6. TwoEnds'
  BY DEF IInv, TwoEnds
<1>7. QED
  BY <1>1, <1>2, <1>4, <1>5, <1>6, OneShip DEF Fine

LEMMA AutopilotIInv ==
  ASSUME IInv, NEW s \in Ships, Autopilot(s), UNCHANGED strayed
  PROVE  IInv'
<1> USE DEF Autopilot, Free, Luck, Costs, clock, place, moving, inside, mooring
<1>1. TypeOK'
  BY DEF IInv, TypeOK, ShipStates
<1>2. LeavesOthers(s)
  BY DEF IInv, TypeOK, LeavesOthers, Regulars, Gone
<1>3. Regular(s) \/ s \notin Regulars
  BY DEF IInv, Fine
<1>4. s \in Regulars' => Regular(s)'
  BY <1>3 DEF IInv, Regulars, TypeOK, Regular, Gone, OutOfIt, DocksOf
<1>5. Steady(s)'
  BY DEF IInv, TypeOK, Fine, Steady
<1>6. TwoEnds'
  BY DEF IInv, TwoEnds
<1>7. QED
  BY <1>1, <1>2, <1>4, <1>5, <1>6, OneShip DEF Fine

LEMMA RepairDriveIInv ==
  ASSUME IInv, NEW s \in Ships, RepairDrive(s), UNCHANGED strayed
  PROVE  IInv'
<1> USE DEF RepairDrive, Free, Odd, Costs, clock, place, moving, inside, mooring
<1>1. TypeOK'
  BY DEF IInv, TypeOK, ShipStates
<1>2. LeavesOthers(s)
  BY DEF IInv, TypeOK, LeavesOthers, Regulars, Gone
<1>3. Regular(s) \/ s \notin Regulars
  BY DEF IInv, Fine
<1>4. s \in Regulars' => Regular(s)'
  BY <1>3 DEF IInv, Regulars, TypeOK, Regular, Gone, OutOfIt, DocksOf
<1>5. Steady(s)'
  BY DEF IInv, TypeOK, Fine, Steady
<1>6. TwoEnds'
  BY DEF IInv, TwoEnds
<1>7. QED
  BY <1>1, <1>2, <1>4, <1>5, <1>6, OneShip DEF Fine

LEMMA RepairSystemsIInv ==
  ASSUME IInv, NEW s \in Ships, RepairSystems(s), UNCHANGED strayed
  PROVE  IInv'
<1> USE DEF RepairSystems, Free, Odd, Costs, clock, place, moving, inside, mooring
<1>1. TypeOK'
  BY DEF IInv, TypeOK, ShipStates
<1>2. LeavesOthers(s)
  BY DEF IInv, TypeOK, LeavesOthers, Regulars, Gone
<1>3. Regular(s) \/ s \notin Regulars
  BY DEF IInv, Fine
<1>4. s \in Regulars' => Regular(s)'
  BY <1>3 DEF IInv, Regulars, TypeOK, Regular, Gone, OutOfIt, DocksOf
<1>5. Steady(s)'
  BY DEF IInv, TypeOK, Fine, Steady
<1>6. TwoEnds'
  BY DEF IInv, TwoEnds
<1>7. QED
  BY <1>1, <1>2, <1>4, <1>5, <1>6, OneShip DEF Fine

LEMMA LandIInv ==
  ASSUME IInv, NEW s \in Ships, NEW p \in Places, Land(s, p), UNCHANGED strayed
  PROVE  IInv'
<1> USE DEF Land, Free, clock, place, moving, inside, mooring
<1>1. TypeOK'
  BY DEF IInv, TypeOK, ShipStates
<1>2. LeavesOthers(s)
  BY DEF IInv, TypeOK, LeavesOthers, Regulars, Gone
<1>3. Regular(s) \/ s \notin Regulars
  BY DEF IInv, Fine
<1>4. s \in Regulars' => Regular(s)'
  BY <1>3 DEF IInv, Regulars, TypeOK, Regular, Gone, OutOfIt, DocksOf
<1>5. Steady(s)'
  BY DEF IInv, TypeOK, Fine, Steady
<1>6. TwoEnds'
  BY DEF IInv, TwoEnds
<1>7. QED
  BY <1>1, <1>2, <1>4, <1>5, <1>6, OneShip DEF Fine

LEMMA DockIInv ==
  ASSUME IInv, NEW s \in Ships, NEW d \in Docks, NEW e \in Docks, Dock(s, d, e), UNCHANGED strayed
  PROVE  IInv'
<1> USE DEF Dock, Free, Sees, clock, place, moving, inside, mooring
<1>1. TypeOK'
  BY DEF IInv, TypeOK, ShipStates
<1>2. LeavesOthers(s)
  BY DEF IInv, TypeOK, LeavesOthers, Regulars, Gone
<1>3. Regular(s) \/ s \notin Regulars
  BY DEF IInv, Fine
<1>4. s \in Regulars' => Regular(s)'
  BY <1>3 DEF IInv, Regulars, TypeOK, Regular, Gone, OutOfIt, DocksOf
<1>5. Steady(s)'
  BY DEF IInv, TypeOK, Fine, Steady
<1>6. TwoEnds'
  BY DEF IInv, TwoEnds
<1>7. QED
  BY <1>1, <1>2, <1>4, <1>5, <1>6, OneShip DEF Fine

LEMMA TransshipIInv ==
  ASSUME IInv, NEW s \in Ships, NEW p \in Places, Transship(s, p), UNCHANGED strayed
  PROVE  IInv'
<1> USE DEF Transship, Free, Odd, Costs, MoveToRoom, FromSystem, clock, place, moving, inside, mooring
<1>1. TypeOK'
  BY DEF IInv, TypeOK, ShipStates
<1>2. LeavesOthers(s)
  BY DEF IInv, TypeOK, LeavesOthers, Regulars, Gone
<1>3. Regular(s) \/ s \notin Regulars
  BY DEF IInv, Fine
<1>4. s \in Regulars' => Regular(s)'
  BY <1>3 DEF IInv, Regulars, TypeOK, Regular, Gone, OutOfIt, DocksOf
<1>5. Steady(s)'
  BY DEF IInv, TypeOK, Fine, Steady
<1>6. TwoEnds'
  BY DEF IInv, TwoEnds
<1>7. QED
  BY <1>1, <1>2, <1>4, <1>5, <1>6, OneShip DEF Fine

LEMMA TransshipNowhereIInv ==
  ASSUME IInv, NEW s \in Ships, TransshipNowhere(s)
  PROVE  IInv'
<1> USE DEF TransshipNowhere, Free, Odd, Costs, clock, place, moving, inside, mooring
<1>1. TypeOK'
  BY DEF IInv, TypeOK, ShipStates
<1>2. LeavesOthers(s)
  BY DEF IInv, TypeOK, LeavesOthers, Regulars, Gone
<1>3. Regular(s) \/ s \notin Regulars
  BY DEF IInv, Fine
<1>4. s \in Regulars' => Regular(s)'
  BY <1>3 DEF IInv, Regulars, TypeOK, Regular, Gone, OutOfIt, DocksOf
<1>5. Steady(s)'
  BY DEF IInv, TypeOK, Fine, Steady
<1>6. TwoEnds'
  BY DEF IInv, TwoEnds
<1>7. QED
  BY <1>1, <1>2, <1>4, <1>5, <1>6, OneShip DEF Fine

LEMMA CalculateIInv ==
  ASSUME IInv, NEW s \in Ships, NEW y \in Systems, Calculate(s, y), UNCHANGED strayed
  PROVE  IInv'
<1> USE DEF Calculate, Free, InRealSpace, Mooring, clock, place, moving, inside, mooring
<1>1. TypeOK'
  BY DEF IInv, TypeOK, ShipStates
<1>2. LeavesOthers(s)
  BY DEF IInv, TypeOK, LeavesOthers, Regulars, Gone
<1>3. Regular(s) \/ s \notin Regulars
  BY DEF IInv, Fine
<1>4. s \in Regulars' => Regular(s)'
  BY <1>3 DEF IInv, Regulars, TypeOK, Regular, Gone, OutOfIt, DocksOf
<1>5. Steady(s)'
  BY DEF IInv, TypeOK, Fine, Steady
<1>6. TwoEnds'
  BY DEF IInv, TwoEnds
<1>7. QED
  BY <1>1, <1>2, <1>4, <1>5, <1>6, OneShip DEF Fine

LEMMA TrackIInv ==
  ASSUME IInv, NEW s \in Ships, NEW t \in Ships, Track(s, t), UNCHANGED strayed
  PROVE  IInv'
<1> USE DEF Track, Free, Odd, Costs, InRealSpace, Mooring, clock, place, moving, inside, mooring
<1>1. TypeOK'
  BY DEF IInv, TypeOK, ShipStates
<1>2. LeavesOthers(s)
  BY DEF IInv, TypeOK, LeavesOthers, Regulars, Gone
<1>3. Regular(s) \/ s \notin Regulars
  BY DEF IInv, Fine
<1>4. s \in Regulars' => Regular(s)'
  BY <1>3 DEF IInv, Regulars, TypeOK, Regular, Gone, OutOfIt, DocksOf
<1>5. Steady(s)'
  BY DEF IInv, TypeOK, Fine, Steady
<1>6. TwoEnds'
  BY DEF IInv, TwoEnds
<1>7. QED
  BY <1>1, <1>2, <1>4, <1>5, <1>6, OneShip DEF Fine

LEMMA HitIInv ==
  ASSUME IInv, NEW s \in Ships, Hit(s), UNCHANGED strayed
  PROVE  IInv'
<1> USE DEF Hit, Free, Odd, Costs, clock, place, moving, inside, mooring
<1>1. TypeOK'
  BY DEF IInv, TypeOK, ShipStates
<1>2. LeavesOthers(s)
  BY DEF IInv, TypeOK, LeavesOthers, Regulars, Gone
<1>3. Regular(s) \/ s \notin Regulars
  BY DEF IInv, Fine
<1>4. s \in Regulars' => Regular(s)'
  BY <1>3 DEF IInv, Regulars, TypeOK, Regular, Gone, OutOfIt, DocksOf
<1>5. Steady(s)'
  BY DEF IInv, TypeOK, Fine, Steady
<1>6. TwoEnds'
  BY DEF IInv, TwoEnds
<1>7. QED
  BY <1>1, <1>2, <1>4, <1>5, <1>6, OneShip DEF Fine

LEMMA IoniseIInv ==
  ASSUME IInv, NEW s \in Ships, Ionise(s), UNCHANGED strayed
  PROVE  IInv'
<1> USE DEF Ionise, Free, Luck, Costs, clock, place, moving, inside, mooring
<1>1. TypeOK'
  BY DEF IInv, TypeOK, ShipStates
<1>2. LeavesOthers(s)
  BY DEF IInv, TypeOK, LeavesOthers, Regulars, Gone
<1>3. Regular(s) \/ s \notin Regulars
  BY DEF IInv, Fine
<1>4. s \in Regulars' => Regular(s)'
  BY <1>3 DEF IInv, Regulars, TypeOK, Regular, Gone, OutOfIt, DocksOf
<1>5. Steady(s)'
  BY DEF IInv, TypeOK, Fine, Steady
<1>6. TwoEnds'
  BY DEF IInv, TwoEnds
<1>7. QED
  BY <1>1, <1>2, <1>4, <1>5, <1>6, OneShip DEF Fine

LEMMA SetOnFireIInv ==
  ASSUME IInv, NEW s \in Ships, SetOnFire(s), UNCHANGED strayed
  PROVE  IInv'
<1> USE DEF SetOnFire, Free, Luck, Costs, clock, place, moving, inside, mooring
<1>1. TypeOK'
  BY DEF IInv, TypeOK, ShipStates
<1>2. LeavesOthers(s)
  BY DEF IInv, TypeOK, LeavesOthers, Regulars, Gone
<1>3. Regular(s) \/ s \notin Regulars
  BY DEF IInv, Fine
<1>4. s \in Regulars' => Regular(s)'
  BY <1>3 DEF IInv, Regulars, TypeOK, Regular, Gone, OutOfIt, DocksOf
<1>5. Steady(s)'
  BY DEF IInv, TypeOK, Fine, Steady
<1>6. TwoEnds'
  BY DEF IInv, TwoEnds
<1>7. QED
  BY <1>1, <1>2, <1>4, <1>5, <1>6, OneShip DEF Fine

LEMMA TractorIInv ==
  ASSUME IInv, NEW s \in Ships, NEW t \in Ships, NEW h \in Hangars, Tractor(s, t, h), UNCHANGED strayed
  PROVE  IInv'
<1> USE DEF Tractor, Free, Odd, Costs, InRealSpace, Mooring, Sees, clock, place, moving, inside, mooring
<1>1. TypeOK'
  BY DEF IInv, TypeOK, ShipStates
<1>2. LeavesOthers(t)
  BY DEF IInv, TypeOK, LeavesOthers, Regulars, Gone
<1>3. Regular(t) \/ t \notin Regulars
  BY DEF IInv, Fine
<1>4. t \in Regulars' => Regular(t)'
  BY <1>3 DEF IInv, Regulars, TypeOK, Fine, Regular, Gone, OutOfIt, DocksOf
<1>5. Steady(t)'
  BY DEF IInv, TypeOK, Fine, Steady
<1>6. TwoEnds'
  BY DEF IInv, TwoEnds
<1>7. QED
  BY <1>1, <1>2, <1>4, <1>5, <1>6, OneShip DEF Fine

LEMMA UndockIInv ==
  ASSUME IInv, NEW s \in Ships, NEW d \in Docks, Undock(s, d), UNCHANGED strayed
  PROVE  IInv'
<1> USE DEF Undock, Free, Unmoor, clock, place, moving, inside, mooring
<1>1. TypeOK'
  BY DEF IInv, TypeOK, ShipStates
<1>2. LeavesOthers(s)
  BY DEF IInv, TypeOK, LeavesOthers, Regulars, Gone, DocksOf
<1>3. Regular(s) \/ s \notin Regulars
  BY DEF IInv, Fine
<1>4. s \in Regulars' => Regular(s)'
  BY <1>3 DEF IInv, Regulars, TypeOK, Regular, Gone, OutOfIt, DocksOf
<1>5. Steady(s)'
  BY DEF IInv, TypeOK, Fine, Steady
<1>6. TwoEnds'
  BY DEF IInv, TypeOK, TwoEnds
<1>7. QED
  BY <1>1, <1>2, <1>4, <1>5, <1>6, OneShip DEF Fine

LEMMA HijackFlightIInv ==
  ASSUME IInv, NEW s \in Ships, NEW d \in Docks, HijackFlight(s, d), UNCHANGED strayed
  PROVE  IInv'
<1> USE DEF HijackFlight, Free, Odd, Costs, Unmoor, clock, place, moving, inside, mooring
<1>1. TypeOK'
  BY DEF IInv, TypeOK, ShipStates
<1>2. LeavesOthers(s)
  BY DEF IInv, TypeOK, LeavesOthers, Regulars, Gone, DocksOf
<1>3. Regular(s) \/ s \notin Regulars
  BY DEF IInv, Fine
<1>4. s \in Regulars' => Regular(s)'
  BY <1>3 DEF IInv, Regulars, TypeOK, Regular, Gone, OutOfIt, DocksOf
<1>5. Steady(s)'
  BY DEF IInv, TypeOK, Fine, Steady
<1>6. TwoEnds'
  BY DEF IInv, TypeOK, TwoEnds
<1>7. QED
  BY <1>1, <1>2, <1>4, <1>5, <1>6, OneShip DEF Fine

LEMMA PulseGoneIInv ==
  ASSUME IInv, NEW s \in Ships, PulseGone(s), UNCHANGED strayed
  PROVE  IInv'
<1> USE DEF PulseGone, FirstLoop, Flies, Upkeep, Counted, Tracked, JumpOf, clock, place, moving, inside, mooring
<1>1. TypeOK'
  BY DEF IInv, TypeOK, ShipStates
<1>2. LeavesOthers(s)
  BY DEF IInv, TypeOK, LeavesOthers, Regulars, Gone
<1>3. Regular(s) \/ s \notin Regulars
  BY DEF IInv, Fine
<1>4. s \in Regulars' => Regular(s)'
  BY <1>3 DEF IInv, Regulars, TypeOK, Regular, Gone, OutOfIt, DocksOf
<1>5. Steady(s)'
  BY DEF IInv, TypeOK, Fine, Steady
<1>6. TwoEnds'
  BY DEF IInv, TwoEnds
<1>7. QED
  BY <1>1, <1>2, <1>4, <1>5, <1>6, OneShip DEF Fine

LEMMA PulseWaitIInv ==
  ASSUME IInv, NEW s \in Ships, PulseWait(s), UNCHANGED strayed
  PROVE  IInv'
<1> USE DEF PulseWait, FirstLoop, Flies, Upkeep, Counted, Tracked, JumpOf, Lasting, Half, clock, place, moving, inside, mooring
<1>1. TypeOK'
  BY DEF IInv, TypeOK, ShipStates
<1>2. LeavesOthers(s)
  BY DEF IInv, TypeOK, LeavesOthers, Regulars, Gone
<1>3. Regular(s) \/ s \notin Regulars
  BY DEF IInv, Fine
<1>4. s \in Regulars' => Regular(s)'
  BY <1>3 DEF IInv, Regulars, TypeOK, Regular, Gone, OutOfIt, DocksOf
<1>5. Steady(s)'
  BY DEF IInv, TypeOK, Fine, Steady
<1>6. TwoEnds'
  BY DEF IInv, TwoEnds
<1>7. QED
  BY <1>1, <1>2, <1>4, <1>5, <1>6, OneShip DEF Fine

LEMMA PulseTurnIInv ==
  ASSUME IInv, NEW s \in Ships, PulseTurn(s), UNCHANGED strayed
  PROVE  IInv'
<1> USE DEF PulseTurn, FirstLoop, Flies, Upkeep, Counted, Tracked, JumpOf, clock, place, moving, inside, mooring
<1>1. TypeOK'
  BY DEF IInv, TypeOK, ShipStates
<1>2. LeavesOthers(s)
  BY DEF IInv, TypeOK, LeavesOthers, Regulars, Gone
<1>3. Regular(s) \/ s \notin Regulars
  BY DEF IInv, Fine
<1>4. s \in Regulars' => Regular(s)'
  BY <1>3 DEF IInv, Regulars, TypeOK, Regular, Gone, OutOfIt, DocksOf
<1>5. Steady(s)'
  BY DEF IInv, TypeOK, Fine, Steady
<1>6. TwoEnds'
  BY DEF IInv, TwoEnds
<1>7. QED
  BY <1>1, <1>2, <1>4, <1>5, <1>6, OneShip DEF Fine

LEMMA PulseLandIInv ==
  ASSUME IInv, NEW s \in Ships, PulseLand(s), UNCHANGED strayed
  PROVE  IInv'
<1> USE DEF PulseLand, FirstLoop, Flies, Upkeep, Counted, Tracked, JumpOf, ToRoom, FromSystem, Reachable, Below, Reached, Sees, clock, place, moving, inside, mooring
<1>1. TypeOK'
  BY DEF IInv, TypeOK, ShipStates
<1>2. LeavesOthers(s)
  BY DEF IInv, TypeOK, LeavesOthers, Regulars, Gone
<1>3. Regular(s) \/ s \notin Regulars
  BY DEF IInv, Fine
<1>4. s \in Regulars' => Regular(s)'
  BY <1>3 DEF IInv, Regulars, TypeOK, Fine, Regular, Gone, OutOfIt, DocksOf
<1>5. Steady(s)'
  BY DEF IInv, TypeOK, Fine, Steady
<1>6. TwoEnds'
  BY DEF IInv, TwoEnds
<1>7. QED
  BY <1>1, <1>2, <1>4, <1>5, <1>6, OneShip DEF Fine

LEMMA PulseDockNobodyIInv ==
  ASSUME IInv, NEW s \in Ships, PulseDockNobody(s), UNCHANGED strayed
  PROVE  IInv'
<1> USE DEF PulseDockNobody, FirstLoop, Flies, Upkeep, Counted, Tracked, JumpOf, clock, place, moving, inside, mooring
<1>1. TypeOK'
  BY DEF IInv, TypeOK, ShipStates
<1>2. LeavesOthers(s)
  BY DEF IInv, TypeOK, LeavesOthers, Regulars, Gone
<1>3. Regular(s) \/ s \notin Regulars
  BY DEF IInv, Fine
<1>4. s \in Regulars' => Regular(s)'
  BY <1>3 DEF IInv, Regulars, TypeOK, Regular, Gone, OutOfIt, DocksOf
<1>5. Steady(s)'
  BY DEF IInv, TypeOK, Fine, Steady
<1>6. TwoEnds'
  BY DEF IInv, TwoEnds
<1>7. QED
  BY <1>1, <1>2, <1>4, <1>5, <1>6, OneShip DEF Fine

LEMMA HyperspaceIInv ==
  ASSUME IInv, NEW s \in Ships, Hyperspace(s), UNCHANGED strayed
  PROVE  IInv'
<1> USE DEF Hyperspace, Free, InRealSpace, Mooring, clock, place, moving, inside, mooring
<1>0. SystemsKept(s)
  BY FromSystemKeeps DEF SystemsKept, IInv, TypeOK
<1>1. TypeOK'
  <2>1. state' \in [Ships -> ShipStates]
    BY <1>0 DEF IInv, TypeOK, ShipStates, SystemsKept
  <2>2. leg' \in [Ships -> 0 .. MaxLegs]
    BY DEF IInv, TypeOK
  <2>3. QED
    BY <1>0, <2>1, <2>2 DEF IInv, TypeOK, SystemsKept
<1>2. LeavesOthers(s)
  BY <1>0 DEF IInv, TypeOK, LeavesOthers, Regulars, Gone, SystemsKept
<1>3. Regular(s) \/ s \notin Regulars
  BY DEF IInv, Fine
<1>4. s \in Regulars' => Regular(s)'
  BY <1>3 DEF IInv, Regulars, TypeOK, Fine, Regular, Gone, OutOfIt, DocksOf, FromSystem
<1>5. Steady(s)'
  BY DEF IInv, TypeOK, Fine, Steady, FromSystem
<1>6. TwoEnds'
  BY DEF IInv, TwoEnds
<1>7. QED
  BY <1>1, <1>2, <1>4, <1>5, <1>6, OneShip DEF Fine

LEMMA SteerIInv ==
  ASSUME IInv, NEW s \in Ships, Steer(s)
  PROVE  IInv'
<1> USE DEF Steer, SecondLoop, clock, place, moving, inside, mooring
<1>0. SystemsKept(s)
  BY ToSystemKeeps DEF SystemsKept, IInv, TypeOK
<1>1. TypeOK'
  <2>1. state' \in [Ships -> ShipStates]
    <3>1. \/ state' = state
          \/ state' = [state EXCEPT ![s] = "BUSY"]
          \/ state' = [state EXCEPT ![s] = "READY"]
      OBVIOUS
    <3>2. state \in [Ships -> ShipStates] /\ "BUSY" \in ShipStates /\ "READY" \in ShipStates
      BY DEF IInv, TypeOK, ShipStates
    <3>3. QED
      BY <3>1, <3>2
  <2>2. turn' \in 0 .. 2 * N
    <3>1. turn' = IF turn = 2 * N THEN 0 ELSE turn + 1
      OBVIOUS
    <3>2. turn \in N + 1 .. 2 * N
      OBVIOUS
    <3>3. QED
      BY <3>1, <3>2
  <2>3. QED
    BY <1>0, <2>1, <2>2 DEF IInv, TypeOK, SystemsKept
<1>2. LeavesOthers(s)
  BY <1>0 DEF IInv, TypeOK, LeavesOthers, Regulars, Gone, SystemsKept
<1>3. Regular(s) \/ s \notin Regulars
  BY DEF IInv, Fine
<1>4. s \in Regulars' => Regular(s)'
  BY <1>3 DEF IInv, Regulars, TypeOK, Fine, Regular, Gone, OutOfIt, DocksOf, ToSystem
<1>5. Steady(s)'
  BY DEF IInv, TypeOK, Fine, Steady, ToSystem
<1>6. TwoEnds'
  BY DEF IInv, TwoEnds
<1>7. QED
  BY <1>1, <1>2, <1>4, <1>5, <1>6, OneShip DEF Fine

LEMMA PulseLaunchIInv ==
  ASSUME IInv, NEW s \in Ships, PulseLaunch(s), UNCHANGED strayed
  PROVE  IInv'
<1>1. TypeOK /\ Fine(s)
  BY DEF IInv
<1>2. SystemsKept(s)
  <2>1. SystemOf(at[s]) \in Systems \cup {None}
    BY <1>1 DEF PulseLaunch, TypeOK, SystemOf, Places
  <2>2. QED
    BY <1>1, <2>1, ToSystemKeeps DEF PulseLaunch
<1>3. RoomsKept(s)
  <2>1. CASE UNCHANGED <<room, parked>>
    BY <1>1, <1>2, <2>1 DEF SystemsKept, RoomsKept, TypeOK
  <2>2. CASE FromRoom(s)
    BY <1>1, <1>2, <2>2, FromRoomKeeps DEF SystemsKept
  <2>3. QED
    BY <2>1, <2>2 DEF PulseLaunch
<1>4. TypeOK'
  <2>1. /\ state' \in [Ships -> ShipStates]
        /\ at' \in [Ships -> Places \cup {None}]
    <3>1. /\ state' = [state EXCEPT ![s] = "DOCKED"] \/ state' = [state EXCEPT ![s] = "READY"]
          /\ at' = at \/ at' = [at EXCEPT ![s] = None]
      BY DEF PulseLaunch
    <3>2. state' \in [Ships -> ShipStates]
      <4>1. state \in [Ships -> ShipStates] /\ "DOCKED" \in ShipStates /\ "READY" \in ShipStates
        BY <1>1 DEF TypeOK, ShipStates
      <4>2. QED
        BY <3>1, <4>1
    <3>3. at' \in [Ships -> Places \cup {None}]
      BY <1>1, <3>1 DEF TypeOK
    <3>4. QED
      BY <3>2, <3>3
  <2>2. QED
    BY <1>1, <1>2, <1>3, <2>1, UpkeepTypes
       DEF PulseLaunch, Flies, mooring, TypeOK, SystemsKept, RoomsKept
<1>5. LeavesOthers(s)
  BY RegularsShrink, <1>1, <1>2, <1>3, UpkeepTypes DEF LeavesOthers, Gone, PulseLaunch, Flies, mooring, TypeOK, ShipStates, SystemsKept, RoomsKept
<1>6. s \in Regulars' => Regular(s)'
  BY RegularsShrink, <1>1, <1>2, <1>3, UpkeepTypes DEF SystemsKept, RoomsKept, Fine, Regular, Gone, OutOfIt, DocksOf, PulseLaunch, Flies, mooring, TypeOK, ToSystem, FromRoom, FirstLoop
<1>7. Steady(s)'
  BY <1>1, <1>2, <1>3, UpkeepTypes DEF Fine, Steady, PulseLaunch, Flies, mooring, TypeOK, ToSystem, FromRoom, FirstLoop
<1>8. TwoEnds'
  BY DEF PulseLaunch, mooring, IInv, TwoEnds
<1>9. QED
  BY <1>4, <1>5, <1>6, <1>7, <1>8, OneShip DEF Fine

LEMMA PulseAbortIInv ==
  ASSUME IInv, NEW s \in Ships, PulseAbort(s), UNCHANGED strayed
  PROVE  IInv'
<1>1. TypeOK /\ Fine(s)
  BY DEF IInv
<1>2. RoomsKept(s)
  BY <1>1, ToRoomKeeps DEF PulseAbort, Reachable, Places, RoomsKept, TypeOK
<1>4. TypeOK'
  BY <1>1, <1>2, UpkeepTypes DEF PulseAbort, Flies, Reached, mooring, TypeOK, ShipStates, RoomsKept
<1>5. LeavesOthers(s)
  BY RegularsShrink, <1>1, <1>2, UpkeepTypes DEF LeavesOthers, Gone, PulseAbort, Flies, Reached, mooring, TypeOK, ShipStates, RoomsKept
<1>6. s \in Regulars' => Regular(s)'
  BY RegularsShrink, <1>1, <1>2, UpkeepTypes DEF SystemsKept, RoomsKept, Fine, Regular, Gone, OutOfIt, DocksOf, PulseAbort, Flies, Reached, mooring, TypeOK, ToRoom
<1>7. Steady(s)'
  BY <1>1, <1>2, UpkeepTypes DEF Fine, Steady, PulseAbort, Flies, Reached, mooring, TypeOK, ToRoom
<1>8. TwoEnds'
  BY DEF PulseAbort, mooring, IInv, TwoEnds
<1>9. QED
  BY <1>4, <1>5, <1>6, <1>7, <1>8, OneShip DEF Fine

LEMMA PulseJumpIInv ==
  ASSUME IInv, NEW s \in Ships, PulseJump(s), UNCHANGED strayed
  PROVE  IInv'
<1>1. TypeOK /\ Fine(s)
  BY DEF IInv
<1>2. SystemsKept(s)
  <2>1. CASE UNCHANGED <<sys, flying, torn>>
    BY <1>1, <2>1 DEF SystemsKept, TypeOK
  <2>2. CASE ToSystem(s, JumpOf(s))
    BY <1>1, <2>2, ToSystemKeeps DEF JumpOf, TypeOK
  <2>3. QED
    BY <2>1, <2>2 DEF PulseJump
<1>3. /\ state' = state \/ (state' = [state EXCEPT ![s] = "READY"] /\ sys'[s] # None)
      /\ leg' \in [Ships -> 0 .. MaxLegs]
      /\ jump' \in [Ships -> Systems \cup {None}]
      /\ \A t \in Ships \ {s} : jump'[t] = jump[t]
      /\ track' \in [Ships -> Ships \cup {None}]
      /\ \A t \in Ships \ {s} : track'[t] = track[t]
      /\ track[s] = None => track'[s] = None
      /\ UNCHANGED <<up, odd, at, lastdoc, room, parked, dest, link, role>>
  BY <1>1 DEF PulseJump, TypeOK, Tracked, JumpOf, mooring
<1>4. TypeOK'
  <2>1. turn' \in 0 .. 2 * N
    BY DEF PulseJump, Flies, FirstLoop
  <2>2. state' \in [Ships -> ShipStates]
    BY <1>1, <1>3 DEF TypeOK, ShipStates
  <2>3. Counted(s)
    BY DEF PulseJump
  <2>4. QED
    BY <1>1, <1>2, <1>3, <2>1, <2>2, <2>3, CountedTypes DEF TypeOK, SystemsKept
<1>5. LeavesOthers(s)
  <2>1. Counted(s)
    BY DEF PulseJump
  <2>2. QED
    BY RegularsShrink, <1>1, <1>2, <1>3, <2>1, CountedTypes DEF LeavesOthers, Gone, TypeOK, SystemsKept
<1>6. s \in Regulars' => Regular(s)'
  BY RegularsShrink, <1>1, <1>2 DEF SystemsKept, Fine, Regular, Gone, OutOfIt, DocksOf, PulseJump, mooring, TypeOK, ToSystem, Tracked, JumpOf
<1>7. Steady(s)'
  BY <1>1 DEF Fine, Steady, PulseJump, TypeOK, ToSystem, Counted, JumpOf
<1>8. TwoEnds'
  BY DEF PulseJump, mooring, IInv, TwoEnds
<1>9. QED
  BY <1>4, <1>5, <1>6, <1>7, <1>8, OneShip DEF Fine

\* dockship: the ship at the other end is seen, so it is not destroyed.
LEMMA PulseDockIInv ==
  ASSUME IInv, NEW s \in Ships, PulseDock(s), UNCHANGED strayed
  PROVE  IInv'
<1>1. TypeOK /\ Fine(s)
  BY DEF IInv
<1>2. PICK d \in Docks, e \in Docks : dest[s] = <<d, e>> /\ DockOf[d] = s /\ DockOf[e] # s
  BY <1>1 DEF PulseDock, Fine, Steady
<1>3. /\ Sees(s, DockOf[e])
      /\ Upkeep(s) /\ FirstLoop(s)
      /\ UNCHANGED place
      /\ dest' = [dest EXCEPT ![s] = None]
      /\ \/ /\ link[d] = None /\ link[e] = None
            /\ link' = [link EXCEPT ![d] = e, ![e] = d]
            /\ role' = [role EXCEPT ![d] = 0, ![e] = 1]
            /\ state' = [state EXCEPT ![s] = "DOCKED2_FIN"]
         \/ /\ state' = [state EXCEPT ![s] = "READY"]
            /\ UNCHANGED mooring
  BY <1>2 DEF PulseDock, Flies, Reached
<1>4. DockOf[e] \in Regulars => ~ Gone(DockOf[e])
  BY <1>1, <1>3 DEF Sees, Regulars, IInv, Fine, Regular, OutOfIt, TypeOK
<1>5. TypeOK'
  <2>1. state' \in [Ships -> ShipStates]
    <3>1. state \in [Ships -> ShipStates] /\ "DOCKED2_FIN" \in ShipStates /\ "READY" \in ShipStates
      BY <1>1 DEF TypeOK, ShipStates
    <3>2. QED
      BY <1>3, <3>1
  <2>2. link' \in [Docks -> Docks \cup {None}] /\ role' \in [Docks -> {-1, 0, 1}]
    <3>1. CASE UNCHANGED mooring
      BY <1>1, <3>1 DEF TypeOK, mooring
    <3>2. CASE /\ link' = [link EXCEPT ![d] = e, ![e] = d]
               /\ role' = [role EXCEPT ![d] = 0, ![e] = 1]
      BY <1>1, <3>2 DEF TypeOK
    <3>3. QED
      BY <1>3, <3>1, <3>2
  <2>3. dest' \in [Ships -> Places \cup (Docks \X Docks) \cup {None}]
    BY <1>1, <1>3 DEF TypeOK
  <2>4. QED
    BY <1>1, <1>3, <2>1, <2>2, <2>3, UpkeepTypes DEF TypeOK, place
<1>6. LeavesOthers(s)
  <2>1. \A t \in Ships \ {s} : t \in Regulars /\ Gone(t) =>
            \A x \in DocksOf(t) : link[x] = None => link'[x] = None
    <3>1. SUFFICES ASSUME NEW t \in Ships \ {s}, t \in Regulars, Gone(t),
                          NEW x \in Docks, DockOf[x] = t, link[x] = None
                   PROVE  link'[x] = None
      BY DEF DocksOf
    <3>2. x # d /\ x # e
      BY <1>2, <1>4, <3>1
    <3>3. QED
      BY <1>1, <1>3, <3>1, <3>2 DEF TypeOK, mooring
  <2>2. \A t \in Ships \ {s} : state'[t] = state[t] /\ dest'[t] = dest[t]
    BY <1>1, <1>3 DEF TypeOK
  <2>3. ~ Gone(s)'
    BY <1>1, <1>3 DEF TypeOK, Gone
  <2>4. QED
    BY <1>1, <1>3, <2>1, <2>2, <2>3, UpkeepTypes DEF LeavesOthers, Regulars, place
<1>7. s \in Regulars' => Regular(s)'
  <2>1. state'[s] \in {"DOCKED2_FIN", "READY"} /\ state[s] = "DOCKED2_2"
    BY <1>1, <1>3 DEF TypeOK, PulseDock
  <2>2. QED
    BY <1>1, <1>3, <2>1 DEF Fine, Regulars, Regular, Gone, place
<1>8. Steady(s)'
  BY <1>1, <1>3 DEF Steady, TypeOK
<1>9. TwoEnds'
  <2>1. TwoEnds
    BY DEF IInv
  <2>2. CASE UNCHANGED mooring
    BY <2>1, <2>2 DEF TwoEnds, mooring
  <2>3. CASE /\ link[d] = None /\ link[e] = None
             /\ link' = [link EXCEPT ![d] = e, ![e] = d]
             /\ role' = [role EXCEPT ![d] = 0, ![e] = 1]
    <3>1. SUFFICES ASSUME NEW x \in Docks, NEW y \in Docks, link'[x] = y
                   PROVE  /\ link'[y] = x
                          /\ DockOf[x] # DockOf[y]
                          /\ (role'[x] = 0 /\ role'[y] = 1) \/ (role'[x] = 1 /\ role'[y] = 0)
      BY DEF TwoEnds
    <3>2. CASE x \in {d, e}
      BY <1>1, <1>2, <2>3, <3>1, <3>2 DEF TypeOK
    <3>3. CASE x \notin {d, e}
      <4>1. link[x] = y
        BY <1>1, <2>3, <3>1, <3>3 DEF TypeOK
      <4>2. link[y] = x /\ y \notin {d, e}
        BY <2>1, <2>3, <4>1 DEF TwoEnds
      <4>3. QED
        BY <1>1, <2>1, <2>3, <3>3, <4>1, <4>2 DEF TwoEnds, TypeOK
    <3>4. QED
      BY <3>2, <3>3
  <2>4. QED
    BY <1>3, <2>2, <2>3
<1>10. QED
  BY <1>5, <1>6, <1>7, <1>8, <1>9, OneShip DEF Fine

-----------------------------------------------------------------------------
(* Steps of several ships.                                                 *)

\* What is doomed with a ship is a set of ships, it among them, that holds
\* whatever is parked inside.
LEMMA DoomedClosed ==
  ASSUME TypeOK, NEW s \in Ships
  PROVE  Doomed(s) \in SUBSET Ships /\ s \in Doomed(s) /\ Closed(Doomed(s))
<1>1. Doomed(s) \in SUBSET Ships /\ s \in Doomed(s)
  BY DEF Doomed
<1>2. ASSUME NEW t \in Doomed(s), NEW u \in Inside(t) PROVE u \in Doomed(s)
  <2>1. u \in Ships
    BY <1>2 DEF Inside, TypeOK, Places
  <2>2. ASSUME NEW D \in SUBSET Ships, s \in D, Closed(D) PROVE u \in D
    <3>1. t \in D
      BY <1>2, <2>2 DEF Doomed
    <3>2. QED
      BY <1>2, <2>2, <3>1 DEF Closed
  <2>3. QED
    BY <2>1, <2>2 DEF Doomed
<1>3. QED
  BY <1>1, <1>2 DEF Closed

\* Freeing the docks of some ships frees both ends of each mooring.
LEMMA EndsTogether ==
  ASSUME TypeOK, TwoEnds, NEW D \in SUBSET Ships,
         link' = [d \in Docks |-> IF d \in Ends(D) THEN None ELSE link[d]],
         role' = [d \in Docks |-> IF d \in Ends(D) THEN -1 ELSE role[d]]
  PROVE  /\ TwoEnds'
         /\ link' \in [Docks -> Docks \cup {None}]
         /\ role' \in [Docks -> {-1, 0, 1}]
<1>1. \A d, e \in Docks : link[d] = e => (d \in Ends(D) <=> e \in Ends(D))
  BY DEF TwoEnds, Ends
<1>2. TwoEnds'
  BY <1>1 DEF TwoEnds, TypeOK
<1>3. QED
  BY <1>2 DEF TypeOK

\* Who is released by the end of others was moored, and so not destroyed.
LEMMA ReleasedWasMoored ==
  ASSUME IInv, NEW D \in SUBSET Ships, NEW t \in Ships \ D, Released(t, D)
  PROVE  t \in Regulars => ~ Gone(t)
<1>1. PICK d \in DocksOf(t) \cap Ends(D) : TRUE
  BY DEF Released
<1>2. link[d] # None
  BY <1>1 DEF Ends, DocksOf
<1>3. QED
  BY <1>1, <1>2 DEF IInv, Fine, Regular, OutOfIt

LEMMA PurgeTypes ==
  ASSUME TypeOK, TwoEnds, NEW D \in SUBSET Ships, Purge(D)
  PROVE  /\ state' \in [Ships -> ShipStates]
         /\ sys' \in [Ships -> Systems \cup {None}]
         /\ flying' \in [Systems -> SUBSET Ships]
         /\ at' \in [Ships -> Places \cup {None}]
         /\ lastdoc' \in [Ships -> Places \cup {None}]
         /\ room' \in [Ships -> Places \cup {None}]
         /\ parked' \in [Places -> SUBSET Ships]
         /\ jump' \in [Ships -> Systems \cup {None}]
         /\ track' \in [Ships -> Ships \cup {None}]
         /\ link' \in [Docks -> Docks \cup {None}]
         /\ role' \in [Docks -> {-1, 0, 1}]
<1>1. state' \in [Ships -> ShipStates]
  <2>1. /\ state \in [Ships -> ShipStates]
        /\ "FREED" \in ShipStates /\ "REPOSITORY" \in ShipStates /\ "READY" \in ShipStates
    BY DEF TypeOK, ShipStates
  <2>2. QED
    BY <2>1 DEF Purge
<1>2. /\ sys' \in [Ships -> Systems \cup {None}]
      /\ flying' \in [Systems -> SUBSET Ships]
  BY DEF Purge, TypeOK
<1>3. /\ at' \in [Ships -> Places \cup {None}]
      /\ lastdoc' \in [Ships -> Places \cup {None}]
  BY DEF Purge, TypeOK
<1>4. /\ room' \in [Ships -> Places \cup {None}]
      /\ parked' \in [Places -> SUBSET Ships]
  BY DEF Purge, TypeOK
<1>5. /\ jump' \in [Ships -> Systems \cup {None}]
      /\ track' \in [Ships -> Ships \cup {None}]
  BY DEF Purge, TypeOK
<1>6. /\ link' \in [Docks -> Docks \cup {None}]
      /\ role' \in [Docks -> {-1, 0, 1}]
  BY EndsTogether DEF Purge
<1>7. QED
  BY <1>1, <1>2, <1>3, <1>4, <1>5, <1>6

LEMMA PurgeIInv ==
  ASSUME IInv, TypeOK', NEW D \in SUBSET Ships, Closed(D) \/ "rooms" \in torn, Purge(D),
         UNCHANGED <<dest, torn, strayed>>,
         \A t \in Ships : ion[t] = 0 => ion'[t] = 0
  PROVE  IInv'
<1>1. /\ TypeOK /\ TwoEnds /\ \A t \in Ships : Fine(t)
      /\ Regulars' = Regulars /\ torn' = torn
  BY DEF IInv, Regulars
<1>2. TwoEnds'
  BY <1>1, EndsTogether DEF Purge
<1>3. \A t \in D : /\ state'[t] \in {"FREED", "REPOSITORY"}
                   /\ sys'[t] = None /\ track'[t] = None
                   /\ state'[t] = "FREED" => at'[t] = None
                   /\ state'[t] = "REPOSITORY" => at'[t] = Yard[t]
                   /\ \A y \in Systems : t \in flying'[y] <=> t \in flying[y] /\ sys[t] # y
  BY <1>1 DEF Purge, TypeOK
<1>4. \A t \in Ships \ D : /\ state'[t] = IF Released(t, D) THEN "READY" ELSE state[t]
                           /\ UNCHANGED <<sys[t], track[t], at[t], room[t], jump[t], dest[t]>>
                           /\ \A y \in Systems : t \in flying'[y] <=> t \in flying[y]
                           /\ \A p \in Places : t \in parked'[p] <=> t \in parked[p]
  BY <1>1 DEF Purge, TypeOK
<1>5. \A d \in Docks : link'[d] = IF d \in Ends(D) THEN None ELSE link[d]
  BY DEF Purge
<1>6. ASSUME NEW t \in D PROVE Fine(t)'
  <2>1. Steady(t)'
    BY <1>3 DEF Steady
  <2>2. ASSUME t \in Regulars PROVE Regular(t)'
    <3>1. Regular(t)
      BY <1>1, <2>2 DEF Fine
    <3>2. OutOfIt(t)'
      BY <1>3, <1>5 DEF OutOfIt, DocksOf, Ends
    <3>3. \A y \in Systems : t \notin flying'[y] /\ sys'[t] # y
      BY <1>3, <3>1 DEF Regular
    <3>4. at'[t] \notin Hangars
      BY <1>3
    <3>5. QED
      BY <1>3, <3>2, <3>3, <3>4 DEF Regular, Gone
  <2>3. QED
    BY <1>1, <2>1, <2>2 DEF Fine
<1>7. ASSUME NEW t \in Ships \ D PROVE Fine(t)'
  <2>1. Steady(t)'
    BY <1>1, <1>4 DEF Fine, Steady
  <2>2. ASSUME t \in Regulars PROVE Regular(t)'
    <3>1. Regular(t)
      BY <1>1, <2>2 DEF Fine
    <3>2. Released(t, D) => ~ Gone(t)
      BY <2>2, ReleasedWasMoored
    <3>3. (Gone(t) => OutOfIt(t))'
      BY <1>4, <1>5, <3>1 DEF Regular, Gone, OutOfIt, DocksOf
    <3>4. state'[t] # "REPOSITORY" => state[t] # "REPOSITORY"
      BY <1>4, <3>2 DEF Gone
    <3>5. ASSUME "rooms" \notin torn, at'[t] \in Hangars, state'[t] # "REPOSITORY"
          PROVE  Bearer[at'[t]] \notin Regulars \/ state'[Bearer[at'[t]]] \notin {"REPOSITORY", "FREED"}
      <4>1. at[t] \in Hangars /\ at'[t] = at[t] /\ Bearer[at[t]] \in Ships
        BY <1>4, <3>5
      <4>2. t \in parked[at[t]]
        BY <3>1, <3>4, <3>5, <4>1 DEF Regular
      <4>3. Bearer[at[t]] \notin D
        BY <3>5, <4>1, <4>2 DEF Closed, Inside
      <4>4. Bearer[at[t]] \notin Regulars \/ ~ Gone(Bearer[at[t]])
        BY <3>1, <3>4, <3>5, <4>1 DEF Regular
      <4>5. QED
        BY <1>4, <4>1, <4>3, <4>4 DEF Gone
    <3>6. at'[t] # None /\ state'[t] # "REPOSITORY" => room'[t] = at'[t] /\ t \in parked'[at'[t]]
      <4>1. at[t] \in Places \cup {None}
        BY <1>1 DEF TypeOK
      <4>2. QED
        BY <1>4, <3>1, <3>4, <4>1 DEF Regular
    <3>7. /\ at'[t] = None \/ sys'[t] = None
          /\ \A y \in Systems : t \in flying'[y] <=> sys'[t] = y
          /\ state'[t] = "HYPERSPACE" => sys'[t] = None /\ at'[t] = None
          /\ state'[t] \in {"LAND", "LAND_2", "DOCKED2", "DOCKED2_2"} => sys'[t] # None
      BY <1>4, <3>1 DEF Regular
    <3>8. QED
      BY <1>1, <3>3, <3>5, <3>6, <3>7 DEF Regular, Gone
  <2>3. QED
    BY <1>1, <2>1, <2>2 DEF Fine
<1>8. QED
  BY <1>2, <1>6, <1>7 DEF IInv

\* A wreck takes along what is inside, unless the lists of the rooms are torn.
LEMMA WrecksClosed ==
  ASSUME TypeOK, NEW s \in Ships, NEW D \in Wrecks(s)
  PROVE  D \in SUBSET Ships /\ (Closed(D) \/ "rooms" \in torn)
  BY DoomedClosed DEF Wrecks

LEMMA BlowUpIInv ==
  ASSUME IInv, NEW s \in Ships, BlowUp(s), UNCHANGED strayed
  PROVE  IInv'
<1>1. TypeOK /\ TwoEnds
  BY DEF IInv
<1>2. PICK D \in Wrecks(s) : Purge(D)
  BY DEF BlowUp
<1>3. D \in SUBSET Ships /\ (Closed(D) \/ "rooms" \in torn)
  BY <1>1, WrecksClosed
<1>4. UNCHANGED <<torn, ion, timer, leg, auto, dest, up, turn>> /\ odd' \in 0 .. MaxOdd
  BY <1>1 DEF BlowUp, Odd, Costs, TypeOK
<1>5. TypeOK'
  BY <1>1, <1>2, <1>3, <1>4, PurgeTypes DEF TypeOK
<1>6. QED
  BY <1>2, <1>3, <1>4, <1>5, PurgeIInv

LEMMA PulseExplodeIInv ==
  ASSUME IInv, NEW s \in Ships, PulseExplode(s), UNCHANGED strayed
  PROVE  IInv'
<1>1. TypeOK /\ TwoEnds
  BY DEF IInv
<1>2. PICK D \in Wrecks(s) : Purge(D)
  BY DEF PulseExplode
<1>3. D \in SUBSET Ships /\ (Closed(D) \/ "rooms" \in torn)
  BY <1>1, WrecksClosed
<1>4. Counted(s) /\ UNCHANGED <<up, odd, torn, leg, dest>> /\ turn' \in 0 .. 2 * N
  BY DEF PulseExplode, FirstLoop
<1>5. TypeOK'
  BY <1>1, <1>2, <1>3, <1>4, PurgeTypes, CountedTypes DEF TypeOK
<1>6. \A t \in Ships : ion[t] = 0 => ion'[t] = 0
  BY <1>1, <1>4 DEF Counted, TypeOK
<1>7. QED
  BY <1>2, <1>3, <1>4, <1>5, <1>6, PurgeIInv

\* resetship frees the docks of one ship; a capital ship strays.
LEMMA ResetshipIInv ==
  ASSUME IInv, NEW s \in Ships, Resetship(s)
  PROVE  IInv'
<1>1. TypeOK /\ TwoEnds /\ \A t \in Ships : Fine(t)
  BY DEF IInv
<1>2. /\ at' = [at EXCEPT ![s] = Yard[s]]
      /\ lastdoc' = [lastdoc EXCEPT ![s] = Yard[s]]
      /\ \/ /\ s \in Capital
            /\ FromRoom(s)
            /\ strayed' = strayed \cup {s}
         \/ /\ s \notin Capital
            /\ MoveToRoom(s, Yard[s])
            /\ FromSystem(s)
            /\ strayed' = strayed
      /\ state' = [t \in Ships |-> IF t = s THEN IF s \in Capital THEN "READY" ELSE "DOCKED"
                                   ELSE IF Released(t, {s}) THEN "READY" ELSE state[t]]
      /\ link' = [d \in Docks |-> IF d \in Ends({s}) THEN None ELSE link[d]]
      /\ role' = [d \in Docks |-> IF d \in Ends({s}) THEN -1 ELSE role[d]]
      /\ ion' = [ion EXCEPT ![s] = 0]
      /\ jump' = [jump EXCEPT ![s] = None]
      /\ track' = [track EXCEPT ![s] = None]
      /\ up' = up /\ turn' = turn /\ odd' \in 0 .. MaxOdd
      /\ UNCHANGED <<torn, timer, leg, dest>>
  BY <1>1 DEF Resetship, Odd, Costs, TypeOK
<1>3. /\ sys' \in [Ships -> Systems \cup {None}]
      /\ flying' \in [Systems -> SUBSET Ships]
      /\ auto' \in [Ships -> BOOLEAN]
      /\ \A t \in Ships \ {s} : /\ sys'[t] = sys[t]
                                /\ \A y \in Systems : t \in flying'[y] <=> t \in flying[y]
  <2>1. CASE s \in Capital
    <3>1. PICK y \in Systems :
            /\ sys' = [sys EXCEPT ![s] = y]
            /\ flying' = [z \in Systems |->
                            IF z = y THEN flying[z] \cup {s}
                            ELSE IF z = sys[s] THEN flying[z] \ {s} ELSE flying[z]]
            /\ auto' = [auto EXCEPT ![s] = TRUE]
      BY <2>1 DEF Resetship
    <3>2. QED
      BY <1>1, <3>1 DEF TypeOK
  <2>2. CASE s \notin Capital
    <3>1. FromSystem(s) /\ auto' = auto
      BY <2>2 DEF Resetship
    <3>2. QED
      BY <1>1, <3>1 DEF TypeOK, FromSystem
  <2>3. QED
    BY <2>1, <2>2
<1>4. /\ room' \in [Ships -> Places \cup {None}]
      /\ parked' \in [Places -> SUBSET Ships]
      /\ \A t \in Ships \ {s} : /\ room'[t] = room[t]
                                /\ \A p \in Places : t \in parked'[p] <=> t \in parked[p]
  <2>1. Yard[s] \in Places
    BY DEF Places
  <2>2. room \in [Ships -> Places \cup {None}] /\ parked \in [Places -> SUBSET Ships]
    BY <1>1 DEF TypeOK
  <2>3. CASE FromRoom(s)
    BY <2>2, <2>3 DEF FromRoom
  <2>4. CASE MoveToRoom(s, Yard[s])
    BY <2>1, <2>2, <2>4 DEF MoveToRoom
  <2>5. QED
    BY <1>2, <2>3, <2>4
<1>5. TwoEnds' /\ link' \in [Docks -> Docks \cup {None}] /\ role' \in [Docks -> {-1, 0, 1}]
  <2>1. {s} \in SUBSET Ships
    OBVIOUS
  <2>2. QED
    BY ONLY <1>1, <1>2, <2>1, EndsTogether
<1>6. state' \in [Ships -> ShipStates]
  <2>1. state \in [Ships -> ShipStates] /\ "DOCKED" \in ShipStates /\ "READY" \in ShipStates
    BY <1>1 DEF TypeOK, ShipStates
  <2>2. QED
    BY <1>2, <2>1
<1>7. /\ at' \in [Ships -> Places \cup {None}]
      /\ lastdoc' \in [Ships -> Places \cup {None}]
      /\ ion' \in [Ships -> 0 .. MaxIon]
      /\ jump' \in [Ships -> Systems \cup {None}]
      /\ track' \in [Ships -> Ships \cup {None}]
      /\ strayed' \subseteq Ships
  BY <1>1, <1>2 DEF TypeOK, Places
<1>8. TypeOK'
  <2>1. /\ up' \in BOOLEAN /\ turn' \in 0 .. 2 * N /\ odd' \in 0 .. MaxOdd
        /\ timer' \in [Ships -> -1 .. MaxTimer] /\ leg' \in [Ships -> 0 .. MaxLegs]
        /\ dest' \in [Ships -> Places \cup (Docks \X Docks) \cup {None}]
        /\ torn' \subseteq {"rooms", "systems"}
    BY <1>1, <1>2 DEF TypeOK
  <2>2. QED
    BY <1>3, <1>4, <1>5, <1>6, <1>7, <2>1 DEF TypeOK
<1>9. Fine(s)'
  <2>1. state'[s] \in {"READY", "DOCKED"}
    BY <1>2
  <2>2. Steady(s)'
    BY <2>1 DEF Steady
  <2>3. ASSUME s \in Regulars' PROVE Regular(s)'
    <3>1. /\ s \notin Capital /\ s \in Regulars
          /\ MoveToRoom(s, Yard[s]) /\ FromSystem(s) /\ at'[s] = Yard[s]
      BY <1>1, <1>2, <2>3 DEF TypeOK, Regulars
    <3>2. Regular(s)
      BY <1>1, <3>1 DEF Fine
    <3>3. /\ sys'[s] = None /\ at'[s] \notin Hangars /\ room'[s] = Yard[s]
          /\ s \in parked'[Yard[s]]
      BY <1>1, <3>1 DEF TypeOK, FromSystem, MoveToRoom, Places
    <3>4. \A y \in Systems : s \notin flying'[y]
      BY <1>1, <3>1, <3>2 DEF FromSystem, Regular, TypeOK
    <3>5. QED
      BY <2>1, <3>1, <3>3, <3>4 DEF Regular, Gone
  <2>4. QED
    BY <2>2, <2>3 DEF Fine
<1>10. \A t \in Ships \ {s} :
          /\ state'[t] = IF Released(t, {s}) THEN "READY" ELSE state[t]
          /\ UNCHANGED <<track[t], at[t], jump[t], ion[t], dest[t]>>
  BY <1>1, <1>2 DEF TypeOK
<1>11. ASSUME NEW t \in Ships \ {s} PROVE Fine(t)'
  <2>1. Steady(t)'
    BY <1>1, <1>3, <1>10 DEF Fine, Steady
  <2>2. ASSUME t \in Regulars' PROVE Regular(t)'
    <3>1. t \in Regulars /\ Regular(t) /\ Regulars' \subseteq Regulars
      BY <1>1, <1>2, <2>2 DEF Fine, Regulars
    <3>2. Released(t, {s}) => ~ Gone(t)
      BY <3>1, ReleasedWasMoored
    <3>3. (Gone(t) => OutOfIt(t))'
      BY <1>2, <1>3, <1>10, <3>1 DEF Regular, Gone, OutOfIt, DocksOf
    <3>4. state'[t] # "REPOSITORY" => state[t] # "REPOSITORY"
      BY <1>10, <3>2 DEF Gone
    <3>5. ASSUME "rooms" \notin torn, at'[t] \in Hangars, state'[t] # "REPOSITORY"
          PROVE  Bearer[at'[t]] \notin Regulars' \/ state'[Bearer[at'[t]]] \notin {"REPOSITORY", "FREED"}
      <4>1. at[t] \in Hangars /\ at'[t] = at[t] /\ Bearer[at[t]] \in Ships
        BY <1>10, <3>5
      <4>2. Bearer[at[t]] \notin Regulars \/ ~ Gone(Bearer[at[t]])
        BY <3>1, <3>4, <3>5, <4>1 DEF Regular
      <4>3. QED
        BY <1>2, <1>10, <3>1, <4>1, <4>2 DEF Gone
    <3>6. at'[t] # None /\ state'[t] # "REPOSITORY" => room'[t] = at'[t] /\ t \in parked'[at'[t]]
      <4>1. at[t] \in Places \cup {None}
        BY <1>1 DEF TypeOK
      <4>2. QED
        BY <1>4, <1>10, <3>1, <3>4, <4>1 DEF Regular
    <3>7. /\ at'[t] = None \/ sys'[t] = None
          /\ \A y \in Systems : t \in flying'[y] <=> sys'[t] = y
          /\ state'[t] = "HYPERSPACE" => sys'[t] = None /\ at'[t] = None
          /\ state'[t] \in {"LAND", "LAND_2", "DOCKED2", "DOCKED2_2"} => sys'[t] # None
      BY <1>3, <1>10, <3>1 DEF Regular
    <3>8. QED
      BY <1>2, <3>3, <3>5, <3>6, <3>7 DEF Regular, Gone
  <2>3. QED
    BY <2>1, <2>2 DEF Fine
<1>12. QED
  BY <1>5, <1>8, <1>9, <1>11 DEF IInv

LEMMA StillIInv ==
  ASSUME IInv, UNCHANGED <<odd, moving, inside, mooring, strayed>>,
         up' \in BOOLEAN, turn' \in 0 .. 2 * N
  PROVE  IInv'
<1>1. TypeOK /\ TwoEnds /\ \A t \in Ships : Fine(t)
  BY DEF IInv
<1>2. TypeOK'
  BY <1>1 DEF TypeOK, moving, place, inside, mooring
<1>3. TwoEnds'
  BY <1>1 DEF TwoEnds, mooring
<1>4. ASSUME NEW t \in Ships PROVE Fine(t)'
  BY <1>1 DEF Fine, Regulars, Regular, Steady, Gone, OutOfIt, DocksOf, moving, place, inside, mooring
<1>5. QED
  BY <1>2, <1>3, <1>4 DEF IInv

-----------------------------------------------------------------------------
(* Every step.                                                             *)

LEMMA CommandIInv ==
  ASSUME IInv, NEW s \in Ships, Command(s), UNCHANGED strayed
  PROVE  IInv'
<1>1. CASE Launch(s) \/ HijackPad(s) \/ Hyperspace(s) \/ Turn(s) \/ Autopilot(s)
  BY <1>1, LaunchIInv, HijackPadIInv, HyperspaceIInv, TurnIInv, AutopilotIInv
<1>2. CASE RepairDrive(s) \/ RepairSystems(s)
  BY <1>2, RepairDriveIInv, RepairSystemsIInv
<1>3. CASE \E p \in Places : Land(s, p) \/ Transship(s, p)
  BY <1>3, LandIInv, TransshipIInv
<1>4. CASE \E d \in Docks : Undock(s, d) \/ HijackFlight(s, d)
  BY <1>4, UndockIInv, HijackFlightIInv
<1>5. CASE \E d, e \in Docks : Dock(s, d, e)
  BY <1>5, DockIInv
<1>6. CASE \E y \in Systems : Calculate(s, y)
  BY <1>6, CalculateIInv
<1>7. CASE \E t \in Ships : Track(s, t)
  BY <1>7, TrackIInv
<1>8. CASE \E t \in Ships, h \in Hangars : Tractor(s, t, h)
  BY <1>8, TractorIInv
<1>9. QED
  BY <1>1, <1>2, <1>3, <1>4, <1>5, <1>6, <1>7, <1>8 DEF Command

LEMMA MishapIInv ==
  ASSUME IInv, NEW s \in Ships, Mishap(s), UNCHANGED strayed
  PROVE  IInv'
  BY HitIInv, IoniseIInv, SetOnFireIInv, BlowUpIInv DEF Mishap

LEMMA PulseOfIInv ==
  ASSUME IInv, NEW s \in Ships, PulseOf(s), UNCHANGED strayed
  PROVE  IInv'
<1>1. CASE PulseGone(s) \/ PulseExplode(s) \/ PulseWait(s) \/ PulseTurn(s)
  BY <1>1, PulseGoneIInv, PulseExplodeIInv, PulseWaitIInv, PulseTurnIInv
<1>2. CASE PulseJump(s) \/ PulseLaunch(s) \/ PulseAbort(s) \/ PulseLand(s)
  BY <1>2, PulseJumpIInv, PulseLaunchIInv, PulseAbortIInv, PulseLandIInv
<1>3. CASE PulseDock(s) \/ PulseDockNobody(s)
  BY <1>3, PulseDockIInv, PulseDockNobodyIInv
<1>4. QED
  BY <1>1, <1>2, <1>3 DEF PulseOf

LEMMA NextIInv == IInv /\ [Next]_vars => IInv'
<1> SUFFICES ASSUME IInv, [Next]_vars PROVE IInv'
  OBVIOUS
<1>1. CASE UNCHANGED vars
  <2>1. turn \in 0 .. 2 * N /\ up \in BOOLEAN
    BY DEF IInv, TypeOK
  <2>2. QED
    BY <1>1, <2>1, StillIInv DEF vars, clock
<1>2. CASE Pulse
  <2>1. CASE StartPulse /\ UNCHANGED strayed
    BY <2>1, StillIInv DEF StartPulse, IInv, TypeOK
  <2>2. CASE \E s \in Ships : PulseOf(s) /\ UNCHANGED strayed
    BY <2>2, PulseOfIInv
  <2>3. CASE \E s \in Ships : Steer(s)
    BY <2>3, SteerIInv
  <2>4. QED
    BY <1>2, <2>1, <2>2, <2>3 DEF Pulse
<1>3. CASE \E s \in Ships : (Command(s) \/ Mishap(s)) /\ UNCHANGED strayed
  BY <1>3, CommandIInv, MishapIInv
<1>4. CASE \E s \in Ships : Resetship(s) \/ TransshipNowhere(s)
  BY <1>4, ResetshipIInv, TransshipNowhereIInv
<1>5. CASE Unravel /\ UNCHANGED strayed
  BY <1>5, StillIInv DEF Unravel, Free, IInv, TypeOK
<1>6. QED
  BY <1>1, <1>2, <1>3, <1>4, <1>5 DEF Next

\* Safety: the inductive invariant holds in every reachable state.
LEMMA IInvHolds == Spec => []IInv
  BY InitIInv, NextIInv, PTL DEF Spec

-----------------------------------------------------------------------------
(* The properties of Ships.                                                *)

\* Safety: pointers stay null or of their kind and counters in their range
\* through every command, hit, explosion and pulse (space.cpp, update_space).
THEOREM ShipsTypeCorrect == Spec => []TypeOK
<1>1. IInv => TypeOK
  BY DEF IInv
<1>2. QED
  BY <1>1, IInvHolds, PTL

\* Safety: the two ends of a mooring point to each other and none is left at a
\* ship that is destroyed (do_dock, dockship, undock, purge_ship, resetship).
THEOREM ShipsMoored == Spec => []DocksMutual
<1>1. ASSUME IInv PROVE DocksMutual
  <2>1. SUFFICES ASSUME NEW d \in Docks, NEW e \in Docks, link[d] = e
                 PROVE  /\ link[e] = d
                        /\ DockOf[d] # DockOf[e]
                        /\ {role[d], role[e]} = {0, 1}
                        /\ DockOf[d] \in Regulars => ~ Gone(DockOf[d])
    BY DEF DocksMutual
  <2>2. /\ link[e] = d
        /\ DockOf[d] # DockOf[e]
        /\ (role[d] = 0 /\ role[e] = 1) \/ (role[d] = 1 /\ role[e] = 0)
    BY <1>1, <2>1 DEF IInv, TwoEnds
  <2>3. DockOf[d] \in Ships /\ d \in DocksOf(DockOf[d]) /\ link[d] # None
    BY <2>1 DEF DocksOf
  <2>4. DockOf[d] \in Regulars => ~ Gone(DockOf[d])
    BY <1>1, <2>3 DEF IInv, Fine, Regular, OutOfIt
  <2>5. QED
    BY <2>2, <2>4
<1>2. QED
  BY <1>1, IInvHolds, PTL

\* Safety: the pointers of a ship and the lists of rooms and systems name the
\* same single place (ship_to_room, extract_ship, ship_to_starsystem), and that
\* is not the hangar of a ship that is destroyed (purge_ship, to any depth of
\* ships inside ships).
THEOREM ShipsFound == Spec => []FoundWhereItIs
<1>1. IInv => OnPadLinked /\ OnePlace /\ ListedOnce
  BY DEF IInv, Fine, Regulars, Regular, OnPadLinked, OnePlace, ListedOnce
<1>2. ASSUME IInv PROVE NobodyInsideAWreck
  BY <1>2 DEF IInv, Fine, Regulars, Regular, NobodyInsideAWreck
<1>3. IInv => FoundWhereItIs
  BY <1>1, <1>2 DEF FoundWhereItIs
<1>4. QED
  BY <1>3, IInvHolds, PTL

\* Safety: what launchship, landship, dockship and the exit of hyperspace will
\* finish starts from where the ship still is and ends somewhere.
THEOREM ShipsUnderWay == Spec => []UnderWayToSomewhere
<1>1. IInv => UnderWayToSomewhere
  BY DEF IInv, Fine, Regulars, Regular, Steady, UnderWayToSomewhere, ManoeuvreHasPlace, NeverLost
<1>2. QED
  BY <1>1, IInvHolds, PTL
=============================================================================
