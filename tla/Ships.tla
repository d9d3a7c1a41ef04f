------------------------------- MODULE Ships -------------------------------
(***************************************************************************)
(* Ships: launching, landing, mooring to one another, hyperspace jumps,    *)
(* explosions and the pulse that moves all of them (space.cpp, space2.cpp, *)
(* the hijacking of swskills.cpp and free_ship of mem.cpp).                *)
(*                                                                         *)
(* A ship is listed in at most one room through its in_room pointer and in *)
(* one star system through its starsystem pointer; the heads of the lists  *)
(* are elsewhere.  LINK does not look whether the ship is listed already,  *)
(* UNLINK takes it out of the list its own pointer names: "parked" and     *)
(* "flying" are the lists, "room" and "sys" the pointers.  The links of a  *)
(* list are in the ships, so a second LINK overwrites the first: the list  *)
(* the ship was in is cut behind it, and both lists run into each other.   *)
(* "torn" remembers that this has happened, to the rooms or to the systems; *)
(* what a walk along those lists finds is open from then on, and the next  *)
(* UNLINK, or a walk over a ship that is freed, may stop the server.       *)
(*                                                                         *)
(* The program is one thread: a command runs to its end, and update_space  *)
(* goes through all the ships twice before the next one.  "turn" is the    *)
(* place that loop has reached, 0 between two pulses.                      *)
(*                                                                         *)
(* Left out: positions, speed, energy, prices and skill rolls (a command   *)
(* whose dice or distances refuse it changes nothing), the time a jump     *)
(* takes to calculate (pilots may wait as long), weapons but for what a    *)
(* hit does, the ships of the public lines and their timetable, building   *)
(* and selling.  BUSY stands for BUSY_1 .. BUSY_10.                        *)
(***************************************************************************)
EXTENDS Integers, Sequences, FiniteSets, Functions

CONSTANTS
    Ships,      \* the ships
    None,       \* the null pointer
    Order,      \* the list first_ship .. last_ship
    Systems,    \* the star systems
    Pads,       \* landing pads of planets and moons
    Hangars,    \* hangars of ships
    Docks,      \* mooring docks of ships
    Orbit,      \* the system of each pad
    Bearer,     \* the ship of each hangar
    DockOf,     \* the ship of each dock
    Yard,       \* the shipyard of each ship
    Home,       \* the system each capital ship starts in
    Capital,    \* ships that start in space and do not land
    Fast,       \* scouts and fighters: destroyed at once
    Indexed,    \* ships built from an index (vnum # 0): freed when destroyed
    Hyperdrive, \* ships whose hyperspeed is not 0
    MaxIon,     \* bound: pulses an ionised ship stays so
    MaxTimer,   \* bound: pulses from the fire to the explosion
    MaxLegs,    \* bound: pulses in hyperspace
    MaxOdd      \* bound: mishaps and administrators' commands in a run

Places == Pads \cup Hangars

ASSUME ShipsAssumption ==
    /\ None \notin Ships \cup Systems \cup Places \cup Docks
    /\ Pads \cap Hangars = {}
    /\ Orbit \in [Pads -> Systems]
    /\ Bearer \in [Hangars -> Ships]
    /\ DockOf \in [Docks -> Ships]
    /\ Yard \in [Ships -> Pads]
    /\ Home \in [Capital -> Systems]
    /\ Capital \subseteq Ships
    /\ Order \in Seq(Ships) /\ Order # <<>>
    /\ \A s \in Ships : \E i \in 1 .. Len(Order) : Order[i] = s
    /\ MaxIon \in Nat /\ MaxTimer \in Nat /\ MaxLegs \in Nat /\ MaxOdd \in Nat

ShipStates == {"DOCKED", "READY", "BUSY", "LAND", "LAND_2", "LAUNCH",
               "LAUNCH_2", "HYPERSPACE", "DISABLED", "EXPLODE", "DOCKED2",
               "DOCKED2_2", "DOCKED2_FIN", "REPOSITORY", "FREED"}

VARIABLES
    up,         \* the server runs
    turn,       \* where update_space is
    odd,        \* mishaps so far
    state,      \* ship->shipstate
    sys,        \* ship->starsystem
    flying,     \* the list starsystem->first_ship of each system
    at,         \* ship->location
    lastdoc,    \* ship->lastdoc
    room,       \* ship->in_room
    parked,     \* the list room->first_ship of each place
    ion,        \* ship->shipstate1
    timer,      \* ship->timer
    leg,        \* ship->hyperdistance
    jump,       \* ship->currjump
    auto,       \* ship->autopilot
    track,      \* ship->target0 while autotrack is on
    dest,       \* ship->dest
    link,       \* dock->target and targetvnum: the dock at the other end
    role,       \* dock->master_slave: 0 the one that came, 1 the other, -1 free
    torn,       \* history: the kinds of lists some ship was linked twice into
    strayed     \* history: the ships put into a system while on a pad or in
                \* hyperspace, or taken for READY while in the repository

clock == <<up, turn, odd>>
place == <<sys, flying, at, lastdoc, room, parked, torn>>
moving == <<state, place>>
inside == <<ion, timer, leg, jump, auto, track, dest>>
mooring == <<link, role>>
vars == <<clock, moving, inside, mooring, strayed>>

Gone(s) == state[s] \in {"REPOSITORY", "FREED"}

-----------------------------------------------------------------------------
(* The helpers of the code. *)

\* starsystem_from_vnum: where a ship that leaves this place comes out
SystemOf(p) == IF p \in Pads THEN Orbit[p] ELSE sys[Bearer[p]]

DocksOf(s) == {d \in Docks : DockOf[d] = s}
Moored(s) == \E d \in DocksOf(s) : link[d] # None            \* is_linked(NULL, s)
Mooring(s) == state[s] \in {"DOCKED2", "DOCKED2_2", "DOCKED2_FIN"}

InRealSpace(s) ==
    /\ state[s] \notin {"HYPERSPACE", "DISABLED", "DOCKED"}
    /\ ion[s] = 0
    /\ ~ Mooring(s)
    /\ sys[s] # None

\* get_ship_here: a flying ship is found by its name in the system of the one
\* who asks; in a torn list it may be missed, and one that left may be found.
Sees(s, t) ==
    /\ sys[s] # None /\ t # s /\ state[t] # "FREED"
    /\ t \in flying[sys[s]] \/ "systems" \in torn
Misses(s, t) == ~ Sees(s, t) \/ "systems" \in torn

\* ship_to_room, extract_ship then ship_to_room, and extract_ship
ToRoom(s, p) ==
    /\ room' = [room EXCEPT ![s] = p]
    /\ parked' = [parked EXCEPT ![p] = @ \cup {s}]
    /\ torn' = IF room[s] = None THEN torn ELSE torn \cup {"rooms"}

\* Mutant: linked first, taken out after.
MoveSwapped(s, p) ==
    /\ room' = [room EXCEPT ![s] = None]
    /\ parked' = [q \in Places |-> IF q \in {p, room[s]} THEN parked[q] \ {s} ELSE parked[q]]

MoveToRoom(s, p) ==
    /\ room' = [room EXCEPT ![s] = p]
    /\ parked' = [q \in Places |->
                    IF q = p THEN parked[q] \cup {s}
                    ELSE IF q = room[s] THEN parked[q] \ {s} ELSE parked[q]]
FromRoom(s) ==
    /\ room' = [room EXCEPT ![s] = None]
    /\ parked' = [q \in Places |-> IF q = room[s] THEN parked[q] \ {s} ELSE parked[q]]

\* ship_to_starsystem, which does nothing without a system
ToSystem(s, y) ==
    /\ sys' = [sys EXCEPT ![s] = IF y = None THEN @ ELSE y]
    /\ flying' = [z \in Systems |-> IF z = y THEN flying[z] \cup {s} ELSE flying[z]]
    /\ torn' = IF None \in {sys[s], y} THEN torn ELSE torn \cup {"systems"}

FromSystem(s) ==
    /\ sys' = [sys EXCEPT ![s] = None]
    /\ flying' = [z \in Systems |-> IF z = sys[s] THEN flying[z] \ {s} ELSE flying[z]]

\* Mutant: the other end keeps its pointer.
UnmoorOneEnd(d) ==
    /\ link' = [link EXCEPT ![d] = None]
    /\ role' = [role EXCEPT ![d] = -1]

\* Both ends of a mooring are freed together.
Unmoor(d) ==
    /\ link' = [e \in Docks |-> IF e \in {d, link[d]} THEN None ELSE link[e]]
    /\ role' = [e \in Docks |-> IF e \in {d, link[d]} THEN -1 ELSE role[e]]

-----------------------------------------------------------------------------
(* purge_ship: the docks are freed, whatever is parked inside goes with the *)
(* ship, an old ship goes to the repository and the others are freed.       *)

Inside(s) == UNION {parked[h] : h \in {g \in Hangars : Bearer[g] = s}}
Closed(D) == \A s \in D : Inside(s) \subseteq D

Doomed(s) == {t \in Ships : \A D \in SUBSET Ships : s \in D /\ Closed(D) => t \in D}

\* The walk along the lists of the hangars finds those, or anybody.
Wrecks(s) == IF "rooms" \in torn THEN {D \in SUBSET Ships : s \in D} ELSE {Doomed(s)}

Ends(D) == {d \in Docks : DockOf[d] \in D \/ (link[d] # None /\ DockOf[link[d]] \in D)}
\* A ship that had moored to a destroyed one is made READY.
Released(s, D) == \E d \in DocksOf(s) \cap Ends(D) : role[d] = 0

Purge(D) ==
    LET freed == D \cap Indexed IN
    /\ state' = [s \in Ships |-> IF s \in freed THEN "FREED"
                                 ELSE IF s \in D THEN "REPOSITORY"
                                 ELSE IF Released(s, D) THEN "READY" ELSE state[s]]
    /\ link' = [d \in Docks |-> IF d \in Ends(D) THEN None ELSE link[d]]
    /\ role' = [d \in Docks |-> IF d \in Ends(D) THEN -1 ELSE role[d]]
    /\ room' = [s \in Ships |-> IF s \in D THEN None ELSE room[s]]
    /\ parked' = [p \in Places |-> {s \in parked[p] : s \notin D \/ room[s] # p}]
    /\ sys' = [s \in Ships |-> IF s \in D THEN None ELSE sys[s]]
    /\ flying' = [y \in Systems |-> {s \in flying[y] : s \notin D \/ sys[s] # y}]
    /\ at' = [s \in Ships |-> IF s \in freed THEN None
                              ELSE IF s \in D THEN Yard[s] ELSE at[s]]
    /\ lastdoc' = [s \in Ships |-> IF s \in freed THEN None
                                   ELSE IF s \in D THEN Yard[s] ELSE lastdoc[s]]
    /\ jump' = [s \in Ships |-> IF s \in D THEN None ELSE jump[s]]
    /\ track' = [s \in Ships |-> IF s \in D THEN None ELSE track[s]]

-----------------------------------------------------------------------------
(* A restart: prepare_ship. *)

Init ==
    /\ up = TRUE /\ turn = 0 /\ odd = 0
    /\ state = [s \in Ships |-> IF s \in Capital THEN "READY" ELSE "DOCKED"]
    /\ sys = [s \in Ships |-> IF s \in Capital THEN Home[s] ELSE None]
    /\ flying = [y \in Systems |-> {s \in Capital : Home[s] = y}]
    /\ lastdoc = Yard
    /\ at = [s \in Ships |-> IF s \in Capital THEN None ELSE Yard[s]]
    /\ room = at
    /\ torn = {}
    /\ parked = [p \in Places |-> {s \in Ships : room[s] = p}]
    /\ ion = [s \in Ships |-> 0]
    /\ timer = [s \in Ships |-> -1]
    /\ leg = [s \in Ships |-> 0]
    /\ jump = [s \in Ships |-> None]
    /\ auto = [s \in Ships |-> s \in Capital]
    /\ track = [s \in Ships |-> None]
    /\ dest = [s \in Ships |-> None]
    /\ link = [d \in Docks |-> None]
    /\ role = [d \in Docks |-> -1]
    /\ strayed = {}

-----------------------------------------------------------------------------
(* The pilots' commands. *)

Free == up /\ turn = 0
\* A mishap costs one of MaxOdd, a rare command two.
Costs(n) == /\ odd + n <= MaxOdd
            /\ odd' = odd + n
            /\ UNCHANGED <<up, turn>>
Odd == Costs(2)
Luck == Costs(1)

\* Mutant: a disabled ship in space launches.
LaunchAnywhere(s) ==
    /\ Free
    /\ ion[s] = 0
    /\ ~ auto[s]
    /\ state[s] \in {"DOCKED", "DISABLED"}
    /\ state' = [state EXCEPT ![s] = "LAUNCH"]
    /\ track' = [track EXCEPT ![s] = None]
    /\ UNCHANGED <<clock, place, ion, timer, leg, jump, auto, dest, mooring>>

Launch(s) ==
    /\ Free
    /\ ion[s] = 0
    /\ ~ auto[s]
    /\ lastdoc[s] = at[s] /\ at[s] # None
    /\ state[s] \in {"DOCKED", "DISABLED"}
    /\ state' = [state EXCEPT ![s] = "LAUNCH"]
    /\ track' = [track EXCEPT ![s] = None]
    /\ UNCHANGED <<clock, place, ion, timer, leg, jump, auto, dest, mooring>>

\* hijack on the pad looks neither at the ions nor at the autopilot
HijackPad(s) ==
    /\ Free /\ Odd
    /\ lastdoc[s] = at[s] /\ at[s] # None
    /\ state[s] = "DOCKED"
    /\ state' = [state EXCEPT ![s] = "LAUNCH"]
    /\ UNCHANGED <<place, inside, mooring>>

Below(s, p) == p \in Pads /\ Orbit[p] = sys[s]
Reachable(s) == {p \in Places : Below(s, p) \/ (p \in Hangars /\ Sees(s, Bearer[p]))}
Unreachable(s) == {p \in Places : ~ Below(s, p) /\ (p \in Hangars => Misses(s, Bearer[p]))}

Land(s, p) ==
    /\ Free
    /\ s \notin Capital
    /\ ion[s] = 0
    /\ state[s] = "READY"
    /\ sys[s] # None
    /\ p \in Reachable(s)
    /\ state' = [state EXCEPT ![s] = "LAND"]
    /\ dest' = [dest EXCEPT ![s] = p]
    /\ UNCHANGED <<clock, place, ion, timer, leg, jump, auto, track, mooring>>

\* do_dock: dock d of the ship to dock e of the target
Dock(s, d, e) ==
    /\ Free
    /\ ion[s] = 0
    /\ state[s] = "READY"
    /\ sys[s] # None
    /\ DockOf[d] = s /\ link[d] = None
    /\ Sees(s, DockOf[e]) /\ link[e] = None
    /\ state' = [state EXCEPT ![s] = "DOCKED2"]
    /\ auto' = [auto EXCEPT ![s] = FALSE]
    /\ dest' = [dest EXCEPT ![s] = <<d, e>>]
    /\ UNCHANGED <<clock, place, ion, timer, leg, jump, track, mooring>>

Undock(s, d) ==
    /\ Free
    /\ ion[s] = 0
    /\ ~ auto[s]
    /\ state[s] = "DOCKED2_FIN"
    /\ DockOf[d] = s /\ role[d] = 0
    /\ Unmoor(d)
    /\ state' = [state EXCEPT ![s] = "READY"]
    /\ track' = [track EXCEPT ![s] = None]
    /\ UNCHANGED <<clock, place, ion, timer, leg, jump, auto, dest>>

HijackFlight(s, d) ==
    /\ Free /\ Odd
    /\ lastdoc[s] # at[s]
    /\ sys[s] # None
    /\ ion[s] = 0
    /\ state[s] = "DOCKED2_FIN"
    /\ DockOf[d] = s /\ role[d] = 0
    /\ Unmoor(d)
    /\ state' = [state EXCEPT ![s] = "READY"]
    /\ UNCHANGED <<place, inside>>

Calculate(s, y) ==
    /\ Free
    /\ s \in Hyperdrive
    /\ InRealSpace(s)
    /\ \E j \in {y, None} : jump' = [jump EXCEPT ![s] = j]
    /\ UNCHANGED <<clock, moving, ion, timer, leg, auto, track, dest, mooring>>

\* The distance do_calculate found is counted from here on.
Hyperspace(s) ==
    /\ Free
    /\ s \in Hyperdrive
    /\ InRealSpace(s)
    /\ ~ Moored(s)
    /\ state[s] = "READY"
    /\ jump[s] # None
    /\ auto' = [auto EXCEPT ![s] = FALSE]
    /\ \/ /\ FromSystem(s)
          /\ state' = [state EXCEPT ![s] = "HYPERSPACE"]
          /\ \E n \in 1 .. MaxLegs : leg' = [leg EXCEPT ![s] = n]
       \/ UNCHANGED <<state, sys, flying, leg>>             \* the dice
    /\ UNCHANGED <<clock, at, lastdoc, room, parked, torn, ion, timer, jump, track, dest, mooring>>

\* trajectory: the ship turns
Turn(s) ==
    /\ Free
    /\ InRealSpace(s)
    /\ state[s] = "READY"
    /\ state' = [state EXCEPT ![s] = "BUSY"]
    /\ UNCHANGED <<clock, place, inside, mooring>>

Autopilot(s) ==
    /\ Free /\ Luck
    /\ ~ Gone(s)
    /\ auto' = [auto EXCEPT ![s] = ~ @]
    /\ UNCHANGED <<moving, ion, timer, leg, jump, track, dest, mooring>>

\* target, with autotrack on
Track(s, t) ==
    /\ Free /\ Odd
    /\ s \notin Capital
    /\ InRealSpace(s)
    /\ ~ auto[s]
    /\ Sees(s, t)
    /\ track' = [track EXCEPT ![s] = t]
    /\ UNCHANGED <<moving, ion, timer, leg, jump, auto, dest, mooring>>

\* repairship: nothing asks whether the drive is damaged.
RepairDrive(s) ==
    /\ Free /\ Odd
    /\ ~ Gone(s)
    /\ state' = [state EXCEPT ![s] = IF at[s] = lastdoc[s] THEN "DOCKED" ELSE "READY"]
    /\ UNCHANGED <<place, inside, mooring>>

RepairSystems(s) ==
    /\ Free /\ Odd
    /\ ~ Gone(s)
    /\ at[s] = lastdoc[s]
    /\ state' = [state EXCEPT ![s] = "DOCKED"]
    /\ ion' = [ion EXCEPT ![s] = 0]
    /\ UNCHANGED <<place, timer, leg, jump, auto, track, dest, mooring>>

\* tractorbeam: the ship s pulls t to its hangar h
Tractor(s, t, h) ==
    /\ Free /\ Odd
    /\ InRealSpace(s)
    /\ state[s] = "READY"
    /\ Bearer[h] = s
    /\ Sees(s, t)
    /\ state[t] # "LAND"
    /\ t \notin Capital
    /\ state' = [state EXCEPT ![t] = "LAND"]
    /\ dest' = [dest EXCEPT ![t] = h]
    /\ ion' = [ion EXCEPT ![t] = MaxIon]
    /\ UNCHANGED <<place, timer, leg, jump, auto, track, mooring>>

-----------------------------------------------------------------------------
(* What happens to a ship in space: damage_ship, damage_ship_energy,       *)
(* destroy_ship and the crash into a star of move_ships.                   *)

Hit(s) ==
    /\ Free /\ Odd
    /\ sys[s] # None
    /\ state[s] # "DISABLED"
    /\ state' = [state EXCEPT ![s] = "DISABLED"]
    /\ UNCHANGED <<place, inside, mooring>>

Ionise(s) ==
    /\ Free /\ Luck
    /\ sys[s] # None
    /\ ion' = [ion EXCEPT ![s] = MaxIon]
    /\ UNCHANGED <<moving, timer, leg, jump, auto, track, dest, mooring>>

SetOnFire(s) ==
    /\ Free /\ Luck
    /\ sys[s] # None
    /\ s \notin Fast
    /\ timer[s] = -1
    /\ \E n \in 0 .. MaxTimer : timer' = [timer EXCEPT ![s] = n]
    /\ state' = [state EXCEPT ![s] = "EXPLODE"]
    /\ UNCHANGED <<place, ion, leg, jump, auto, track, dest, mooring>>

\* A scout or a fighter shot down, or any ship that runs into a star.
BlowUp(s) ==
    /\ Free /\ Odd
    /\ sys[s] # None
    /\ \E D \in Wrecks(s) : Purge(D)
    /\ UNCHANGED <<torn, ion, timer, leg, auto, dest>>

-----------------------------------------------------------------------------
(* The administrators' commands: transship and resetship. *)

Transship(s, p) ==
    /\ Free /\ Odd
    /\ state[s] # "FREED"
    /\ p \in Hangars => Bearer[p] # s /\ ~ Gone(Bearer[p])
    /\ MoveToRoom(s, p)
    /\ at' = [at EXCEPT ![s] = p]
    /\ lastdoc' = [lastdoc EXCEPT ![s] = p]
    /\ state' = [state EXCEPT ![s] = "DOCKED"]
    /\ FromSystem(s)
    /\ UNCHANGED <<torn, inside, mooring>>

\* transship with a place that is not there or private: the ship, wherever it
\* is, is READY by then, one of the repository too.
TransshipNowhere(s) ==
    /\ Free /\ Odd
    /\ state[s] # "FREED"
    /\ state' = [state EXCEPT ![s] = "READY"]
    /\ strayed' = IF Gone(s) THEN strayed \cup {s} ELSE strayed
    /\ UNCHANGED <<place, inside, mooring>>

\* A capital ship goes to its yard and from there back to its system.
Resetship(s) ==
    /\ Free /\ Odd
    /\ state[s] # "FREED"
    /\ at' = [at EXCEPT ![s] = Yard[s]]
    /\ lastdoc' = [lastdoc EXCEPT ![s] = Yard[s]]
    /\ IF s \in Capital
       THEN \E y \in Systems :
                /\ FromRoom(s)
                /\ sys' = [sys EXCEPT ![s] = y]
                /\ flying' = [z \in Systems |->
                                IF z = y THEN flying[z] \cup {s}
                                ELSE IF z = sys[s] THEN flying[z] \ {s} ELSE flying[z]]
                /\ auto' = [auto EXCEPT ![s] = TRUE]
                /\ strayed' = strayed \cup {s}
       ELSE MoveToRoom(s, Yard[s]) /\ FromSystem(s) /\ UNCHANGED <<auto, strayed>>
    /\ state' = [t \in Ships |-> IF t = s THEN IF s \in Capital THEN "READY" ELSE "DOCKED"
                                 ELSE IF Released(t, {s}) THEN "READY" ELSE state[t]]
    /\ link' = [d \in Docks |-> IF d \in Ends({s}) THEN None ELSE link[d]]
    /\ role' = [d \in Docks |-> IF d \in Ends({s}) THEN -1 ELSE role[d]]
    /\ ion' = [ion EXCEPT ![s] = 0]
    /\ jump' = [jump EXCEPT ![s] = None]
    /\ track' = [track EXCEPT ![s] = None]
    /\ UNCHANGED <<torn, timer, leg, dest>>

-----------------------------------------------------------------------------
(* update_space.  The first loop: one ship after the other, what its state  *)
(* makes it do.                                                             *)

N == Len(Order)

StartPulse ==
    /\ Free
    /\ turn' = 1
    /\ UNCHANGED <<up, odd, moving, inside, mooring>>

FirstLoop(s) == up /\ turn \in 1 .. N /\ Order[turn] = s

\* Mutant: the timer of a ship that does not burn goes on.
CountedOn(s) ==
    /\ ion' = [ion EXCEPT ![s] = IF @ > 0 THEN @ - 1 ELSE @]
    /\ timer' = [timer EXCEPT ![s] = @ - 1]
    /\ auto' = [auto EXCEPT ![s] = @ /\ ion[s] = 0]

Counted(s) ==
    /\ ion' = [ion EXCEPT ![s] = IF @ > 0 THEN @ - 1 ELSE @]
    /\ timer' = [timer EXCEPT ![s] = IF @ > -1 THEN @ - 1 ELSE @]
    /\ auto' = [auto EXCEPT ![s] = @ /\ ion[s] = 0]

JumpNone(s) == IF ion[s] >= 0 THEN None ELSE jump[s]     \* mutant: off by one

JumpOf(s) == IF ion[s] > 0 THEN None ELSE jump[s]

\* A ship keeps its target while both are in one system.
Tracked(s) ==
    track' = [track EXCEPT ![s] =
                IF ion[s] > 0 \/ (@ # None /\ sys'[s] # sys'[@]) THEN None ELSE @]

FliesOn(s) == FirstLoop(s)     \* mutant: the fire is not looked at

\* What the first loop does to a ship that does not explode.
Flies(s) == FirstLoop(s) /\ timer[s] # 0
Upkeep(s) ==
    /\ Counted(s)
    /\ Tracked(s)
    /\ jump' = [jump EXCEPT ![s] = JumpOf(s)]
    /\ turn' = turn + 1
    /\ UNCHANGED <<up, odd, leg>>

PulseGone(s) ==
    /\ FirstLoop(s)
    /\ state[s] = "FREED"
    /\ turn' = turn + 1
    /\ UNCHANGED <<up, odd, moving, inside, mooring>>

\* The loop goes on with ship->next: after free_ship that is the end of the
\* free list, and the ships that follow are left out of this pulse.
PulseExplode(s) ==
    /\ FirstLoop(s)
    /\ state[s] # "FREED"
    /\ timer[s] = 0
    /\ \E D \in Wrecks(s) : Purge(D)
    /\ Counted(s)
    /\ turn' = IF s \in Indexed THEN N + 1 ELSE turn + 1
    /\ UNCHANGED <<up, odd, torn, leg, dest>>

\* A state that lasts, or the first half of a manoeuvre.
Lasting == {"DOCKED", "READY", "DISABLED", "EXPLODE", "DOCKED2_FIN", "REPOSITORY"}
Half == [LAND |-> "LAND_2", LAUNCH |-> "LAUNCH_2", DOCKED2 |-> "DOCKED2_2"]
PulseWait(s) ==
    /\ Flies(s)
    /\ state[s] \in Lasting \cup DOMAIN Half
    /\ state' = [state EXCEPT ![s] = IF @ \in DOMAIN Half THEN Half[@] ELSE @]
    /\ UNCHANGED <<place, dest, mooring>>
    /\ Upkeep(s)

PulseTurn(s) ==
    /\ Flies(s)
    /\ state[s] = "BUSY"
    /\ \E b \in {"BUSY", "READY"} : state' = [state EXCEPT ![s] = b]
    /\ UNCHANGED <<place, dest, mooring>>
    /\ Upkeep(s)

\* In hyperspace: the way left, then the arrival.
PulseJump(s) ==
    /\ Flies(s)
    /\ state[s] = "HYPERSPACE"
    /\ leg' = [leg EXCEPT ![s] = IF @ > 0 THEN @ - 1 ELSE @]
    /\ IF leg[s] > 1
       THEN /\ UNCHANGED <<state, sys, flying, torn>>
            /\ jump' = [jump EXCEPT ![s] = JumpOf(s)]
       ELSE /\ ToSystem(s, JumpOf(s))
            /\ state' = [state EXCEPT ![s] = IF sys'[s] = None THEN @ ELSE "READY"]
            /\ jump' = [jump EXCEPT ![s] = None]
    /\ Counted(s)
    /\ Tracked(s)
    /\ turn' = turn + 1
    /\ UNCHANGED <<up, odd, at, lastdoc, room, parked, dest, mooring>>

\* launchship
PulseLaunch(s) ==
    /\ Flies(s)
    /\ state[s] = "LAUNCH_2"
    /\ at[s] # None
    /\ ToSystem(s, SystemOf(at[s]))
    /\ IF sys'[s] = None
       THEN /\ state' = [state EXCEPT ![s] = "DOCKED"]
            /\ UNCHANGED <<at, room, parked>>
       ELSE /\ state' = [state EXCEPT ![s] = "READY"]
            /\ at' = [at EXCEPT ![s] = None]
            /\ FromRoom(s)
    /\ Upkeep(s)
    /\ UNCHANGED <<lastdoc, dest, mooring>>

\* Nobody reads the destination after the manoeuvre.
Reached(s) == dest' = [dest EXCEPT ![s] = None]

\* landship: the place is found or not, it has room or not.  A ship that does
\* not fit is in the list of the place already.
PulseAbort(s) ==
    /\ Flies(s)
    /\ state[s] = "LAND_2"
    /\ \/ dest[s] \in Unreachable(s) /\ UNCHANGED <<room, parked, torn>>
       \/ dest[s] \in Reachable(s) /\ ToRoom(s, dest[s])
    /\ state' = [state EXCEPT ![s] = "READY"]
    /\ UNCHANGED <<sys, flying, at, lastdoc, mooring>>
    /\ Reached(s)
    /\ Upkeep(s)

PulseLand(s) ==
    /\ Flies(s)
    /\ state[s] = "LAND_2"
    /\ dest[s] \in Reachable(s)
    /\ ToRoom(s, dest[s])
    /\ FromSystem(s)
    /\ at' = [at EXCEPT ![s] = dest[s]]
    /\ lastdoc' = [lastdoc EXCEPT ![s] = dest[s]]
    /\ state' = [state EXCEPT ![s] = "DOCKED"]
    /\ UNCHANGED mooring
    /\ Reached(s)
    /\ Upkeep(s)

\* dockship: both docks are looked at again.
PulseDock(s) ==
    /\ Flies(s)
    /\ state[s] = "DOCKED2_2"
    /\ UNCHANGED place
    /\ Reached(s)
    /\ LET d == dest[s][1]  e == dest[s][2] IN
        /\ Sees(s, DockOf[e])
        /\ IF link[d] = None /\ link[e] = None
           THEN /\ link' = [link EXCEPT ![d] = e, ![e] = d]
                /\ role' = [role EXCEPT ![d] = 0, ![e] = 1]
                /\ state' = [state EXCEPT ![s] = "DOCKED2_FIN"]
           ELSE /\ state' = [state EXCEPT ![s] = "READY"]
                /\ UNCHANGED mooring
    /\ Upkeep(s)

\* dockship when no ship of that name is in the system any more: get_shipdock
\* reads the docks of a null pointer.
PulseDockNobody(s) ==
    /\ Flies(s)
    /\ state[s] = "DOCKED2_2"
    /\ Misses(s, DockOf[dest[s][2]])
    /\ up' = FALSE
    /\ UNCHANGED <<turn, odd, moving, inside, mooring>>

\* The second loop: the autotrack turns the ship whatever it is doing, the
\* autopilot mends the drive in a fight and takes a ship that is in no
\* system to its home, at times.
SecondLoop(s) ==
    /\ up /\ turn \in N + 1 .. 2 * N /\ Order[turn - N] = s
    /\ turn' = IF turn = 2 * N THEN 0 ELSE turn + 1
    /\ UNCHANGED <<up, odd, at, lastdoc, room, parked, inside, mooring>>

Steer(s) ==
    /\ SecondLoop(s)
    /\ \/ UNCHANGED <<state, sys, flying, torn, strayed>>
       \/ /\ track[s] # None /\ state[s] # "FREED"
          /\ state' = [state EXCEPT ![s] = "BUSY"]
          /\ UNCHANGED <<sys, flying, torn, strayed>>
       \/ /\ auto[s] /\ sys[s] # None /\ state[s] = "DISABLED"
          /\ state' = [state EXCEPT ![s] = "READY"]
          /\ UNCHANGED <<sys, flying, torn, strayed>>
       \/ /\ auto[s] /\ sys[s] = None /\ ~ Gone(s)
          /\ \E y \in Systems : ToSystem(s, y)
          /\ strayed' = IF at[s] # None \/ state[s] = "HYPERSPACE"
                        THEN strayed \cup {s} ELSE strayed
          /\ UNCHANGED state

-----------------------------------------------------------------------------
\* UNLINK stops the server on purpose when a list has one end only, and a walk
\* over what is freed may.  Between two commands stands for anywhere: nothing
\* happens after it.
Unravel ==
    /\ Free /\ torn # {}
    /\ up' = FALSE
    /\ UNCHANGED <<turn, odd, moving, inside, mooring>>

\* The actions that leave strayed alone, and the three that do not.
Command(s) ==
    \/ Launch(s) \/ HijackPad(s) \/ Hyperspace(s) \/ Turn(s) \/ Autopilot(s)
    \/ RepairDrive(s) \/ RepairSystems(s)
    \/ \E p \in Places : Land(s, p) \/ Transship(s, p)
    \/ \E d \in Docks : Undock(s, d) \/ HijackFlight(s, d)
    \/ \E d, e \in Docks : Dock(s, d, e)
    \/ \E y \in Systems : Calculate(s, y)
    \/ \E t \in Ships : Track(s, t)
    \/ \E t \in Ships, h \in Hangars : Tractor(s, t, h)

Mishap(s) == Hit(s) \/ Ionise(s) \/ SetOnFire(s) \/ BlowUp(s)

PulseOf(s) ==
    \/ PulseGone(s) \/ PulseExplode(s) \/ PulseWait(s) \/ PulseTurn(s)
    \/ PulseJump(s) \/ PulseLaunch(s) \/ PulseAbort(s) \/ PulseLand(s)
    \/ PulseDock(s) \/ PulseDockNobody(s)

Pulse ==
    \/ StartPulse /\ UNCHANGED strayed
    \/ \E s \in Ships : PulseOf(s) /\ UNCHANGED strayed
    \/ \E s \in Ships : Steer(s)

Next ==
    \/ Pulse
    \/ \E s \in Ships : (Command(s) \/ Mishap(s)) /\ UNCHANGED strayed
    \/ \E s \in Ships : Resetship(s) \/ TransshipNowhere(s)
    \/ Unravel /\ UNCHANGED strayed

Spec == Init /\ [][Next]_vars

\* update_handler calls update_space at every PULSE_SPACE.
FairSpec == Spec /\ WF_vars(Pulse)

-----------------------------------------------------------------------------
(* The properties. *)

\* Every pointer of a ship and of a dock is null or of its kind, and the
\* counters of update_space stop at -1 and 0.
TypeOK ==
    /\ up \in BOOLEAN /\ turn \in 0 .. 2 * N /\ odd \in 0 .. MaxOdd
    /\ state \in [Ships -> ShipStates]
    /\ sys \in [Ships -> Systems \cup {None}]
    /\ flying \in [Systems -> SUBSET Ships]
    /\ at \in [Ships -> Places \cup {None}]
    /\ lastdoc \in [Ships -> Places \cup {None}]
    /\ room \in [Ships -> Places \cup {None}]
    /\ parked \in [Places -> SUBSET Ships]
    /\ ion \in [Ships -> 0 .. MaxIon]
    /\ timer \in [Ships -> -1 .. MaxTimer]
    /\ leg \in [Ships -> 0 .. MaxLegs]
    /\ jump \in [Ships -> Systems \cup {None}]
    /\ auto \in [Ships -> BOOLEAN]
    /\ track \in [Ships -> Ships \cup {None}]
    /\ dest \in [Ships -> Places \cup (Docks \X Docks) \cup {None}]
    /\ link \in [Docks -> Docks \cup {None}]
    /\ role \in [Docks -> {-1, 0, 1}]
    /\ torn \subseteq {"rooms", "systems"}
    /\ strayed \subseteq Ships

\* The ships the code promises something of: not those that strayed, and none
\* once a list of a system is torn, where anybody may be found.
Regulars == IF "systems" \in torn THEN {} ELSE Ships \ strayed

\* A mooring has two ends of two ships, one that came and one that was there,
\* and no end at a ship that is destroyed: undock, purge_ship and resetship
\* write through the pointer to the other end without looking.
DocksMutual ==
    \A d, e \in Docks : link[d] = e =>
        /\ link[e] = d
        /\ DockOf[d] # DockOf[e]
        /\ {role[d], role[e]} = {0, 1}
        /\ DockOf[d] \in Regulars => ~ Gone(DockOf[d])

\* A ship whose location is a place is in the list of that place: it is seen,
\* boarded and launched from there, and goes with the place when it explodes.
OnPadLinked ==
    \A s \in Regulars : at[s] # None /\ state[s] # "REPOSITORY" =>
        room[s] = at[s] /\ (s \in parked[at[s]] \/ "rooms" \in torn)

\* No ship is on the ground and in a system at once.
OnePlace == \A s \in Regulars : at[s] = None \/ sys[s] = None

\* A ship is in the list of the system it points to and in no other: a second
\* entry would stay there after the ship has gone or is freed.
ListedOnce ==
    \A s \in Regulars, y \in Systems : s \in flying[y] <=> sys[s] = y

\* A ship that explodes takes along whatever is in its hangars, and what is
\* in their hangars: found in the lists of the rooms, while they are whole.
NobodyInsideAWreck ==
    "rooms" \notin torn => \A s \in Regulars :
        at[s] \in Hangars /\ state[s] # "REPOSITORY" /\ Bearer[at[s]] \in Regulars =>
            ~ Gone(Bearer[at[s]])

\* Safety: where a ship says it is, the lists say it is, and that is one place
\* that is still there, however launches, landings, moorings, jumps, hits and
\* explosions follow one another (extract_ship, ship_to_room,
\* ship_to_starsystem, purge_ship and the commands): until the landing that
\* follows one called off links a ship a second time, from where on the lists
\* of the rooms promise nothing and the pointers still do.
FoundWhereItIs == OnPadLinked /\ OnePlace /\ ListedOnce /\ NobodyInsideAWreck

\* A launch begun ends from a place, a landing or a mooring begun ends in a
\* system: launchship, landship and dockship do not look whether the ship is
\* still where the command found it.
ManoeuvreHasPlace ==
    \A s \in Ships :
        /\ state[s] \in {"LAUNCH", "LAUNCH_2"} => at[s] # None
        /\ state[s] \in {"LAND", "LAND_2", "DOCKED2", "DOCKED2_2"} /\ s \in Regulars
               => sys[s] # None

\* A ship in hyperspace has somewhere to come out, and nothing clears its
\* course on the way: with none ship_to_starsystem leaves it there for good.
NeverLost ==
    \A s \in Ships : state[s] = "HYPERSPACE" /\ sys[s] = None =>
        jump[s] # None /\ ion[s] = 0

\* Safety: what the pulse will finish can be finished: it starts from where the
\* ship still is and ends somewhere (launchship, landship, dockship, the exit
\* of hyperspace in update_space).
UnderWayToSomewhere == ManoeuvreHasPlace /\ NeverLost

\* Liveness: a ship on fire explodes, though the pulse that frees another ship
\* stops short of it, and a jump comes to an end, whatever wears off meanwhile.
FireAndJumpEnd ==
    \A s \in Ships :
        /\ timer[s] >= 0 /\ ~ Gone(s) ~> Gone(s) \/ ~ up
        /\ state[s] = "HYPERSPACE" ~> state[s] # "HYPERSPACE" \/ ~ up
=============================================================================
