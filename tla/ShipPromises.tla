---------------------------- MODULE ShipPromises ----------------------------
(***************************************************************************)
(* What the code itself says of moorings and landings.  update_space breaks *)
(* both promises with two ships and no administrator: see Ships for the    *)
(* actions.                                                                *)
(***************************************************************************)
EXTENDS Ships

\* "Sekwencja dokujaca przerwana.": dockship tests target != NULL and calls the
\* mooring off when the other ship has left; the server goes on.
LateDockCalledOff == up

\* "Statek wzbija sie do gory przerywajac ladowanie.": a ship whose landing was
\* called off flies, and stands in no room.
AbortedLandingFlies ==
    \A s \in Ships : at[s] = None /\ sys[s] # None => room[s] = None
=============================================================================
