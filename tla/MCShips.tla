------------------------------ MODULE MCShips ------------------------------
(* A cruiser with a hangar and a mooring dock and a freighter with a dock.   *)
EXTENDS ShipPromises, TLC

CONSTANTS cruiser, freighter, near, far, pad, hangar, dc, df

MCOrder == <<cruiser, freighter>>
MCOrbit == (pad :> near)
MCBearer == (hangar :> cruiser)
MCDockOf == (dc :> cruiser) @@ (df :> freighter)
MCYard == (cruiser :> pad) @@ (freighter :> pad)
MCHome == (cruiser :> near)
=============================================================================
