SPECIFICATION Spec
CONSTANTS
  Players = {p1, p2}
  Mobs = {m1}
  Rooms = {r1, r2}
  None = None
  MaxFight = 8
  Stunners = {m1}
  Rescuers = {p1}
SYMMETRY Alike
INVARIANTS TypeOK FallenAreOut
PROPERTY RoundParts
CHECK_DEADLOCK FALSE
