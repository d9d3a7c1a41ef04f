\* Two mobs, a thing and a room, two scripts of up to two lines.
SPECIFICATION Spec
CONSTANTS
    Mobs = {m1, m2}
    Players = {}
    Things = {orb}
    Rooms = {r1}
    Scripts = {s1, s2}
    None = None
    Freed = Freed
    MaxRun = 1
    MaxNest = 2
    MaxLines = 2
SYMMETRY MCSymmetry
CHECK_DEADLOCK FALSE
INVARIANTS ScriptsLive CountsTrue SupermobAway
