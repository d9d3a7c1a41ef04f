\* Three connections of two players, one an immortal who may go into the other,
\* the other one who may die for good; two mobs.
SPECIFICATION Spec
CONSTANTS
  Conns = {d1, d2, d3}
  Mobs = {m1, m2}
  Names = {ann, bob}
  NoName = NoName
  NoBody = NoBody
  NoConn = NoConn
  Greater = {bob}
  Suicides = {ann}
SYMMETRY Alike
INVARIANTS TypeOK OneOfEach LinksMutual
PROPERTY SamePlayer
