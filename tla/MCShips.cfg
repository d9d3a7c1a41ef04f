\* One system; two mishaps, or one rarer command; the ship the pulse meets first
\* is freed when it explodes, and the one behind it burns and jumps.
SPECIFICATION FairSpec
CONSTANTS
    cruiser = cruiser
    freighter = freighter
    near = near
    far = far
    pad = pad
    hangar = hangar
    dc = dc
    df = df
    Ships = {cruiser, freighter}
    None = None
    Order <- MCOrder
    Systems = {near}
    Pads = {pad}
    Hangars = {hangar}
    Docks = {dc, df}
    Orbit <- MCOrbit
    Bearer <- MCBearer
    DockOf <- MCDockOf
    Yard <- MCYard
    Home <- MCHome
    Capital = {cruiser}
    Fast = {}
    Indexed = {cruiser}
    Hyperdrive = {freighter}
    MaxIon = 1
    MaxTimer = 1
    MaxLegs = 2
    MaxOdd = 2
CHECK_DEADLOCK FALSE
INVARIANTS
    DocksMutual
    FoundWhereItIs
    UnderWayToSomewhere
PROPERTY FireAndJumpEnd
