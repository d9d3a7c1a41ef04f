\* Three things at once of three kinds, two characters.
SPECIFICATION ThingsSpec
CONSTANTS
    bag = bag
    lamp = lamp
    sheet = sheet
    corpse = corpse
    scraps = scraps
    yard = yard
    tower = tower
    Objs = {o1, o2, o3}
    ann = ann
    bob = bob
    Chars = {ann, bob}
    Rooms = {yard, tower}
    Kinds = {bag, lamp, sheet, corpse, scraps}
    Null = Null
    Weight <- MCWeight
    Size <- MCSize
    Containers = {bag}
    Coverings = {sheet}
    Lamps = {lamp}
    Glowing = {}
    Forces = {lamp}
    InQuest = {sheet}
    Wearable = {lamp}
    Zapping = {lamp}
    Inventory = {lamp}
    Quarters = yard
    Corpse = corpse
    Scraps = scraps
    Below <- MCBelow
    CarryN = 2
    CarryW = 4
    MaxPieces = 4
SYMMETRY MCSymmetry
CHECK_DEADLOCK FALSE
INVARIANTS
    ThingsTypeOK
    SumsTrue
    NothingLost
