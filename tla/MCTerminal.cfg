\* Namesakes and stacks.
SPECIFICATION Spec
CONSTANTS
    ann = ann
    bob = bob
    Players = {ann, bob}
    Immortals = {bob}
    Auctions = {a1, a2}
    Things = {t1, t2}
    Names = {lamp, robe}
    None = None
    Stack = {1, 2}
    Lots = {1, 2}
SYMMETRY MCSymmetry
CHECK_DEADLOCK FALSE
INVARIANTS
    TypeOK
    ScreenFits
    HeldItem
