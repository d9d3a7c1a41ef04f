\* Two players, one of them without an account at first.
SPECIFICATION Spec
CONSTANTS
    ann = ann
    bob = bob
    Players = {ann, bob}
    Members = {ann}
    None = None
    Gold = 2
    Cards <- MCCards
    Stakes = {1}
    MinCards = 1
    SavedAfter = {"put"}
    MaxFaults = 1
CHECK_DEADLOCK FALSE
INVARIANTS
    MoneyKept
    CardsKept
    GamesListed
