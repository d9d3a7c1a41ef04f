SPECIFICATION Spec
CONSTANTS
    Players = {ann}
    None = None
    Quests = {q1, q2}
    N = 5
    Kind <- MCKind
    Events <- MCEvents
    Then <- MCThen
    Cast = {1}
    Slain <- MCSlain
    Finds = {"find"}
    Visits = {"visit"}
    Home = "home"
    Away = "away"
SYMMETRY MCSymmetry
CHECK_DEADLOCK FALSE
INVARIANTS TypeOK QuestsHeld OverWhenPaid SomethingToDo
