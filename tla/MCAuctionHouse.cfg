SPECIFICATION Spec
SYMMETRY Alike
CONSTANTS
  Players = {wizard, p1, p2, p3, p4}
  Immortals = {wizard}
  NoOne = NoOne
  Auctions = {a1}
  Amounts = {5, 10, 15, 20, 25}
  Buyouts = {0, 20}
  Lots = {1, 2}
  Purse = 20
  SortBets <- PassSort
  SortLoops <- PassLoops
INVARIANTS
  TypeOK
  FairBets
  StockFileCurrent
  Settleable
PROPERTIES
  WinnerStands
  DepositsKept
CHECK_DEADLOCK FALSE
