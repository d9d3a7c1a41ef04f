SPECIFICATION Spec
CONSTANTS
  Players = {p1, p2, p3}
  Immortals = {}
  NoOne = NoOne
  Auctions = {a1}
  Amounts = {5, 10}
  Buyouts = {0, 10}
  Lots = {1}
  Purse = 15
  SortBets <- PassSort
  SortLoops <- PassLoops
PROPERTY
  WinnerPaysBet
CHECK_DEADLOCK FALSE
