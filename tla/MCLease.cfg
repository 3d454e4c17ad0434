SPECIFICATION LeaseSpec
CONSTANTS
  a = a
  b = b
  c = c
  Node = {a, b}
  Rank <- MCRank
  Active = {a}
  Slow = {a, b}
  Grace = 2
  ReadyTimeout = 2
  Holdoff = 2
  MaxStop = 1
  MaxBoot = 1
  MaxDeaths = 2
  MaxOutages = 2
  MaxLosses = 2
INVARIANTS LeaseTypeOK AnswersHold
PROPERTIES StartsClear
