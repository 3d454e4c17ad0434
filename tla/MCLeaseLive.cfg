SPECIFICATION FairLeaseSpec
CONSTANTS
  a = a
  b = b
  c = c
  Node = {a, b, c}
  Rank <- MCRank
  Active = {a}
  Slow = {}
  Grace = 1
  ReadyTimeout = 4
  Holdoff = 1
  MaxStop = 1
  MaxBoot = 1
  MaxDeaths = 1
  MaxOutages = 1
  MaxLosses = 0
PROPERTIES SeniorHolds
