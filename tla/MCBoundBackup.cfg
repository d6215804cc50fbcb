SPECIFICATION FairSpec
CONSTANTS
  a1 = a1
  p1 = p1
  x = x
  Kind = "backup_only"
  NoAttempt = NoAttempt
  Attempts = {a1}
  Projects = {p1}
  Foreign = {x}
  MaxEpoch = 3
  MaxTampers = 0
  MaxFaults = 1
  Bound = {a1}
  EarlierTrust = {0}
  ProjectOf <- MCProjectOf
  KindOf <- MCKindOf
  SequenceOf <- MCSequenceOf
CHECK_DEADLOCK FALSE
PROPERTIES
  Converges
