SPECIFICATION FairSpec
CONSTANTS
  a1 = a1
  p1 = p1
  x = x
  Kind = "stateful_compatible"
  NoAttempt = NoAttempt
  Attempts = {a1}
  Projects = {p1}
  Foreign = {x}
  MaxEpoch = 3
  MaxTampers = 0
  MaxFaults = 2
  Bound = {}
  EarlierTrust = {0, 2}
  ProjectOf <- MCProjectOf
  KindOf <- MCKindOf
  SequenceOf <- MCSequenceOf
CHECK_DEADLOCK FALSE
PROPERTIES
  ConvergesAndReturns
