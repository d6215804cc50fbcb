SPECIFICATION ExecSpec
CONSTANTS
  a1 = a1
  p1 = p1
  x = x
  Kind = "stateful_compatible"
  NoAttempt = NoAttempt
  Attempts = {a1}
  Projects = {p1}
  Foreign = {x}
  MaxEpoch = 3
  MaxTampers = 1
  MaxFaults = 2
  Bound = {a1}
  EarlierTrust = {0, 2}
  ProjectOf <- MCProjectOf
  KindOf <- MCKindOf
  SequenceOf <- MCSequenceOf
CHECK_DEADLOCK FALSE
INVARIANTS
  ExecutionSafety
PROPERTIES
  ExecutionSteps
