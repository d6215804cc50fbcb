SPECIFICATION Spec
CONSTANTS
  a1 = a1
  a2 = a2
  p1 = p1
  x = x
  NoAttempt = NoAttempt
  Attempts = {a1, a2}
  Projects = {p1}
  Foreign = {x}
  MaxEpoch = 3
  MaxTampers = 1
  EarlierTrust = {0}
  ProjectOf <- MCProjectOf
  KindOf <- MCKindOf
  SequenceOf <- MCSequenceOf
CHECK_DEADLOCK FALSE
INVARIANTS
  FenceInv
  JournalMatchesApplication
PROPERTIES
  ForwardFrozen
  EpochsAscend
  ForeignFenceUntouched
