SPECIFICATION MCSpec
CONSTANTS
  BaseMaxAge = 2
  Skew = 1
  JobMaxTime = 4
  JobMaxData = 2
  JobMaxFaults = 1
  DeployRequests = {q1, q2}
  Bundles = {0, 1, 2}
  Installed = 0
  NoBundle = 9
  NoRequest = nobody
  DdMaxFaults = 2
  Releases = {0, 1, 2}
  SourceSeq <- MCSourceSeq
  Services <- MCServices
  Databases <- MCDatabases
  NoRelease = 9
  MaxRecords = 1
  SuMaxFaults = 1
  NativeReleases = {n1, n2}
  RuntimeLibs = {lib}
  DependsOn <- MCDependsOn
  NoArtifact = none
  NatMaxFaults = 1
INVARIANTS
  DoneMeansDone
  AlwaysServed
  DocumentIsServed
  NeverReadsNewerState
  ServedIsWhole
PROPERTIES
  MigrationHasExactBackup
CHECK_DEADLOCK FALSE
