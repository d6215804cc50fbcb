SPECIFICATION MCSpec
CONSTANTS
  root = root
  left = left
  right = right
  Commits = {root, left, right}
  NoCommit = NoCommit
  FirstHeads = {root}
  TicketPhases = {"deploying"}
  Before <- BrokerHistory
  PushIds = {p1, p2}
  DirectIds = {d1}
  Attempts = {a1}
  NoAttempt = NoAttempt
  Policies <- TwoPolicies
  MaxSequence = 2
  MaxEpoch = 2
  MaxInterference = 2
  MaxArrivals = 2
  PushHeads <- Announced
  DirectPushes <- Pushed
  Controls <- OwnerChoices
  MaxPendingWebhooks = 1
  Batch = 1
  Retention = 1
  LockReplaced = TRUE
  SourceProjects = {"p", "q"}
  CommitsOf <- MCCommitsOf
  ParentsOf <- MCParentsOf
  NoObject = "none"
  NoSourceProject = "nobody"
  RepoMaxFaults = 1
  Preps = {t1, t2}
  KeyOf <- MCKeyOf
  Crates = {crate}
  Layers = {layer}
  Budget = 2
  Capacity = 3
  WarmWindow = 1
  PinTime = 2
  PrepMaxTime = 3
  PrepMaxFaults = 1
  BuildLeases = {"b1", "b2"}
  NoBuild = "nobuild"
  HandoffMaxFaults = 3
CHECK_DEADLOCK FALSE
INVARIANTS
  RefFollowsLedger
  TicketIsCurrent
  OutboxOffersNewest
  WebhooksAreKept
  RefsAreWhole
  LeftoversAreExplained
  PinnedStaysWhole
  StoreIsSound
  ResultIsWhole
  NamedAfterItsArchive
PROPERTIES
  ImplementsSourceGate
