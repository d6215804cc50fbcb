SPECIFICATION Spec
CONSTANTS
    Projects = {1, 2}
    Workers = {"vps", "spare"}
    PoolsOf <- TwoVps
    Policy <- ShardsAndSelfUpdate
    NodeOrder <- MCNodeOrder
    Timeout <- RetriedVerify
    LeaseTicks = 1
    Deliveries <- DeployAndShadow
    MaxGenerations <- RetriedVerify
    MaxOverdue = 0
CHECK_DEADLOCK FALSE
INVARIANTS
  SharingSafety
PROPERTIES
  TurnsAreShared
