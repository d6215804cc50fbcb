SPECIFICATION FairSpec
CONSTANTS
    Projects = {1}
    Workers = {"vps", "executor"}
    PoolsOf <- VpsAndExecutor
    Policy <- SerialProject
    NodeOrder <- MCNodeOrder
    Timeout <- LongShards
    LeaseTicks = 2
    Deliveries <- TwoHeads
    MaxGenerations <- RetriedShards
    MaxOverdue = 1
CHECK_DEADLOCK FALSE
PROPERTIES
  WorkEnds
