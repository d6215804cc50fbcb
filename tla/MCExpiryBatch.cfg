SPECIFICATION FairSpec
CONSTANTS
    Projects = {1}
    Workers = {"vps", "executor"}
    PoolsOf <- VpsAndExecutor
    Policy <- ParallelProject
    NodeOrder <- MCNodeOrder
    Timeout <- LongShards
    LeaseTicks = 2
    Deliveries <- OneHead
    MaxGenerations <- RetriedShards
    MaxOverdue = 1
PROPERTIES
    LeasesEnd
CHECK_DEADLOCK FALSE
