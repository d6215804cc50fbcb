SPECIFICATION Spec
CONSTANTS
    Projects = {1}
    Workers = {"vps", "executor", "accel"}
    PoolsOf <- WithAccelerator
    Policy <- ParallelProject
    NodeOrder <- MCNodeOrder
    Timeout <- RetriedVerify
    LeaseTicks = 1
    Deliveries <- Redelivered
    MaxGenerations <- RetriedVerify
    MaxOverdue = 0
CHECK_DEADLOCK FALSE
INVARIANTS
  SchedulerSafety
PROPERTIES
  SchedulerSteps
