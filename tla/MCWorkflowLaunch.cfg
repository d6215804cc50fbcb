SPECIFICATION FairSpec
CONSTANTS
  verify = verify
  again = again
  native = native
  image = image
  NoJob = NoJob
  Jobs = {verify, again, native, image}
  Kind <- Adapters
  Node <- Nodes
  Prior <- Order
  Dispatched = {"ci", "native", "oci"}
  MaxRecords = 2
  MaxConcurrent = 1
  Slots = 2
  MaxFaults = 2
INVARIANTS SpawnedOnce CleanedIsStopped RunningJobOwnsState SuccessIsReal ClosedLeavesNothing
CHECK_DEADLOCK FALSE
PROPERTIES EveryLeaseSettles
