SPECIFICATION MCSpec
CONSTANTS
  MaxPushes = 2
  MaxExpiries = 1
  DeliveryFaults = 2
  Notices = {1, 2, 3}
  Texts = {"a", "b"}
  OutboxLimit = 2
  NotifyMaxFaults = 2
CHECK_DEADLOCK FALSE
INVARIANTS
  DeliveredIsAdmitted
  OutboxIsHonest
PROPERTIES
  NewestHeadIsDelivered
  EveryNoticeSettles
