SPECIFICATION FairSpec
CONSTANTS
  m3 = m3
  c1 = c1
  c2 = c2
  r1 = r1
  None = None
  Tier <- MCTier
  TrackedIds = {m3}
  ResponseIds = {r1}
  Callis = {c1, c2}
  QueueSizes = {1, 2}
  AckMultiplier = 1
  ErrorMultiplier = 1
  A2Capacity = 1
  MaxSlots = 2
  SendTimeout = 1
  ResponseTTL = 1
  MaxSeq = 2
  MaxTime = 1
  MaxReplay = 1
  Disconnects = TRUE
INVARIANTS
  IInv
  NoStrandedItem
  SlotAccounting
  WaiterIffRetained
  DeadlineCovered
PROPERTIES
  StaleCompletionIgnored
  StrictPriority
  SendersPromise
  EverySenderAnswered
