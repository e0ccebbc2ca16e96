SPECIFICATION FairSpec
CONSTANTS
  a = a
  c1 = c1
  c2 = c2
  None = None
  Ids = {a}
  Callis = {c1, c2}
  DedupeLimit = 1
  InboxCapacity = 1
  SameCallisReplay = FALSE
  MaxRequests = 3
INVARIANTS
  DeliveryHasOneOwner
  DuplicateJoinsPending
  AckMeansAccepted
  RedeliveryOnlyAfterLoss
PROPERTIES
  WaitersResolve
