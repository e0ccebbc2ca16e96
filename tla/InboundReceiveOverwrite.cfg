SPECIFICATION FairSpec
CONSTANTS
  a = a
  c1 = c1
  c2 = c2
  None = None
  Ids = {a}
  Callis = {c1, c2}
  DedupeLimit = 1
  InboxCapacity = 1
  SameCallisReplay = TRUE
  MaxRequests = 2
PROPERTIES
  WaitersResolve
