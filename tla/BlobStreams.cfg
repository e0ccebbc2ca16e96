SPECIFICATION Spec
CONSTANTS
  a = a
  c1 = c1
  c2 = c2
  Ids = {a}
  Callis = {c1, c2}
  Sends = {1, 2}
  Locals = {1}
  Cap <- MCCap
  Workloads <- MCWorkloads
SYMMETRY Symmetry
CHECK_DEADLOCK FALSE
INVARIANTS
  TrackerExact
  ReservationKept
PROPERTIES
  LossHasCause
  StreamReserved
