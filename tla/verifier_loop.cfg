\* Two processes run the loop for one wallet, spelled in two ways.
SPECIFICATION Spec
CONSTANTS
  p1 = p1
  p2 = p2
  lower = lower
  mixed = mixed
  Procs = {p1, p2}
  Names = {lower, mixed}
  DeliveredAs <- MCDeliveredAs
  MinHistory = 1
  MaxContradictions = 0
  MaxRuns = 5
  NoName = NoName
INVARIANTS TypeOK CountedWasReported TrustIsOnRecord NothingLostAlone
SYMMETRY ProcSymmetry
CHECK_DEADLOCK FALSE
