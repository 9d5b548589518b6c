\* Reviews with revalidation, one after the other, with three readings over three seconds.
SPECIFICATION Spec
CONSTANTS
  a1 = a1
  a2 = a2
  p1 = p1
  v30 = v30
  v90 = v90
  wallet = wallet
  own = own
  Values <- MCValues
  UIDs <- MCUIDs3
  MaxTime = 3
  NoTime = NoTime
  NoUID = NoUID
  NoRow = NoRow
  Addresses = {wallet}
  NoAddress = NoAddress
  Names = {own}
  NoLineage = NoLineage
  Origin <- MCOrigin
  NoHistory = NoHistory
  NoApproval = NoApproval
  ObserversNeeded = 1
  HistoryNeeded = 1
  ProvenanceRequired = TRUE
  ApprovalRequired = FALSE
  MaxAge = 2
  Recheck = 2
  Imports = FALSE
  ImportUIDs <- MCUIDs3
  Room = 3
  ImportRoom = 2
  Recorders = {a1, p1}
  Lags <- MCPunctual
  Actors = {a1}
  Flows = {"review"}
  StartHistory <- MCHistory
  NoReference = NoReference
  MaxRuns = 2
INVARIANTS TypeOK FreshIsFresh
PROPERTIES LedgerSpec
SYMMETRY ValueSymmetry
CHECK_DEADLOCK FALSE
