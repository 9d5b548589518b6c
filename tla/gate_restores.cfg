\* Does a revalidation leave a fresh reference?
SPECIFICATION Spec
CONSTANTS
  a1 = a1
  a2 = a2
  p1 = p1
  v30 = v30
  v90 = v90
  wallet = wallet
  own = own
  Values <- MCValues
  UIDs <- MCUIDs3
  MaxTime = 2
  NoTime = NoTime
  NoUID = NoUID
  NoRow = NoRow
  Addresses = {wallet}
  NoAddress = NoAddress
  Names = {own}
  NoLineage = NoLineage
  Origin <- MCOrigin
  NoHistory = NoHistory
  NoApproval = NoApproval
  ObserversNeeded = 1
  HistoryNeeded = 1
  ProvenanceRequired = TRUE
  ApprovalRequired = FALSE
  MaxAge = 1
  Recheck = 1
  Imports = FALSE
  ImportUIDs <- MCUIDs3
  Room = 3
  ImportRoom = 2
  Recorders = {a1, p1}
  Lags <- MCPunctual
  Actors = {a1}
  Flows = {"review"}
  StartHistory <- MCHistory
  NoReference = NoReference
  MaxRuns = 1
PROPERTIES RevalidationRestores
SYMMETRY ValueSymmetry
CHECK_DEADLOCK FALSE
