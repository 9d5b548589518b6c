\* The loop, the approver and imports side by side where approval is required.
SPECIFICATION Spec
CONSTANTS
  a1 = a1
  a2 = a2
  p1 = p1
  v30 = v30
  v90 = v90
  wallet = wallet
  own = own
  Values <- MCValues
  UIDs <- MCUIDs2
  MaxTime = 1
  NoTime = NoTime
  NoUID = NoUID
  NoRow = NoRow
  Addresses = {wallet}
  NoAddress = NoAddress
  Names = {own}
  NoLineage = NoLineage
  Origin <- MCOrigin
  NoHistory = NoHistory
  NoApproval = NoApproval
  ObserversNeeded = 1
  HistoryNeeded = 1
  ProvenanceRequired = TRUE
  ApprovalRequired = TRUE
  MaxAge = 1
  Recheck = 1
  Imports = TRUE
  ImportUIDs <- MCUIDs2
  Room = 2
  ImportRoom = 2
  Recorders = {a1, a2, p1}
  Lags <- MCPunctual
  Actors = {a1, a2}
  Flows = {"loop", "approve"}
  StartHistory <- MCHistory
  NoReference = NoReference
  MaxRuns = 1
INVARIANTS AcceptedWasApproved
SYMMETRY Symmetry
CHECK_DEADLOCK FALSE
