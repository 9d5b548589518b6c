\* Three deliveries, or two rows of a store with imports; two values, three instants.
SPECIFICATION LedgerSpec
CONSTANTS
  v30 = v30
  v90 = v90
  Values <- MCValues
  UIDs <- MCUIDs3
  MaxTime = 2
  NoTime = NoTime
  NoUID = NoUID
  NoRow = NoRow
  Recorders = {p1, p2}
  p1 = p1
  p2 = p2
  ImportUIDs <- MCUIDs2
  Lags <- MCLateOnly
  Room = 3
  ImportRoom = 2
INVARIANTS LedgerTypeOK InferredLineageResolves DisagreementIsNeverChosen
PROPERTIES NoHindsight LateReadingKeepsHead SupersessionIsPermanent
SYMMETRY Symmetry
CHECK_DEADLOCK FALSE
