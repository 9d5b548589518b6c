\* Two request threads press the three buttons, from the day of the reset on.
SPECIFICATION Spec
CONSTANTS
  t1 = t1
  t2 = t2
  Threads = {t1, t2}
  Opened = 3
  MaxTime = 4
  MaxCalls = 4
  Values <- MCValues
  UIDs <- MCUIDs
  NoTime = NoTime
  NoUID = NoUID
  NoRow = NoRow
INVARIANTS NeverUngoverned ResetRepairs RecordsAgree
SYMMETRY ThreadSymmetry
CHECK_DEADLOCK FALSE
