\* Two processes act on a decision, issue waivers and move a remediation.
SPECIFICATION Spec
CONSTANTS
  p1 = p1
  p2 = p2
  d1 = d1
  d2 = d2
  k = k
  w = w
  r = r
  Procs = {p1, p2}
  Decisions = {d1}
  OtherDecision = d2
  Conditions = {k}
  Waivers = {w}
  Remediations = {r}
  AnyCondition = AnyCondition
  None = None
  MaxTime = 1
  MaxCalls = 3
INVARIANTS AllowedByWaiver JournalRetells
PROPERTIES PastStandingIsFixed
SYMMETRY ProcSymmetry
CHECK_DEADLOCK FALSE
