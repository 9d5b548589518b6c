\* Two processes that may die share the decisions of one path.
SPECIFICATION Spec
CONSTANTS
  a1 = a1
  a2 = a2
  p = p
  Actors = {a1, a2}
  Decisions = {1, 2, 3}
  Introduces <- MCIntroduces
  Proposals = {p}
  Seeded = {2}
  DecisionOf <- MCDecisionOf
  r1 = r1
  r2 = r2
  r3 = r3
  RevisionIds <- MCRevisionIds
  RevisionsOf <- MCOwnRevisions
  NoDecision = NoDecision
  NoRevision = NoRevision
  NoTime = NoTime
  MaxTime = 2
  MaxCalls = 3
INVARIANTS TypeOK TodayAgrees LinksAreMutual
PROPERTIES CoverageNeverLost KnownThenStands RevisionPassesToSuccessor
SYMMETRY RevisionSymmetry
CHECK_DEADLOCK FALSE
