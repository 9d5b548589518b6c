\* One actor that does not die: what promotions promise when nobody races.
SPECIFICATION Spec
CONSTANTS
  a1 = a1
  a2 = a2
  a3 = a3
  c1 = c1
  c2 = c2
  d1 = d1
  d2 = d2
  good = good
  bad = bad
  Actors = {a1}
  Conditions = {c1, c2}
  Decisions = {d1, d2}
  ConditionsOf <- MCConditionsOf
  Predicates <- MCPredicates
  Unsupported = Unsupported
  Values = {good, bad}
  NoValue = NoValue
  Units = {}
  NoUnit = NoUnit
  NoCurrent = NoCurrent
  Plain <- MCPlain
  Dated = {c1}
  NoReference = NoReference
  NoStanding = NoStanding
  Match <- MCMatch
  ImplicitUnit <- MCImplicitUnit
  MaxRows = 2
  MaxRuns = 3
  MayCrash = FALSE
INVARIANTS RestingStandingIsCurrent PromotedStandingIsJournaled
PROPERTIES ReferenceNeverMovesBack
CHECK_DEADLOCK FALSE
