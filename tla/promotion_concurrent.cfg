\* Three actors that may die, two conditions, one decision that rests on both.
SPECIFICATION Spec
CONSTANTS
  a1 = a1
  a2 = a2
  a3 = a3
  c1 = c1
  c2 = c2
  d1 = d1
  d2 = d2
  good = good
  bad = bad
  Actors = {a1, a2, a3}
  Conditions = {c1, c2}
  Decisions = {d2}
  ConditionsOf <- MCBothConditionsOf
  Predicates <- MCPredicates
  Unsupported = Unsupported
  Values = {good, bad}
  NoValue = NoValue
  Units = {}
  NoUnit = NoUnit
  NoCurrent = NoCurrent
  Plain <- MCPlain
  Dated = {c1}
  NoReference = NoReference
  NoStanding = NoStanding
  Match <- MCMatch
  ImplicitUnit <- MCImplicitUnit
  MaxRows = 1
  MaxRuns = 1
  MayCrash = TRUE
INVARIANTS TypeOK AllowsAreProven BackedReference
SYMMETRY ActorSymmetry
CHECK_DEADLOCK FALSE
