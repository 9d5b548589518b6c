\* Every pair of accepted records against thirty-two decisions of two conditions.
SPECIFICATION World
CONSTANTS
  retention = retention
  region = region
  days = days
  hours = hours
  long = long
  short = short
  odd = odd
  Conditions <- MCConditions
  Predicates <- MCPredicates
  Unsupported = Unsupported
  Values = {long, short, odd}
  NoValue = NoValue
  Units = {days, hours}
  NoUnit = NoUnit
  NoCurrent = NoCurrent
  Match <- MCMatch
  ImplicitUnit <- MCImplicitUnit
  Tried <- MCDecisions
INVARIANTS GateExact ContestedWins
