CONSTANTS
  TypeNames <- MCTypeNames
  Exponents <- MCExponents
  DefaultCurrency = "usd"
  NoCode = "none"
  MaxClockSkew = 0
  DefaultMaxClockSkew = 2
  Now = 10
  Micro = 1
  ColumnDigits = 15
  Pairs <- MCPairs
SPECIFICATION Spec
CHECK_DEADLOCK FALSE
INVARIANTS
  ReportsEveryProblem
  AcceptedPassesChecks
  ReadBackIsFaithful
  DivergentMeansDifferent
  EventAnnouncesRow
