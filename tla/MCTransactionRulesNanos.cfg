CONSTANTS
  TypeNames <- MCTypeNames
  Exponents <- MCExponents
  DefaultCurrency = "usd"
  NoCode = "none"
  MaxClockSkew = 2
  DefaultMaxClockSkew = 2
  Now = 10
  Micro = 2
  ColumnDigits = 15
  Pairs <- Replays
SPECIFICATION Spec
CHECK_DEADLOCK FALSE
INVARIANTS
  ReadBackIsFaithful
