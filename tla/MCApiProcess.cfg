CONSTANTS
  r1 = r1  r2 = r2  p1 = p1
  Unset = Unset
  Junk = Junk
  Fallback <- TwoTicks
  FallbackTypes <- Toll
  FallbackCurrency <- Usd
  Currencies <- MCCurrencies
  DriverConns = 4
  Half = 8
  Probes = {p1}
  Names = {"database", "queue"}
  CheckTimeout = 1
  Requests = {r1, r2}
  Environments <- MCEnvironments
  NotLoaded = NotLoaded
SPECIFICATION FairSpec
INVARIANTS
  TypeOK
  StartsAsConfigured
  GraceIsHonoured
  ReadinessIsHonest
  ProbeIsBounded
PROPERTIES
  DrainEnds
