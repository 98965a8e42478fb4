CONSTANTS
  a = a  b = b  k1 = k1   f1 = f1  f2 = f2
  Producers = {a, b}
  Keys = {k1}
  KeyFor <- OneKey
  ContentFor <- TwoContents
  NoCall = NoCall
  PoolSize = 2
  MaxCalls <- TwoPushes
  MaxFaults = 1
  Poison = {b}
  MaxRelayFaults = 1
  Budget = 1
SPECIFICATION BudgetedSpec
INVARIANTS
  BilledOnce
PROPERTIES
  ImplementsOutbox
  EveryPushIsBilled
  GaugesSettle
