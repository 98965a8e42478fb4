CONSTANTS
  a = a  b = b  c1 = c1  k1 = k1   f1 = f1  f2 = f2
  Producers = {a, b, c1}
  Keys = {k1}
  KeyFor <- OneKey
  ContentFor <- TwoContents
  NoCall = NoCall
  PoolSize = 2
  MaxCalls <- MCMaxCalls
  MaxFaults = 2
SPECIFICATION FairSpec
INVARIANTS
  TypeOK
  RowIffEvent
  AnswersAgree
  ReadBackFindsRow
  NoCircularWait
PROPERTIES
  ImplementsContract
  EveryPushEnds
