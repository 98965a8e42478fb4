CONSTANTS
  r1 = r1  r2 = r2  r4 = r4  r5 = r5  r6 = r6  p = p  e = e  x = x  u = u  kp = kp  ke = ke
  lane = lane  batch = batch  lane_label = lane_label  unknown_label = unknown_label
  old = old  new = new  f1 = f1  f2 = f2
  Requests = {r1, r2, r4, r5, r6}
  Pushes = {p, e, x, u}
  Keys = {kp, ke}
  Sources = {lane, batch, Unknown}
  Unknown = Unknown
  Policies = {old, new}
  PushOf <- MCPushOf
  KeyOf <- MCKeyOf
  SourceOf <- MCSourceOf
  ContractSays <- MCContractSays
  Verdict <- Respelt
  FirstPolicy = old
  Unreadable = {u}
  Rejected = Rejected
  LabelOf <- MCLabelOf
  NotUTF8 = NotUTF8
  LabelLimit = 1
  Other = Other
  NoRequest = NoRequest
  MaxFaults = 1
  MaxInFlight = 3
SYMMETRY Symmetric
SPECIFICATION BoundedSpec
CHECK_DEADLOCK FALSE
INVARIANTS
  TypeOK
  StatusIsTrue
  DivergenceIsCounted
  AnswersAreServed
  ReplayIsDuplicate
  SeriesAreBounded
  OneSeriesPerSource
