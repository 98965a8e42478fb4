CONSTANTS
  r1 = r1  r2 = r2  r4 = r4  r5 = r5  r6 = r6  p = p  e = e  x = x  u = u  kp = kp  ke = ke
  lane = lane  batch = batch  lane_label = lane_label  unknown_label = unknown_label
  old = old  new = new  f1 = f1  f2 = f2
  Requests = {r1, r2}
  Pushes = {p, e, x, u}
  Keys = {kp, ke}
  Sources = {lane, batch, Unknown}
  Unknown = Unknown
  Policies = {old}
  PushOf <- ETwice
  KeyOf <- MCKeyOf
  SourceOf <- MCSourceOf
  ContractSays <- MCContractSays
  Verdict <- Removed
  FirstPolicy = old
  Unreadable = {u}
  Rejected = Rejected
  LabelOf <- MCLabelOf
  NotUTF8 = NotUTF8
  LabelLimit = 2
  Other = Other
  NoRequest = NoRequest
  MaxFaults = 0
  MaxInFlight = 2
SPECIFICATION Spec
CHECK_DEADLOCK FALSE
INVARIANTS
  ReplayIsDuplicate
