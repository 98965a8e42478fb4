CONSTANTS
  Events = {1, 2}
  Relays = {r1, r2}
  Poison = {}
  BatchSize = 2
  MaxAttempts = 2
  BaseBackoff = 2
  MaxBackoff = 2
  ParkedBackoff = 3
  PollInterval = 1
  MaxPass = 1
  MaxDisruptions = 2
SYMMETRY Symmetric
SPECIFICATION Spec
INVARIANTS
  TypeOK
  ClaimsAreExclusive
  SettledWasDelivered
  DuplicatesBoundedByDisruptions
  ClaimsAreDue
PROPERTIES
  PublishedRowIsFinal
  FailureIsScheduledAhead
  ImplementsContract
