CONSTANTS
  Events = {1, 2}
  Relays = {r1}
  Poison = {1}
  BatchSize = 1
  MaxAttempts = 2
  BaseBackoff = 1
  MaxBackoff = 1
  ParkedBackoff = 3
  PollInterval = 1
  MaxPass = 1
  MaxDisruptions = 0
SPECIFICATION Spec
PROPERTIES
  FailureIsScheduledAhead
