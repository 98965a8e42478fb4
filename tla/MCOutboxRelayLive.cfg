CONSTANTS
  Events = {1, 2}
  Relays = {r1, r2}
  Poison = {1}
  BatchSize = 1
  MaxAttempts = 2
  BaseBackoff = 1
  MaxBackoff = 1
  ParkedBackoff = 4
  PollInterval = 1
  MaxPass = 1
  MaxDisruptions = 1
SPECIFICATION FairSpec
PROPERTIES
  HealthyEventsSettle
