SPECIFICATION FairReload
CONSTANT MaxSchedules = 3
CHECK_DEADLOCK FALSE
INVARIANTS
  WithdrawnNeverFires
PROPERTIES
  ClearedIsObeyed
