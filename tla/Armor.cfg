SPECIFICATION ArmorSpec
CONSTANTS
  Payloads = {p1, p2, big}
  Oversized = {big}
  MaxCount = 2
  MaxStaticKeys = 2
  MaxConnections = 2
  MaxSealed = 4
  MaxFaults = 1
INVARIANTS
  NonceOnce
  KeysAgree
PROPERTIES
  OrderedStream
  FaultIsFinal
CHECK_DEADLOCK FALSE
