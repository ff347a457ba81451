SPECIFICATION FairSpec
CONSTANTS
  Callers = {a, b}
  Closers = {k, l}
  MaxCalls = 2
PROPERTIES
  FrozenAfterClose
  EveryCallReturns
  ImplementsStoreSpec
