SPECIFICATION FairSpec
CONSTANTS
  Sessions = {s, t}
  Users = {u}
  UserOf <- OneUser
  AnyID = AnyID
  Sighup = Sighup
  Privileged = {s}
  Ceilings = {1, 2}
  Kinds = {"Audit", "ListUsers", "Disconnect", "Reboot"}
  MaxEvents = 1
  MaxWrites = 0
CHECK_DEADLOCK FALSE
PROPERTIES
  StepsRunOut
  CallReturns
  ToldSessionEnds
  PlaceIsGivenUp
  ShutdownTellsAll
