SPECIFICATION FairSpec
CONSTANTS
  Sessions = {s, t}
  Users = {u}
  UserOf <- OneUser
  AnyID = AnyID
  Sighup = Sighup
  Privileged = {s}
  Ceilings = {2}
  Kinds = {"Reboot"}
  MaxEvents = 2
  MaxWrites = 0
CHECK_DEADLOCK FALSE
PROPERTIES RebootEndsAll
