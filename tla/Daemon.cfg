SPECIFICATION Spec
CONSTANTS
  Sessions = {s, t}
  Users = {u}
  UserOf <- OneUser
  AnyID = AnyID
  Sighup = Sighup
  Privileged = {s}
  Ceilings = {1, 2}
  Kinds = {"Audit", "ListUsers", "Disconnect", "Reboot"}
  MaxEvents = 2
  MaxWrites = 1
CHECK_DEADLOCK FALSE
INVARIANTS
  SlotsExact
  DirectoryIsServed
  AnswerIsForCall
  OkMeansDone
  NothingStuck
  WaitsAreExact
PROPERTIES
  ToldOnce
  OlderOnlyIfOvertaken
