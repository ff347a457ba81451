SPECIFICATION Spec
CONSTANTS
  Sessions = {s1, s2}
  Names = {"admin", "other"}
  Passwords = {"changeme", "chosen"}
  Absent = Absent
  Factory <- MCFactory
  Configs = {0, 1}
  NoConfig = 0
  MaxCommands = 5
CHECK_DEADLOCK FALSE
INVARIANTS
  SomebodyAdministers
  FileIsWhole
  DivergeOnlyIfBroken
  FilesAreAsConfirmed
