SPECIFICATION Spec
CONSTANTS
  Levels <- MCLevels
  Base = "base"
  Parent <- MCParent
  Swapped = {"exec", "admin"}
  Inheriting = {"exec", "config", "config-if"}
  SkipCommon = {}
  Own <- MCOwn
  EnterCmd <- MCEnterCmd
  ExitCmd <- MCExitCmd
  Common <- MCCommon
  EndLevel = "exec"
  HasHash = {"exec", "admin"}
  Settable = {"base", "exec", "admin"}
  Bypass = {"admin"}
  Scripted <- MCScripted
  ReauthGracePeriod = 2
  AuthBypassTrustWindow = 3
  ElevationTimeout = 1
  MaxAttempts = 2
  Window = 1
  Lockout = 2
  MaxTime = 5
CHECK_DEADLOCK FALSE
INVARIANTS
  PositionAgrees
  NoUnearnedLevel
  AttemptsAreSlow
PROPERTY
  SwitchIsAudited
