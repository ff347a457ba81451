SPECIFICATION Spec
CONSTANTS
  Names = {"op", "admin", "nobody"}
  HostName = "admin"
  Passwords <- MCPasswords
  MinLength = 5
  Required = {"uppercase"}
  MaxPasswordLength = 6
  Secrets = {"s1", "s2"}
  NoSecret = NoSecret
  Files <- MCFiles
  Configs <- MCConfigs
  MaxAttempts = 2
  Window = 1
  Lockout = 1
  LoopBound = 3
  TOTPMaxAttempts = 2
  PasswordChangeMaxAttempts = 2
  MaxTime = 3
  MaxBoots = 2
CHECK_DEADLOCK FALSE
INVARIANT CodeAcceptedOnce
