SPECIFICATION Spec
CONSTANTS
  Cmd <- MCCmd
  Attr <- MCAttr
  NoCmd = NoCmd
  Begins <- MCBegins
  Runes <- MCRunes
  Unbounded = Unbounded
  Level = {"exec", "config", "if"}
  Base = "exec"
  Parent <- MCParent
  Deployments <- MCDeployments
  Disk <- MCDisk
  Accounts = {{}, {"admin"}}
  Lines <- MCLines
  Scripts <- MCScripts
  Control = {"^["}
  OpenQuote = {"'"}
  MaxFilterChainDepth = 1
  MaxAliases = 2
  MaxLocked = 1
CHECK_DEADLOCK FALSE
INVARIANTS
  GatesHold
  AliasNeverRedirects
  FeatureOffIsGone
  PromptsAreLimited
  TabKeepsMeaning
  SecretsStayUnnamed
