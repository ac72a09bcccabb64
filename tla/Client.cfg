SPECIFICATION ClientSpec
CHECK_DEADLOCK FALSE
CONSTANTS
  Parts = {"config", "capture", "scopes", "streams"}
  AgentClients = {"codex", "hermes", "opencode", "cline"}
  Servers = {"s", "t"}
  Binaries = {"b"}
  Capabilities = {"messaging", "wake"}
  Areas = {"global", "project"}
  Commands = 2
  Troubles = 1
  Hosts = {"claude", "cursor", "codex", "antigravity"}
  Copies = {c1, c2}
  HostEvents = 2
  KnownFacts = 3
  InjectedCap = 2
  TurnsCap = 1
  CaptureFaults = 1
  BadCredentials = {"claude"}
  ScopeEdits = 2
  MixedGroups = FALSE
  Streams = {s1, s2, s3}
  Agents = {a1}
  All = all
  Kinds = {"sse"}
  StreamLimit = 2
  StreamIPLimit = 2
  Buffer = 1
  Traffic = FALSE
  Churn = TRUE
INVARIANTS ClientTypeOK ConfigSafety CaptureSafety ScopeSafety StreamSafety
PROPERTIES UsersAreKept SteadyListenersSurvive
