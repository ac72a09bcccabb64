SPECIFICATION ProgressSpec
CHECK_DEADLOCK FALSE
CONSTANTS
  Parts = {"wake", "bridge", "streams", "facts"}
  Callers = {c1}
  Endpoints = {e1}
  NoEndpoint = none
  Gens = 1
  Mails = 2
  Refused = {1}
  PageSize = 1
  LogPage = 1
  LogBudget = 2
  MaxWakes = 1
  WakeWindow = 1
  Cooldown = 1
  WakeFaults = 0
  Parcels = 2
  SideParcels = {}
  Banned = {1}
  RowLimit = 1
  Rounds = 2
  WakeCap = 1
  Objs = 1
  BridgeEvents = 1
  Streams = {s1}
  Agents = {a1}
  All = all
  Kinds = {"sse", "await"}
  StreamLimit = 1
  StreamIPLimit = 2
  Buffer = 1
  Traffic = TRUE
  Churn = FALSE
  Sources = {"k1"}
  Clients = {c1}
  Texts = {"t"}
  Fleeting = {"t"}
  Enrichers = {w1}
  Drainer = w1
  Revs = 2
  Typed = {FALSE}
  Overlap = FALSE
  RunAttempts = 2
  PipeFaults = 1
PROPERTIES MailIsNudged BridgeDelivers ReadersAreServed LiveFactsAreDerived
