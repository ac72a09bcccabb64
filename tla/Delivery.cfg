SPECIFICATION DeliverySpec
CHECK_DEADLOCK FALSE
CONSTANTS
  Parts = {"hook", "stops", "wake", "endpoints", "bridge", "transport"}
  Hooks = {h1, h2}
  NoHook = nohook
  Letters = 4
  Late = {4}
  Held = {1}
  FetchLimit = 2
  ScanLimit = 3
  AckMemory = 2
  MaxContinue = 1
  Window = 3
  LockWait = 1
  HookClock = 3
  SlotNumbers = 5
  HookFaults = 1
  Callers = {c1}
  Endpoints = {e1, e2}
  Lasting = {e1}
  NoEndpoint = none
  Gens = 2
  Mails = 1
  Refused = {}
  PageSize = 1
  LogPage = 1
  LogBudget = 2
  MaxWakes = 1
  WakeWindow = 1
  Cooldown = 1
  WakeFaults = 1
  Parcels = 2
  SideParcels = {2}
  Banned = {}
  RowLimit = 1
  Rounds = 1
  WakeCap = 1
  Objs = 2
  BridgeEvents = 1
  Nudges = {"x"}
  Probes = 1
  Proxies = {"p", "q"}
  ListedOn = 1
  LoadedPages = 2
  WireFaults = 2
SYMMETRY Symmetry
INVARIANTS DeliveryTypeOK HookSafety WakeSafety TransportSafety
PROPERTIES BridgeSafety
