CONSTANTS
  Servers = {s1, s2}
  Replayers = {}
  MaxTasks = 1
  Page = 1
  MaxIterations = 2
  ToolBudget = 1
  Subagents = 0
  MaxCalls = 2
  MaxSlow = 1
  MaxCrashes = 0
  MaxRequeues = 1
  MaxReloads = 0
SPECIFICATION Spec
SYMMETRY Symmetry
INVARIANTS FindingsAreSound
PROPERTIES LifecycleSpec
