CONSTANTS
  Servers = {s1}
  Replayers = {r1}
  MaxTasks = 2
  Page = 2
  MaxIterations = 2
  ToolBudget = 2
  Subagents = 1
  MaxCalls = 1
  MaxSlow = 0
  MaxCrashes = 1
  MaxRequeues = 0
  MaxReloads = 1
SPECIFICATION Spec
INVARIANTS ToolBudgetIsHard
