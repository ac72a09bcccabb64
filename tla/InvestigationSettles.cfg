CONSTANTS
  Servers = {s1}
  Replayers = {}
  MaxTasks = 2
  Page = 2
  MaxIterations = 2
  ToolBudget = 1
  Subagents = 0
  MaxCalls = 1
  MaxSlow = 1
  MaxCrashes = 1
  MaxRequeues = 0
  MaxReloads = 0
SPECIFICATION FairSpec
PROPERTIES RoutedTasksSettle
