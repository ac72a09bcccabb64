CONSTANTS
  Tasks = {t1, t2}
  Refs = {r1}
  NoRef = NoRef
  Reapers = {p1, p2}
  Budget = 1
  ClientEvents = {"message"}
  MaxSpent = 2
  MaxLog = 6
SPECIFICATION Spec
SYMMETRY Symmetry
CHECK_DEADLOCK FALSE
INVARIANTS TypeOK OneOpenPerRef LogRebuildsTable
PROPERTIES LifecycleSpec
