SPECIFICATION Spec
CONSTANTS
  Driver = "sqlite"
  Requests = {r1, r2}
  Senders = {s1}
  Recipient = inbox
  Keys = {k1}
  NoKey = nokey
  Bodies = {b1, b2}
  Replies = {0}
  Consumers = {c1}
  Nobody = nobody
  Cap = 1
  Limit = 1
  Churn = TRUE
  MaxMsgs = 3
  MaxFaults = 0
SYMMETRY Symmetry
CHECK_DEADLOCK FALSE
INVARIANTS TypeOK UnreadCap AcceptedIsStored
