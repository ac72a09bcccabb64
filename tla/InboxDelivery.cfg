SPECIFICATION FairSpec
CONSTANTS
  Driver = "postgres"
  Requests = {r1}
  Senders = {s1}
  Recipient = inbox
  Keys = {}
  NoKey = nokey
  Bodies = {b1}
  Replies = {0}
  Consumers = {c1, c2}
  Nobody = nobody
  Cap = 2
  Limit = 1
  Churn = FALSE
  MaxMsgs = 2
  MaxFaults = 1
CHECK_DEADLOCK FALSE
INVARIANTS DeliveredToOne
PROPERTIES OwnersAreRespected EveryMessageIsAcked
