\* Three tasks of two cores make two calls, each of which may lead to another; one message cannot be sent.
CONSTANTS
  t1 = t1  t2 = t2  t3 = t3  c1 = c1  c2 = c2
  Core = {c1, c2}
  Task = {t1, t2, t3}
  CoreOf <- MCCoreOf
  Service = {"stats", "relay"}
  Offers <- MCOffers
  Handlers = 1
  Relay <- MCRelay
  Room = 2
  MaxCall = 2
  MaxLost = 1
  Nothing = Nothing
SPECIFICATION FairSpec
INVARIANTS ServiceInv ToldTruth
PROPERTY CallsReturn
CHECK_DEADLOCK FALSE
