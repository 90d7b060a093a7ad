\* One timer per core; calls of the driver and of the IPC may fail.
CONSTANTS
  c1 = c1  c2 = c2  NoCore = NoCore  None = None
  Core = {c1, c2}
  Push = {1, 2}
  PushOf <- MCPushOf
  PushMax = 8
  MayFail = {"REGISTER", "UNREGISTER", "ROUTE", "LOOKUP", "SEND"}
SPECIFICATION Spec
INVARIANT TimersInv
PROPERTIES SentOnlyIfAsked PulseDelivered
