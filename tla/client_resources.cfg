\* Two clients of one core; every driver command and every answer may fail.
CONSTANTS
  p1 = p1  p2 = p2  f1 = f1  f2 = f2  c1 = c1  c2 = c2  m1 = m1  m2 = m2
  i1 = i1  i2 = i2  pol1 = pol1  pol2 = pol2  None = None  Invalid = Invalid  NoEntry = NoEntry
  SwitchPort = {p1}
  MacPort = {p2}
  Flow = {f1, f2}
  Ch = {c1, c2}
  Mac = {m1, m2}
  Hw = {m1, m2, None}
  Ip = {i1, i2}
  ArpSize = 2
  TxChOf <- MCTxChOf
  RelFlows = 2
  NumRxFlow <- MCNumRxFlow
  Policers <- MCPolicers
  IpOf <- MCIpOf
  MayFail = {"ALLOC", "FREE", "REGISTER", "UNREGISTER", "SET_POLICER", "DEL_POLICER", "ANSWER", "RESTART", "RENUMBER"}
  MaxFault = 1
  MaxVisit = 3
SYMMETRY MCSymmetry
SPECIFICATION Spec
PROPERTIES ImplementsAddressMap
INVARIANTS ResourceInv FlowsKept SteeredToHolder GivenBack AnswersReachHolder
CHECK_DEADLOCK FALSE
