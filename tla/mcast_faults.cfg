\* Every ALE command may fail and clients send stray deletes.
CONSTANTS
  p1 = p1  p2 = p2  p3 = p3  c1 = c1  c2 = c2
  s1 = s1  e1 = e1  e2 = e2  rsv = rsv  Free = Free
  VirtPort = {p1, p3}
  Core = {c1, c2}
  HostOf <- MCHostOf
  SharedMcast = {s1}
  ExclMcast = {e1, rsv}
  Vlan = {0, 1}
  RsvdMcast <- MCRsvdMcast
  ExclLen = 1
  MayFail = {"ADD_SHARED", "REMOVE_ADDR", "LOOKUP_MCAST", "ADD_EXCL", "SET_POLICER", "DEL_POLICER"}
  StrayDelete = TRUE
  MaxGrant = 2
SPECIFICATION Spec
INVARIANTS McastInv SharedInSync
PROPERTY RefinesService
