\* Clients delete only what they hold; the ALE has room for every exclusive address.
CONSTANTS
  p1 = p1  p2 = p2  p3 = p3  c1 = c1  c2 = c2
  s1 = s1  e1 = e1  e2 = e2  rsv = rsv  Free = Free
  VirtPort = {p1, p2, p3}
  Core = {c1, c2}
  HostOf <- MCHostOf
  SharedMcast = {s1}
  ExclMcast = {e1, e2, rsv}
  Vlan = {0, 1}
  RsvdMcast <- MCRsvdMcast
  ExclLen = 2
  MayFail = {"ADD_SHARED", "REMOVE_ADDR", "DEL_POLICER"}
  StrayDelete = FALSE
  MaxGrant = 2
SPECIFICATION Spec
INVARIANTS GrantsServed SharedRefCounts FanoutSubscribed
