\* Attaches, releases, failed attaches and lost messages at any point of a recovery.
CONSTANTS
  p1 = p1  p2 = p2  p3 = p3  NoToken = NoToken  Free = Free
  Core = {1, 2}
  VirtPort = {p1, p3}
  MaxObj = 2
  CoreOf <- MCCoreOf
  IpPort = {p1}
  Trigger = {"PORT"}
  Overlap = {"ATTACH", "ORPHAN", "LOST"}
  MaxLockup = 1
SPECIFICATION Spec
INVARIANTS StatusShowsLockup TableInv
PROPERTY ResetCompletes
\* The monitor may wait for ever once its count is stale.
CHECK_DEADLOCK FALSE
