\* Clients that come between the recoveries and go at any time, and messages
\* that are lost.
CONSTANTS
  p1 = p1  p2 = p2  p3 = p3  NoToken = NoToken  Free = Free
  Core = {1, 2}
  VirtPort = {p1, p2, p3}
  MaxObj = 2
  CoreOf <- MCCoreOf
  IpPort = {}
  Trigger = {"PORT", "HOST"}
  Overlap = {"LOST"}
  MaxLockup = 2
SPECIFICATION Spec
INVARIANTS CalmInv ResetAfterTeardown PairedNotifications
PROPERTIES RecoveryCompletes DmaReopened ImplementsBarrier
\* The monitor may wait for ever for a client that has left or missed a message.
CHECK_DEADLOCK FALSE
