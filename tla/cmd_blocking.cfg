\* Two handles that wait for ever (cmdTimeoutInMsecs 0) for a server that answers.
CONSTANTS
  h1 = h1  h2 = h2  status = status  alloc = alloc  Idle = Idle
  Handle = {h1, h2}
  Cmd = {status, alloc}
  MaxReq = 2
  MaxSess = 1
  MbxLen = 2
  Timeout = FALSE
  PendFails = FALSE
  MayLose = FALSE
SPECIFICATION FairSpec
INVARIANTS OwnResponse QuietWhenIdle
PROPERTY CommandsReturn
CHECK_DEADLOCK FALSE
