\* One handle, a wait that times out or fails, a server that is late or silent.
CONSTANTS
  h1 = h1  h2 = h2  status = status  alloc = alloc  Idle = Idle
  Handle = {h1}
  Cmd = {status, alloc}
  MaxReq = 4
  MaxSess = 0
  MbxLen = 2
  Timeout = TRUE
  PendFails = TRUE
  MayLose = TRUE
SPECIFICATION Spec
INVARIANTS CmdInv
CHECK_DEADLOCK FALSE
