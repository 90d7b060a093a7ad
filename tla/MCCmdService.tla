---------------------------- MODULE MCCmdService ----------------------------
(***************************************************************************)
(* Instances of CmdService for TLC: a status command (heartbeat, teardown  *)
(* completion, ...) and an allocation, whose responses differ in length.   *)
(***************************************************************************)
EXTENDS CmdService, TLC

CONSTANTS h1, h2,          \* client handles
          status, alloc    \* commands
=============================================================================
