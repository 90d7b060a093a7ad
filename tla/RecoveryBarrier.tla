--------------------------- MODULE RecoveryBarrier ---------------------------
(***************************************************************************)
(* What the recovery promises to the clients of the switch: a lock-up      *)
(* opens a round in which each of them stands back, the switch is reset    *)
(* only when all of them have, they are released one by one, nobody joins  *)
(* in a round, and it is over when nobody is held back any more.  A client *)
(* may leave at any time it is not held back, and take until the next      *)
(* round to come back.  One that is not told that it may come back, or is  *)
(* not heard when it stands back, is stranded, and with it the barrier:    *)
(* there is no other reset.                                                *)
(* Module Recovery implements it while clients join between recoveries.    *)
(***************************************************************************)
CONSTANT VirtPort          \* virtual ports of the remote cores

VARIABLES round,           \* RUN, or CLOSE before and RESET after the reset
          standing         \* of each port: OUT without a client, OPEN while
                           \* its client uses the switch, SHUT when it has
                           \* stood back, RELEASED when it may come back and
                           \* STRANDED when a message to or from it is lost

vars == <<round, standing>>

Init ==
  /\ round = "RUN"
  /\ standing = [p \in VirtPort |-> "OUT"]

Move(p, from, to) ==
  /\ standing[p] = from
  /\ standing' = [standing EXCEPT ![p] = to]
  /\ UNCHANGED round

Join(p) == round = "RUN" /\ Move(p, "OUT", "OPEN")
Leave(p) == Move(p, "OPEN", "OUT")
Shut(p) == round = "CLOSE" /\ Move(p, "OPEN", "SHUT")
Release(p) == round = "RESET" /\ Move(p, "SHUT", "RELEASED")
Strand(p) == round # "RUN" /\ Move(p, "SHUT", "STRANDED")
Reopen(p) == Move(p, "RELEASED", "OPEN")

LockUp ==
  /\ round = "RUN"
  /\ round' = "CLOSE"
  /\ UNCHANGED standing

(* Nobody uses the switch, and nobody is still coming back from the last   *)
(* reset.                                                                  *)
Reset ==
  /\ round = "CLOSE"
  /\ \A p \in VirtPort : standing[p] \in {"OUT", "SHUT"}
  /\ round' = "RESET"
  /\ UNCHANGED standing

Resume ==
  /\ round = "RESET"
  /\ \A p \in VirtPort : standing[p] # "SHUT"
  /\ round' = "RUN"
  /\ UNCHANGED standing

Next ==
  \/ LockUp \/ Reset \/ Resume
  \/ \E p \in VirtPort :
       \/ Join(p) \/ Leave(p) \/ Shut(p)
       \/ Release(p) \/ Strand(p) \/ Reopen(p)

Spec == Init /\ [][Next]_vars
=============================================================================
