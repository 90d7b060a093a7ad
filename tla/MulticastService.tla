-------------------------- MODULE MulticastService --------------------------
(***************************************************************************)
(* What the multicast filter promises to the virtual ports of the remote   *)
(* cores, as the user guide states it: any port may subscribe to a shared  *)
(* address, an exclusive address belongs to at most one port at a time,    *)
(* and only its holder gives a subscription back.  Module Mcast, the       *)
(* tables and counters of ethfw_mcast.c, implements this specification.    *)
(***************************************************************************)
EXTENDS Naturals

CONSTANTS VirtPort,        \* virtual ports of the remote cores
          SharedMcast,     \* addresses of the shared multicast list
          ExclMcast        \* every other multicast address

VARIABLE granted           \* granted[p][m]: adds of m acknowledged to port p
                           \* and not yet given back

Mcast == SharedMcast \cup ExclMcast

Init == granted = [p \in VirtPort |-> [m \in Mcast |-> 0]]

(* An exclusive address is granted only while no other port holds it.      *)
Grant(p, m) ==
  /\ m \in ExclMcast => \A q \in VirtPort \ {p} : granted[q][m] = 0
  /\ granted' = [granted EXCEPT ![p][m] = @ + 1]

Release(p, m) ==
  /\ granted[p][m] > 0
  /\ granted' = [granted EXCEPT ![p][m] = @ - 1]

Next == \E p \in VirtPort, m \in Mcast : Grant(p, m) \/ Release(p, m)

Spec == Init /\ [][Next]_granted
=============================================================================
