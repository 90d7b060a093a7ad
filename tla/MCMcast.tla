------------------------------- MODULE MCMcast -------------------------------
(***************************************************************************)
(* Instances of Mcast for TLC: a core with a switch port and a MAC port, a *)
(* second core with one port; fewer slots than exclusive addresses.        *)
(***************************************************************************)
EXTENDS Mcast, TLC

CONSTANTS p1, p2, p3,      \* virtual ports
          c1, c2,          \* cores
          s1, e1, e2, rsv  \* a shared, two exclusive, a reserved address

MCHostOf == [p \in VirtPort |-> IF p = p3 THEN c2 ELSE c1]
MCRsvdMcast == {<<rsv, 0>>}

(* RefCnt, says the user guide of EthFwMcast_printTable(), is the number   *)
(* of clients registered to a multicast address.                           *)
RefCntIsClients ==
  \A m \in SharedMcast :
    sharedRef[m] = Cardinality({p \in VirtPort : granted[p][m] > 0})
=============================================================================
