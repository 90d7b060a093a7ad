--------------------------- MODULE MCRemoteService ---------------------------
(***************************************************************************)
(* An instance of RemoteService for TLC: two tasks on one core, one on     *)
(* another, and a service of the second core that runs one of the first.   *)
(***************************************************************************)
EXTENDS RemoteService

CONSTANTS t1, t2, t3, c1, c2

MCCoreOf == [t \in Task |-> IF t = t3 THEN c2 ELSE c1]
MCOffers == [c \in Core |-> IF c = c2 THEN {"relay"} ELSE {"stats"}]
MCRelay == [x \in Core \X Service |->
              IF x = <<c2, "relay">> THEN <<c1, "stats">> ELSE Nothing]
=============================================================================
