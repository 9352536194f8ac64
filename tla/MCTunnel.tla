------------------------------ MODULE MCTunnel ------------------------------
(* Two local tunnels, or a local and a remote one, on one key; a local and *)
(* a dynamic one with traffic.                                             *)
EXTENDS Tunnel

CONSTANTS t1, t2, k1, k2, p1, none

TwoLocals  == [t \in Tunnels |-> "local"]
LocalRemote == [t \in Tunnels |-> IF t = t1 THEN "local" ELSE "remote"]
LocalDynamic == [t \in Tunnels |-> IF t = t1 THEN "local" ELSE "dynamic"]
SameKey    == [t \in Tunnels |-> k1]
OwnKeys    == [t \in Tunnels |-> IF t = t1 THEN k1 ELSE k2]
=============================================================================
