-------------------------- MODULE MCSshConnection --------------------------
(* One connection opened by a client and one id for retry(), two hops.     *)
EXTENDS SshConnection

CONSTANTS c1, c2
=============================================================================
