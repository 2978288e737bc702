---------------------------- MODULE MCMcpClient ----------------------------
(* One configured server, started with the gateway and restarted once: three *)
(* processes for the first client object, one for the second.                *)
EXTENDS McpClient

CONSTANTS boot, r1, c1, c2

MCMaxServers == [h \in Handlers |-> IF h = boot THEN 3 ELSE 1]
=============================================================================
