----------------------------- MODULE MCApproval -----------------------------
(* A small gateway: one shell tool, one MCP tool, a chat session and a cron  *)
(* firing's session, two clients.                                           *)
EXTENDS Approval

CONSTANTS k1, k2, k3, shell, mcp, chat, firing, telegram, ide

MCTools    == {shell, mcp}
MCSessions == {chat, firing}
MCClients  == {telegram, ide}

Ask(t, s, c) == [tool |-> t, session |-> s, client |-> c, listed |-> FALSE]

MCRequests == {Ask(mcp, chat, telegram), Ask(mcp, firing, telegram), Ask(shell, chat, ide),
               [tool |-> mcp, session |-> chat, client |-> telegram, listed |-> TRUE]}

MCPolicy == [p \in MCTools \X MCClients |-> IF p = <<shell, ide>> THEN "auto" ELSE "ask"]
=============================================================================
