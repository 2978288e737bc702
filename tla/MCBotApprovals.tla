--------------------------- MODULE MCBotApprovals ---------------------------
(* Calls of one tool, routed to the bot or to another client, in a chat      *)
(* session and in a firing's.                                                *)
EXTENDS BotApprovals, TLC
CONSTANTS tool, chat, firing, telegram, web
Ask(s, c) == [tool |-> tool, session |-> s, client |-> c, listed |-> FALSE]
MCRequests == {Ask(chat, telegram), Ask(chat, web)}
MCSymmetry == Permutations(Calls)
MCPolicy == [p \in {tool} \X {telegram, web} |-> "ask"]
=============================================================================
