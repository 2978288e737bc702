------------------------- MODULE MCChatCompletions -------------------------
(* A turn with two possible tool calls and a short budget; a plain request   *)
(* over a primary and its fallback, with the timer at two ticks.             *)
EXTENDS ChatCompletions
CONSTANTS read, write
=============================================================================
