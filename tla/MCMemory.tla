------------------------------ MODULE MCMemory ------------------------------
(* A few days and turns; one tool of the hub's own and one MCP tool; plain   *)
(* turns, a user's message that is blank, or opens as a tool's result, or   *)
(* holds a call and a result, a tool's result or a reply that holds a tool's*)
(* header, a separator in an argument.                                      *)
EXTENDS Memory
CONSTANTS own, mcp

MCBatches == {<<>>, <<own, own>>, <<mcp, own>>}

Plain  == [at |-> 0, opens |-> FALSE, headers |-> <<>>, torn |-> FALSE]
AsTool == << [role |-> "tool", names |-> <<own>>, bad |-> FALSE] >>
AsCall == << [role |-> "calls", names |-> <<own>>, bad |-> FALSE],
             [role |-> "tool", names |-> <<mcp>>, bad |-> FALSE] >>
Blank  == [Plain EXCEPT !.at = 1, !.opens = TRUE]

NoQuotes == {Plain}
MCQuotes ==
  {Plain, Blank, [Blank EXCEPT !.headers = AsTool], [Plain EXCEPT !.at = 1, !.headers = AsCall],
   [Plain EXCEPT !.at = 3, !.headers = AsTool], [Plain EXCEPT !.at = 5, !.opens = TRUE, !.headers = AsTool],
   [Plain EXCEPT !.torn = TRUE]}
=============================================================================
