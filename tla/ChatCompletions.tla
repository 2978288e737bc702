-------------------------- MODULE ChatCompletions --------------------------
(* A chat request, chat.py chat_completions: with tools it is a turn of      *)
(* TurnDelivery, without them one dispatch of Router's, whose reply is sent  *)
(* in one piece or as a stream.  Both kinds share the request's variables:   *)
(* what the client got, the text, what memory was given.                     *)
(*                                                                           *)
(* The handler waits for the dispatch behind a shield for the same Timeout   *)
(* the router gives one candidate; its timer was armed first, so of the two  *)
(* it fires first, and the dispatch runs on with nobody to answer to.        *)
EXTENDS TurnDelivery, Router

CONSTANT MaxPieces   \* bound: chunks of a streamed reply

ASSUME ChatAssumption == MaxPieces \in Nat \ {0}

VARIABLES
  path,    \* how the request is handled: tools, plain, plain and streamed
  pieces   \* chunks of the stream sent so far

chatVars == <<loopVars, deliveryVars, routerVars, path, pieces>>

ChatInit ==
  /\ Init /\ InitRouter
  /\ path \in {"tools", "whole", "streamed"}
  /\ path # "tools" => lastTool = "none"
  /\ pieces = 0

ToolTurn == path = "tools" /\ Next /\ UNCHANGED <<routerVars, path, pieces>>

Plain == path # "tools" /\ up
SameTurn == UNCHANGED <<at, budget, iterations, queue, unanswered, succeeded, repeated, record,
                        effects, asks, worker, lastTool, late, finished, up, path>>

(* Mutants.  Each is the operator its name begins with, with a mistake a     *)
(* change to the code could make; no specification uses them.               *)
HandlerDueAfterChain ==   \* the handler waits long enough for every candidate
  http = "open" /\ clock > Candidates * Timeout

(* The timer of the handler's wait_for. *)
HandlerDue == http = "open" /\ clock >= Timeout

PlainRouterStep ==
  /\ Plain
  /\ Served \/ Refused \/ Unreachable \/ (~HandlerDue /\ Silent)
  /\ SameTurn /\ UNCHANGED <<text, status, http, memory, swallowed, pieces>>

Upstream ==
  /\ Plain
  /\ \E c \in Chain: CallEnds(c)
  /\ SameTurn /\ UNCHANGED <<text, status, http, memory, swallowed, pieces>>

(* Time does not pass a timer that is due. *)
Clock ==
  /\ Plain /\ ~HandlerDue /\ ~CallDue
  /\ clock < Candidates * Timeout
  /\ clock' = clock + 1
  /\ SameTurn
  /\ UNCHANGED <<trying, since, calls, failure, routed, text, status, http, memory,
                 swallowed, pieces>>

(* upstream_silent: the dispatch is not cancelled. *)
HandlerTimesOut ==
  /\ Plain /\ HandlerDue
  /\ http' = "error" /\ status' = "upstream_error"
  /\ SameTurn /\ UNCHANGED <<routerVars, text, memory, swallowed, pieces>>

Said(txt) == [calls |-> <<>>, text |-> txt]

(* The whole reply: remembered, if there is one and a message it answers,    *)
(* and then sent.                                                            *)
KeepWhole ==
  /\ Plain /\ path = "whole" /\ http = "open" /\ routed = "served"
  /\ http' = "kept" /\ status' = "ok"
  /\ text' \in Texts
  /\ IF asks /\ text' # "empty" THEN Remembers(Said(text')) ELSE UNCHANGED <<memory, swallowed>>
  /\ SameTurn /\ UNCHANGED <<routerVars, pieces>>

SendWhole == Plain /\ SendReply /\ UNCHANGED <<routerVars, path, pieces>>

AnswerError ==
  /\ Plain /\ http = "open" /\ routed \in {"refused", "no_backend"}
  /\ http' = "error" /\ status' = IF routed = "refused" THEN "upstream_error" ELSE "raised"
  /\ SameTurn /\ UNCHANGED <<routerVars, text, memory, swallowed, pieces>>

(* StreamingResponse over _sse_stream_with_memory. *)
StreamStarts ==
  /\ Plain /\ path = "streamed" /\ http = "open" /\ routed = "served"
  /\ http' = "streaming"
  /\ SameTurn /\ UNCHANGED <<routerVars, text, status, memory, swallowed, pieces>>

(* A chunk is sent on; one without text (a role, a finish reason) collects none. *)
StreamPiece ==
  /\ Plain /\ http = "streaming" /\ pieces < MaxPieces
  /\ pieces' = pieces + 1
  /\ text' \in {text, "answer"}
  /\ SameTurn /\ UNCHANGED <<routerVars, status, http, memory, swallowed>>

(* The upstream ends and [DONE] is sent; the generator goes on after it. *)
StreamDone ==
  /\ Plain /\ http = "streaming"
  /\ http' = "done sent"
  /\ SameTurn /\ UNCHANGED <<routerVars, text, status, memory, swallowed, pieces>>

(* What was collected is remembered, whether or not there was a message.     *)
StreamRemembered ==
  /\ Plain /\ http = "done sent"
  /\ http' = "reply" /\ status' = "ok"
  /\ IF text # "empty" THEN Remembers(Said(text)) ELSE UNCHANGED <<memory, swallowed>>
  /\ SameTurn /\ UNCHANGED <<routerVars, text, pieces>>

(* The upstream breaks off: [ERROR], and nothing is remembered. *)
StreamBreaks ==
  /\ Plain /\ http = "streaming"
  /\ http' = "error" /\ status' = "upstream_error"
  /\ SameTurn /\ UNCHANGED <<routerVars, text, memory, swallowed, pieces>>

(* The client leaves: the generator is not resumed, not even after [DONE]. *)
HangUp ==
  /\ Plain /\ http \in {"streaming", "done sent"}
  /\ http' = "gone"
  /\ SameTurn /\ UNCHANGED <<routerVars, text, status, memory, swallowed, pieces>>

PlainCrash == Plain /\ Crash /\ UNCHANGED <<routerVars, path, pieces>>

Answer == HandlerTimesOut \/ KeepWhole \/ SendWhole \/ AnswerError \/ StreamStarts
          \/ StreamRemembered
Stream == StreamPiece \/ StreamDone \/ StreamBreaks

ChatNext == \/ ToolTurn \/ PlainRouterStep \/ Upstream \/ Clock \/ Answer \/ Stream
            \/ HangUp \/ PlainCrash

(* Tasks that can run do, time passes, and a stream ends or breaks: the read *)
(* timeout of its connection sees to that.  A call need never end.           *)
ChatFairness ==
  /\ WF_chatVars(ToolTurn /\ LoopRuns) /\ WF_chatVars(ToolTurn /\ AnswerNow)
  /\ WF_chatVars(ToolTurn /\ FinishDetached)
  /\ WF_chatVars(PlainRouterStep) /\ WF_chatVars(Clock)
  /\ WF_chatVars(Answer) /\ WF_chatVars(Stream)

ChatSpec == ChatInit /\ [][ChatNext]_chatVars /\ ChatFairness

-----------------------------------------------------------------------------
(* The types of the variables a plain request adds or widens. *)
ChatTypeOK ==
  /\ LoopTypeOK /\ RouterTypeOK
  /\ http \in {"open", "placeholder", "kept", "reply", "error", "streaming", "done sent", "gone"}
  /\ path \in {"tools", "whole", "streamed"} /\ pieces \in 0..MaxPieces

(* router.py:7 the fallback is tried after a transport failure, a Timeout    *)
(* among them; but a plain client is answered by it only if the primary was  *)
(* refused a connection: after a silent primary the client has been told     *)
(* upstream_silent before the fallback can answer.                           *)
SilenceIsFinal ==
  path # "tools" /\ http \notin {"open", "error"} => failure # "silent"

(* chat.py:1382 the dispatch left behind by a client that was answered comes *)
(* to an end of its own: the chain is finite and every call of it is timed.  *)
DispatchEnds == path # "tools" ~> (routed # "pending" \/ ~up)
=============================================================================
