---------------------------- MODULE TurnDelivery ----------------------------
(* A chat turn with tools from request to delivery: chat.py _run_tool_loop  *)
(* around the tool-use loop, and detach.py.  The handler waits for the loop *)
(* behind a shield; when approval_detach_threshold_secs pass first it       *)
(* answers with a placeholder and a background worker awaits the same task, *)
(* emits the late event and appends the turn to memory.                     *)
(*                                                                          *)
(* Neither memory nor the event log may cost the user the answer: a failed  *)
(* append of either is logged and swallowed.                                *)
(*                                                                          *)
(* In wait_for(shield(task)) the timer can beat the callback of a task that *)
(* has already finished, so the handler may detach from a finished loop.    *)
EXTENDS AgentLoop, SequencesExt

CONSTANTS
  MaxIterations,  \* agent_loop._MAX_TOOL_CALL_ITERATIONS
  MemoryOn        \* memory is enabled: append_turn of a disabled one does nothing

ASSUME TurnAssumption == MaxIterations \in Nat \ {0} /\ MemoryOn \in BOOLEAN

VARIABLES
  asks,      \* the request has a user message to remember (_last_user_message)
  http,      \* what the client of the request got: open, placeholder, reply, error;
             \* kept: the handler is past memory (a stream's are ChatCompletions')
  worker,    \* finish_detached: none, waiting, told (past the late event), done
  lastTool,  \* the most recent tool-role message: a human's refusal or another
  late,      \* late events emitted, in order
  memory,    \* turns appended to the session's history
  swallowed, \* appends that failed and were only logged: memory, event (history)
  finished,  \* times turn_finished was recorded for this turn
  up         \* the gateway process is running

deliveryVars == <<asks, http, worker, lastTool, late, memory, swallowed, finished, up>>
vars == <<loopVars, deliveryVars>>

(* The history replayed into the request may itself end with a tool message. *)
Init ==
  /\ InitLoop(MaxIterations)
  /\ asks \in BOOLEAN
  /\ http = "open" /\ worker = "none" /\ swallowed = {}
  /\ lastTool \in {"none", "refused", "other"}
  /\ late = <<>> /\ memory = <<>> /\ finished = 0 /\ up = TRUE

(* A step of the loop's task.  A refusal by the user or an approval timeout *)
(* is recognised later by the text of its tool message; every other tool    *)
(* message, the brake's notice too, hides an earlier refusal.               *)
LoopRuns ==
  /\ up
  /\ LoopStep
  /\ lastTool' \in IF unanswered' < unanswered
                   THEN IF Len(record') > Len(record) /\ ~Last(record').ok
                        THEN {"refused", "other"} ELSE {"other"}
                   ELSE {lastTool}
  /\ UNCHANGED <<asks, http, worker, late, memory, swallowed, finished, up>>

Turn == [calls |-> ResultCalls, text |-> AssistantText]

(* memory.append_turn between try and except. *)
Remembers(turn) ==
  \/ /\ memory' = IF MemoryOn THEN Append(memory, turn) ELSE memory
     /\ UNCHANGED swallowed
  \/ /\ MemoryOn
     /\ swallowed' = swallowed \union {"memory"}
     /\ UNCHANGED memory

(* Mutants.  Each is the operator its name begins with, with a mistake a     *)
(* change to the code could make; no specification uses them.               *)
DetachAndWait ==   \* the worker starts, but the handler goes on waiting
  /\ up /\ http = "open" /\ worker = "none"
  /\ worker' = "waiting"
  /\ UNCHANGED <<loopVars, asks, http, lastTool, late, memory, swallowed, finished, up>>

Replies == {"ok", "tool_loop_repeated"}

(* run_with_detach returns a result with a reply to the handler: the turn is *)
(* appended to memory before the response exists.  The user notes appended   *)
(* to the reply are part of the text.                                        *)
KeepTurn ==
  /\ up /\ http = "open" /\ at = "ended" /\ status \in Replies
  /\ http' = "kept" /\ finished' = finished + 1
  /\ IF asks /\ AssistantText # "empty" THEN Remembers(Turn) ELSE UNCHANGED <<memory, swallowed>>
  /\ UNCHANGED <<loopVars, asks, worker, lastTool, late, up>>

SendReply ==
  /\ up /\ http = "kept"
  /\ http' = "reply"
  /\ UNCHANGED <<loopVars, asks, worker, lastTool, late, memory, swallowed, finished, up>>

(* A result without a reply; an exception (UnknownAlias, NoBackendAvailable) *)
(* is answered by its own except clause, before turn_finished is recorded.   *)
AnswerFailure ==
  /\ up /\ http = "open" /\ at = "ended" /\ status \notin Replies
  /\ http' = "error"
  /\ finished' = IF status = "raised" THEN finished ELSE finished + 1
  /\ UNCHANGED <<loopVars, asks, worker, lastTool, late, memory, swallowed, up>>

AnswerNow == KeepTurn \/ SendReply \/ AnswerFailure

(* The threshold passes: placeholder for the client, worker scheduled. *)
Detach ==
  /\ up /\ http = "open"
  /\ http' = "placeholder" /\ worker' = "waiting"
  /\ UNCHANGED <<loopVars, asks, lastTool, late, memory, swallowed, finished, up>>

(* finish_detached.  A result is a result whatever its status: only the     *)
(* last tool message decides the kind.                                      *)
LateKind == IF status = "raised" \/ lastTool = "refused"
            THEN "late_tool_rejected" ELSE "late_tool_result"

(* _emit_late_event; after an exception of the loop there is nothing else.   *)
EmitLate ==
  /\ up /\ worker = "waiting" /\ at = "ended"
  /\ worker' = IF status = "raised" THEN "done" ELSE "told"
  /\ \/ /\ late' = Append(late, [kind |-> LateKind, text |-> AssistantText])
        /\ UNCHANGED swallowed
     \/ /\ swallowed' = swallowed \union {"event"}
        /\ UNCHANGED late
  /\ UNCHANGED <<loopVars, asks, http, lastTool, memory, finished, up>>

KeepLate ==
  /\ up /\ worker = "told"
  /\ worker' = "done"
  /\ IF asks /\ AssistantText # "empty" /\ status = "ok" THEN Remembers(Turn)
     ELSE UNCHANGED <<memory, swallowed>>
  /\ UNCHANGED <<loopVars, asks, http, lastTool, late, finished, up>>

FinishDetached == EmitLate \/ KeepLate

(* The process stops; the loop's task and the worker go with it. *)
Crash ==
  /\ up
  /\ up' = FALSE
  /\ UNCHANGED <<loopVars, asks, http, worker, lastTool, late, memory, swallowed, finished>>

Next == LoopRuns \/ AnswerNow \/ Detach \/ FinishDetached \/ Crash

(* Tasks that can run do; neither the threshold nor a crash is obliged to. *)
Spec == Init /\ [][Next]_vars
             /\ WF_vars(LoopRuns) /\ WF_vars(AnswerNow) /\ WF_vars(FinishDetached)

-----------------------------------------------------------------------------
(* The types of the variables; memory holds whole turns, late whole events. *)
TypeOK ==
  /\ LoopTypeOK
  /\ asks \in BOOLEAN
  /\ http \in {"open", "placeholder", "kept", "reply", "error"}
  /\ worker \in {"none", "waiting", "told", "done"}
  /\ lastTool \in {"none", "refused", "other"}
  /\ late \in Seq([kind: {"late_tool_result", "late_tool_rejected"}, text: Texts])
  /\ memory \in Seq([calls: Seq([sig: Sigs, ok: BOOLEAN]), text: Texts])
  /\ swallowed \subseteq {"memory", "event"}
  /\ finished \in Nat /\ up \in BOOLEAN

Delivered == IF late # <<>> THEN "late"
             ELSE IF http \in {"reply", "error"} THEN "now" ELSE "none"

(* The turn implements ReplyOnce: never both an answer and a late event,    *)
(* never a late event without a placeholder, at most one of each, and       *)
(* always one of them (detach.py run_with_detach) unless the process dies,  *)
(* the client of a stream left it, or the one write of the late event failed*)
(* and was swallowed: detach.py:341 "it just means the user misses one late *)
(* notification".                                                           *)
Once == INSTANCE ReplyOnce WITH
          promised <- http = "placeholder", delivered <- Delivered,
          able <- up /\ http # "gone" /\ "event" \notin swallowed
DeliversOnce == Once!Spec

(* What the next turn will be told happened is what the user was told, once.*)
(* A remembered turn has the text of the answer and every tool call that ran*)
(* whatever became of the request: it was answered or is about to be, or a  *)
(* late event with the same text was emitted or failed to be.  And an ok    *)
(* reply that was delivered is remembered, if it has a text, the request    *)
(* a user's message and memory is on, except when the append itself failed  *)
(* (chat.py:1098, detach.py:273) or the worker, past its event, has not come*)
(* to it - or died there.                                                   *)
MemoryMatchesDelivery ==
  /\ Len(memory) <= 1
  /\ memory # <<>> =>
       /\ Last(memory).calls = record /\ Last(memory).text = AssistantText
       /\ \/ http \in {"kept", "reply"}
          \/ late # <<>> /\ Last(late).text = Last(memory).text
          \/ "event" \in swallowed
  /\ Delivered # "none" /\ status = "ok" /\ text # "empty" /\ asks /\ MemoryOn =>
       memory # <<>> \/ "memory" \in swallowed \/ worker = "told"

(* chat.py:876 "so the renderer's finish footer always lands": a turn that  *)
(* answered its request with a result recorded turn_finished exactly once    *)
(* (whether the turn log took the event is TurnStream's Written).            *)
FinishFooter ==
  http \in {"kept", "reply", "error"} /\ status # "raised" => finished = 1
=============================================================================
