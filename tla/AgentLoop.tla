------------------------------ MODULE AgentLoop ------------------------------
(* One run of the tool-use loop, gateway/agent_loop.py run_agent_loop:      *)
(* dispatch to the model, execute the tool calls of its reply one after the *)
(* other, dispatch again, until it replies without tool calls, the brake    *)
(* stops it or the iteration budget is spent.                               *)
(*                                                                          *)
(* A tool call is its signature (call_signature: name and canonical         *)
(* arguments).  What execute_tool_call does with one is an outcome:         *)
(*   refused  the callable never ran: malformed, unknown or withheld tool,  *)
(*            or the approval decision was not to execute                   *)
(*   failed   the callable ran and returned an error or raised              *)
(*   ok       the callable ran and succeeded                                *)
EXTENDS Naturals, Sequences

CONSTANTS
  Sigs,         \* call signatures the model may emit
  LoopBrake,    \* the loop_brake argument
  MaxRepeated,  \* max_repeated_calls
  MaxBatch,     \* bound: tool calls in one reply
  EffectCap     \* bound: how far the effects of one signature are counted

ASSUME AgentLoopAssumption ==
  /\ LoopBrake \in BOOLEAN
  /\ MaxRepeated \in Nat \ {0}
  /\ MaxBatch \in Nat \ {0}
  /\ EffectCap \in Nat \ {0}

VARIABLES
  at,          \* where the loop is: dispatching, working through calls, ended
  budget,      \* max_iterations of this run
  iterations,  \* model requests of this run
  queue,       \* tool calls of the last reply not looked at yet
  unanswered,  \* tool calls in working_messages without a tool-role message
  succeeded,   \* keys of succeeded_calls
  repeated,    \* repeated_calls
  record,      \* tool_calls_for_memory
  text,        \* the content of the last reply
  status,      \* AgentLoopResult.status, or how run_agent_loop left
  effects      \* times each signature's callable succeeded (history)

loopVars == <<at, budget, iterations, queue, unanswered, succeeded, repeated,
              record, text, status, effects>>

Texts    == {"empty", "answer", "gap"}
Outcomes == {"refused", "failed", "ok"}
Statuses == {"ok", "tool_loop_repeated", "tool_loop_exhausted", "upstream_error", "raised"}

(* The non-empty tool-call lists a reply may carry. *)
Batches == UNION {[1..n -> Sigs] : n \in 1..MaxBatch}

InitLoop(n) ==
  /\ at = "dispatch" /\ budget = n /\ iterations = 0
  /\ queue = <<>> /\ unanswered = 0
  /\ succeeded = {} /\ repeated = 0 /\ record = <<>>
  /\ text = "empty" /\ status = "none"
  /\ effects = [s \in Sigs |-> 0]

(* A caller starts another run; the effects of the turn so far remain. *)
StartLoop(n) ==
  /\ at' = "dispatch" /\ budget' = n /\ iterations' = 0
  /\ queue' = <<>> /\ unanswered' = 0
  /\ succeeded' = {} /\ repeated' = 0 /\ record' = <<>>
  /\ text' = "empty" /\ status' = "none"
  /\ UNCHANGED effects

(* Mutants.  Each is the operator its name begins with, with a mistake a     *)
(* change to the code could make; no specification uses them.               *)
ResultCallsOnlyOk == IF status = "ok" THEN record ELSE <<>>   \* dropped when braked

(* tool_calls_for_memory of the result: the upstream_error result, unlike   *)
(* the other three, is built without it.                                    *)
ResultCalls == IF status \in {"upstream_error", "raised"} THEN <<>> ELSE record

(* assistant_text of the result: the exhausted and failed results have none. *)
AssistantText == IF status \in {"ok", "tool_loop_repeated"} THEN text ELSE "empty"

End(st) == at' = "ended" /\ status' = st

(* dispatch raises: UnknownAlias and NoBackendAvailable leave the loop,     *)
(* anything else becomes an upstream_error result.                          *)
DispatchFails ==
  /\ at = "dispatch"
  /\ iterations' = iterations + 1
  /\ \E st \in {"raised", "upstream_error"}: End(st)
  /\ UNCHANGED <<budget, queue, unanswered, succeeded, repeated, record, text, effects>>

(* A reply without tool calls is the natural stop. *)
FinalReply ==
  /\ at = "dispatch"
  /\ iterations' = iterations + 1
  /\ text' \in Texts
  /\ End("ok")
  /\ UNCHANGED <<budget, queue, unanswered, succeeded, repeated, record, effects>>

ReplyWithCalls ==
  /\ at = "dispatch"
  /\ iterations' = iterations + 1
  /\ text' \in Texts
  /\ \E batch \in Batches:
       /\ queue' = batch
       /\ unanswered' = unanswered + Len(batch)
  /\ at' = "calls"
  /\ UNCHANGED <<budget, succeeded, repeated, record, status, effects>>

SuppressCallSilently ==   \* no tool message for a suppressed call
  /\ at = "calls" /\ queue # <<>>
  /\ LoopBrake /\ Head(queue) \in succeeded
  /\ repeated' = repeated + 1
  /\ queue' = Tail(queue)
  /\ UNCHANGED <<at, budget, iterations, unanswered, succeeded, record, text, status, effects>>

(* The brake: a call that already succeeded is answered with a notice. *)
SuppressCall ==
  /\ at = "calls" /\ queue # <<>>
  /\ LoopBrake /\ Head(queue) \in succeeded
  /\ repeated' = repeated + 1
  /\ unanswered' = unanswered - 1
  /\ queue' = Tail(queue)
  /\ UNCHANGED <<at, budget, iterations, succeeded, record, text, status, effects>>

RunCallForgets(outcome) ==   \* failures are remembered instead of successes
  /\ at = "calls" /\ queue # <<>>
  /\ ~(LoopBrake /\ Head(queue) \in succeeded)
  /\ LET sig == Head(queue)
     IN /\ record' = Append(record, [sig |-> sig, ok |-> outcome = "ok"])
        /\ succeeded' = IF outcome = "ok" THEN succeeded ELSE succeeded \union {sig}
        /\ effects' = IF outcome = "ok" /\ effects[sig] < EffectCap
                      THEN [effects EXCEPT ![sig] = @ + 1] ELSE effects
  /\ unanswered' = unanswered - 1
  /\ queue' = Tail(queue)
  /\ UNCHANGED <<at, budget, iterations, repeated, text, status>>

(* execute_tool_call, its tool message and its record for memory. *)
RunCall(outcome) ==
  /\ at = "calls" /\ queue # <<>>
  /\ ~(LoopBrake /\ Head(queue) \in succeeded)
  /\ LET sig == Head(queue)
     IN /\ record' = Append(record, [sig |-> sig, ok |-> outcome = "ok"])
        /\ succeeded' = IF outcome = "ok" THEN succeeded \union {sig} ELSE succeeded
        /\ effects' = IF outcome = "ok" /\ effects[sig] < EffectCap
                      THEN [effects EXCEPT ![sig] = @ + 1] ELSE effects
  /\ unanswered' = unanswered - 1
  /\ queue' = Tail(queue)
  /\ UNCHANGED <<at, budget, iterations, repeated, text, status>>

(* After the calls of one reply: the brake's hard stop, the cap, or again. *)
EndBatch ==
  /\ at = "calls" /\ queue = <<>>
  /\ \/ LoopBrake /\ repeated >= MaxRepeated /\ End("tool_loop_repeated")
     \/ ~(LoopBrake /\ repeated >= MaxRepeated) /\ iterations = budget
          /\ End("tool_loop_exhausted")
     \/ ~(LoopBrake /\ repeated >= MaxRepeated) /\ iterations < budget
          /\ at' = "dispatch" /\ UNCHANGED status
  /\ UNCHANGED <<budget, iterations, queue, unanswered, succeeded, repeated,
                 record, text, effects>>

LoopStep == \/ DispatchFails \/ FinalReply \/ ReplyWithCalls \/ SuppressCall
            \/ \E o \in Outcomes: RunCall(o)
            \/ EndBatch

-----------------------------------------------------------------------------
(* The types of the loop's variables. *)
LoopTypeOK ==
  /\ at \in {"dispatch", "calls", "ended"}
  /\ budget \in Nat \ {0} /\ iterations \in 0..budget
  /\ queue \in Seq(Sigs) /\ unanswered \in Nat
  /\ succeeded \subseteq Sigs /\ repeated \in Nat
  /\ record \in Seq([sig: Sigs, ok: BOOLEAN])
  /\ text \in Texts /\ status \in Statuses \union {"none"}
  /\ effects \in [Sigs -> 0..EffectCap]

(* The model is never asked again while a tool call of an earlier reply has *)
(* no tool-role message: suppressed, refused and failed calls get one too,  *)
(* which the chat API requires of the next request.                         *)
EveryCallAnswered == at = "dispatch" => unanswered = 0

(* agent_loop.py:70 with the brake on, a call that already succeeded in this*)
(* run is not executed again, however often and in whatever reply the model *)
(* repeats it.                                                              *)
EffectOnce == LoopBrake => \A s \in Sigs: effects[s] <= 1
=============================================================================
