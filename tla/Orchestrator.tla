---------------------------- MODULE Orchestrator ----------------------------
(* One orchestrated turn, gateway/orchestrator.py run_orchestrated_turn:    *)
(* the planner pass (gateway/planner.py), the executor pass, and recovery   *)
(* (gateway/trouble.py, gateway/recover.py), each pass a run of AgentLoop.  *)
EXTENDS AgentLoop

CONSTANTS
  Todo,               \* the todowrite call's signature
  PlannerBudget,      \* planner_max_iterations
  ExecutorBudget,     \* executor_max_iterations
  MaxRecovery,        \* recover.MAX_RECOVERY_ATTEMPTS
  ZeroProgress        \* trouble._DEFAULT_ZERO_PROGRESS_THRESHOLD

ASSUME OrchestratorAssumption ==
  /\ Todo \in Sigs
  /\ PlannerBudget \in Nat \ {0} /\ ExecutorBudget \in Nat \ {0}
  /\ MaxRecovery \in Nat /\ ZeroProgress \in Nat \ {0}

VARIABLES
  stage,      \* plan, nudge (the planner's second run), execute, recover, done
  attempt,    \* recovery actions so far
  replanned,
  plan,       \* the session's PlanStore entry: none, stale (an earlier turn's), fresh
  injected,   \* the plan the executor's system message was given
  reply,      \* the turn's reply: a text, an honest report, or nothing yet
  outcome     \* the status handed to the caller

recoveryVars == <<stage, attempt, replanned, plan, injected, reply, outcome>>
orchVars == <<loopVars, recoveryVars>>

Max2(m, n) == IF m > n THEN m ELSE n

OrchInit ==
  /\ InitLoop(PlannerBudget)
  /\ stage = "plan" /\ attempt = 0 /\ replanned = FALSE
  /\ plan \in {"none", "stale"} /\ injected = "none"
  /\ reply = "none" /\ outcome = "none"

(* A step of the pass that is running.  todowrite replaces the plan, with  *)
(* an empty one if the model sends no items.                               *)
PassStep ==
  /\ stage # "done"
  /\ LoopStep
  /\ plan' \in IF Todo \in succeeded' \ succeeded THEN {"fresh", "none"} ELSE {plan}
  /\ UNCHANGED <<stage, attempt, replanned, injected, reply, outcome>>

(* Mutants.  Each is the operator its name begins with, with a mistake a     *)
(* change to the code could make; no specification uses them.               *)
PassRaisedOnlyInExecutor ==   \* nobody handles the planner's exception
  /\ stage = "execute" /\ at = "ended" /\ status = "raised"
  /\ stage' = "done" /\ outcome' = "raised"
  /\ UNCHANGED <<loopVars, attempt, replanned, plan, injected, reply>>

(* An exception of any pass leaves the orchestrator. *)
PassRaised ==
  /\ stage # "done" /\ at = "ended" /\ status = "raised"
  /\ stage' = "done" /\ outcome' = "raised"
  /\ UNCHANGED <<loopVars, attempt, replanned, plan, injected, reply>>

PassEnded == at = "ended" /\ status # "raised"

(* _is_thinking_stall: no tool calls, no content, yet output was produced.  *)
(* A planner pass cut at its budget last emitted tool calls, and a failed   *)
(* dispatch leaves the response of the request before it.                   *)
MayBeThinkingStall == status = "ok" /\ text = "empty"

(* The planner pass ended without a plan after a stall: one nudge. *)
PlannerNudge ==
  /\ stage = "plan" /\ PassEnded
  /\ plan = "none" /\ MayBeThinkingStall
  /\ stage' = "nudge"
  /\ StartLoop(Max2(2, PlannerBudget))
  /\ UNCHANGED <<attempt, replanned, plan, injected, reply, outcome>>

(* The executor pass starts, with whatever plan the store holds. *)
PlannerDone ==
  /\ stage \in {"plan", "nudge"} /\ PassEnded
  /\ stage' = "execute"
  /\ injected' = plan
  /\ StartLoop(ExecutorBudget)
  /\ UNCHANGED <<attempt, replanned, plan, reply, outcome>>

(* trouble.detect_trouble of a finished pass, in its order of precedence. *)
Trouble(st, calls, txt) ==
  LET n == Len(calls)
      Failed(i) == ~calls[i].ok
  IN IF st = "ok" /\ n > 0 /\ txt = "empty" THEN "empty_after_tools"
     ELSE IF n >= 2 /\ calls[n].sig = calls[n-1].sig /\ Failed(n) THEN "identical_retry"
     ELSE IF n >= ZeroProgress /\ \A i \in 1..n: Failed(i) THEN "zero_progress"
     ELSE IF n > 0 /\ Failed(n) THEN "tool_error"
     ELSE IF st = "tool_loop_exhausted" THEN "budget_exhausted"
     ELSE "none"

(* recover.decide_recovery. *)
Recovery(trouble) ==
  IF trouble = "none" \/ attempt >= MaxRecovery THEN "stop"
  ELSE IF trouble \in {"zero_progress", "budget_exhausted"}
       THEN IF replanned THEN "stop" ELSE "replan"
       ELSE IF attempt = 0 THEN "nudge"
            ELSE IF replanned THEN "stop" ELSE "replan"

CurrentTrouble == Trouble(status, ResultCalls, AssistantText)
IsGap == AssistantText = "gap"     \* parse_gap finds the gap phrase

ExecutorEnded == stage \in {"execute", "recover"} /\ PassEnded

DeliverAtCap ==   \* at the recovery cap the reply stands as it is
  /\ ExecutorEnded
  /\ IsGap \/ CurrentTrouble = "none" \/ attempt >= MaxRecovery
  /\ stage' = "done"
  /\ outcome' = status
  /\ reply' = AssistantText
  /\ UNCHANGED <<loopVars, attempt, replanned, plan, injected>>

(* The reply stands: a capability gap, or no trouble. *)
Deliver ==
  /\ ExecutorEnded
  /\ IsGap \/ CurrentTrouble = "none"
  /\ stage' = "done"
  /\ outcome' = status
  /\ reply' = AssistantText
  /\ UNCHANGED <<loopVars, attempt, replanned, plan, injected>>

InTrouble == ExecutorEnded /\ ~IsGap /\ CurrentTrouble # "none"

(* The honest report replaces the reply, and the turn counts as ok. *)
HonestStop ==
  /\ InTrouble /\ Recovery(CurrentTrouble) = "stop"
  /\ stage' = "done"
  /\ outcome' = "ok" /\ reply' = "report"
  /\ UNCHANGED <<loopVars, attempt, replanned, plan, injected>>

Recover ==
  /\ InTrouble /\ Recovery(CurrentTrouble) \in {"nudge", "replan"}
  /\ stage' = "recover"
  /\ attempt' = attempt + 1
  /\ IF Recovery(CurrentTrouble) = "replan"
     THEN replanned' = TRUE /\ injected' = plan
     ELSE UNCHANGED <<replanned, injected>>
  /\ StartLoop(ExecutorBudget)
  /\ UNCHANGED <<plan, reply, outcome>>

OrchNext == \/ PassStep \/ PassRaised \/ PlannerNudge \/ PlannerDone
        \/ Deliver \/ HonestStop \/ Recover

(* The turn's task is always run on: a model request is answered or fails   *)
(* within the router's timeout, a tool returns or times out.                *)
OrchSpec == OrchInit /\ [][OrchNext]_orchVars /\ WF_orchVars(OrchNext)

-----------------------------------------------------------------------------
(* The types of the variables, the running pass's included. *)
OrchTypeOK ==
  /\ LoopTypeOK
  /\ stage \in {"plan", "nudge", "execute", "recover", "done"}
  /\ attempt \in Nat /\ replanned \in BOOLEAN
  /\ plan \in {"none", "stale", "fresh"} /\ injected \in {"none", "stale", "fresh"}
  /\ reply \in Texts \union {"none", "report"}
  /\ outcome \in Statuses \union {"none"}

(* A turn that says ok to its caller either really came out of a clean pass *)
(* or gap, or says honestly that it stopped: trouble is never delivered as  *)
(* an ordinary answer.                                                      *)
NoTroubleAsAnswer ==
  stage = "done" /\ outcome = "ok" =>
    \/ reply = "report"
    \/ reply = "gap"
    \/ reply \in {"answer", "empty"} /\ CurrentTrouble = "none"

(* The turn ends, whatever the model replies. *)
TurnEnds == <>(stage = "done")
=============================================================================
