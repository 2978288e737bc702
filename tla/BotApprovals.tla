---------------------------- MODULE BotApprovals ----------------------------
(* The Telegram bot in front of the approval middleware: ApprovalPoller      *)
(* (telegram-bot approval.py), the prompt and the button handler (bot.py),   *)
(* and the two gateway calls they make (gateway_client.py), composed with    *)
(* the gateway's side, which is module Approval unchanged.  The only client  *)
(* that answers here is the bot, so Decide happens inside one of its taps.   *)
(*                                                                           *)
(* The poller is one task: a tick asks for the pending list, forgets the     *)
(* prompts that are over, and posts the new ones one after the other.  PTB   *)
(* handles up to four updates at a time, so taps run beside the poller and   *)
(* beside each other; each waits twice, for the gateway and for Telegram.    *)
(* The allowlist has one user.                                               *)
EXTENDS Approval, Sequences

CONSTANTS
  Bot,         \* the client tag of the bot
  MaxFaults,   \* bound: failed calls to the gateway or to Telegram, bot restarts
  MaxTaps,     \* bound: taps on a button
  MaxPrompts   \* bound: prompts in the chat

ASSUME BotAssumption ==
  Bot \in Clients /\ MaxFaults \in Nat /\ MaxTaps \in Nat /\ MaxPrompts \in Nat

VARIABLES
  surfaced,   \* ApprovalPoller._surfaced
  queue,      \* the entries of the current tick that still get a prompt
  prompts,    \* the prompts in the chat: whose call, and what each shows
  taps,       \* the button presses: where each is, and what it was told
  unsent,     \* calls with a prompt Telegram refused (history)
  lapses,     \* polls that failed and bot restarts so far (history)
  faults      \* faults so far

bot == <<surfaced, queue, prompts, taps, unsent, lapses, faults>>
allVars == <<vars, bot>>

BotInit ==
  /\ Init
  /\ surfaced = {} /\ queue = {} /\ prompts = <<>> /\ taps = <<>>
  /\ unsent = {} /\ lapses = 0 /\ faults = 0

Fails == faults < MaxFaults /\ faults' = faults + 1

(* What GET /v1/approvals/pending?client= lists. *)
Pending(c) == {k \in pending: request[k].client = c}

-----------------------------------------------------------------------------
(* The poller. *)

PollMarksAll ==   \* mutant: entries are marked when listed, not when posted
  /\ queue = {}
  /\ queue' = Pending(Bot) \ surfaced
  /\ surfaced' = Pending(Bot)
  /\ UNCHANGED <<vars, prompts, taps, unsent, lapses, faults>>

Poll ==
  /\ queue = {}
  /\ queue' = Pending(Bot) \ surfaced
  /\ surfaced' = surfaced \intersect Pending(Bot)
  /\ UNCHANGED <<vars, prompts, taps, unsent, lapses, faults>>

(* list_pending_approvals answers an empty list on any error. *)
PollFails ==
  /\ queue = {}
  /\ Fails
  /\ surfaced' = {}
  /\ lapses' = lapses + 1
  /\ UNCHANGED <<vars, queue, prompts, taps, unsent>>

PromptUnmarked(k) ==   \* mutant: the posted entry is not remembered
  /\ k \in queue
  /\ Len(prompts) < MaxPrompts
  /\ queue' = queue \ {k}
  /\ prompts' = Append(prompts, [call |-> k, shows |-> "buttons"])
  /\ UNCHANGED <<vars, surfaced, taps, unsent, lapses, faults>>

(* on_prompt swallows a refusal of Telegram, and the entry is marked anyway. *)
Prompt(k) ==
  /\ k \in queue
  /\ queue' = queue \ {k}
  /\ surfaced' = surfaced \union {k}
  /\ \/ /\ Len(prompts) < MaxPrompts
        /\ prompts' = Append(prompts, [call |-> k, shows |-> "buttons"])
        /\ UNCHANGED <<unsent, faults>>
     \/ /\ Fails
        /\ unsent' = unsent \union {k}
        /\ UNCHANGED prompts
  /\ UNCHANGED <<vars, taps, lapses>>

-----------------------------------------------------------------------------
(* A tap: _on_approval_callback. *)

Tap(p, d) ==
  /\ Len(taps) < MaxTaps
  /\ p \in DOMAIN prompts /\ prompts[p].shows = "buttons"
  /\ taps' = Append(taps, [prompt |-> p, decision |-> d, at |-> "asking", told |-> "nothing"])
  /\ UNCHANGED <<vars, surfaced, queue, prompts, unsent, lapses, faults>>

Told(i, answer) == taps' = [taps EXCEPT ![i].at = "told", ![i].told = answer]

(* The gateway resolves the approval; its answer reaches the bot or is lost. *)
TapDecides(i) ==
  /\ taps[i].at = "asking"
  /\ Decide(prompts[taps[i].prompt].call, Bot, taps[i].decision)
  /\ \/ Told(i, "resolved") /\ UNCHANGED faults
     \/ Told(i, "lost") /\ Fails
  /\ UNCHANGED <<surfaced, queue, prompts, unsent, lapses>>

TapTwiceIsOk(i) ==   \* mutant: "not found or already resolved" taken for success
  /\ taps[i].at = "asking"
  /\ prompts[taps[i].prompt].call \notin pending
  /\ Told(i, "resolved")
  /\ UNCHANGED <<vars, surfaced, queue, prompts, unsent, lapses, faults>>

(* 404: the approval is over, or of an earlier boot of the gateway. *)
TapTooLate(i) ==
  /\ taps[i].at = "asking"
  /\ prompts[taps[i].prompt].call \notin pending
  /\ Told(i, "refused")
  /\ UNCHANGED <<vars, surfaced, queue, prompts, unsent, lapses, faults>>

(* The request is lost before the gateway sees it. *)
TapLost(i) ==
  /\ taps[i].at = "asking"
  /\ Fails
  /\ Told(i, "lost")
  /\ UNCHANGED <<vars, surfaced, queue, prompts, unsent, lapses>>

Outcome(i) == IF taps[i].told = "resolved" THEN taps[i].decision ELSE "failed"

(* The edit that shows the outcome takes the buttons away, also on failure.  *)
Show(i) ==
  /\ taps[i].at = "told"
  /\ \/ prompts' = [prompts EXCEPT ![taps[i].prompt].shows = Outcome(i)] /\ UNCHANGED faults
     \/ Fails /\ UNCHANGED prompts
  /\ taps' = [taps EXCEPT ![i].at = "done"]
  /\ UNCHANGED <<vars, surfaced, queue, unsent, lapses>>

(* The bot process restarts: what it was doing is gone, the chat stays. *)
BotRestart ==
  /\ Fails
  /\ surfaced' = {} /\ queue' = {}
  /\ taps' = [i \in DOMAIN taps |-> [taps[i] EXCEPT !.at = "done"]]
  /\ lapses' = lapses + 1
  /\ UNCHANGED <<vars, prompts, unsent>>

-----------------------------------------------------------------------------
GatewayStep ==
  /\ \/ \E k \in Calls, r \in Requests: CheckImmediate(k, r) \/ CheckAsks(k, r)
     \/ \E k \in Calls: \/ Deadline(k) \/ Answered(k) \/ CancelFuture(k)
                        \/ TimedOut(k) \/ CancelTask(k)
     \/ Restart
  /\ UNCHANGED bot

BotStep ==
  \/ Poll \/ PollFails \/ BotRestart
  \/ \E k \in queue: Prompt(k)
  \/ \E p \in 1..MaxPrompts, d \in Decisions: Tap(p, d)
  \/ \E i \in DOMAIN taps: TapDecides(i) \/ TapTooLate(i) \/ TapLost(i) \/ Show(i)

BotSpec == BotInit /\ [][GatewayStep \/ BotStep]_allVars

-----------------------------------------------------------------------------
(* What a prompt says was decided is what the gateway took for that call     *)
(* from the bot, whichever of several taps, prompts or restarts came between *)
(* (bot.py _on_approval_callback; gateway_client.py decide_approval).        *)
ShownIsDecided ==
  \A p \in DOMAIN prompts: prompts[p].shows \in Decisions =>
    [call |-> prompts[p].call, client |-> Bot, decision |-> prompts[p].shows] \in answers

(* ApprovalPoller's doc: "re-polling a still-pending approval doesn't re-post *)
(* it".  It holds up to lapses: a second prompt of a call needs a poll that  *)
(* failed, which the poller cannot tell from an empty list, or a restart.    *)
RepeatsExplained ==
  \A k \in Calls: Cardinality({p \in DOMAIN prompts: prompts[p].call = k}) <= 1 + lapses

(* The user can answer what the poller has marked as asked: a call that is   *)
(* still pending has buttons in the chat or a tap under way, unless Telegram *)
(* refused the prompt or a tap was lost on its way to the gateway (those are *)
(* never asked again).  Only calls of this client are asked for.             *)
AskedIsAnswerable ==
  \A k \in surfaced \intersect pending:
    /\ request[k].client = Bot
    /\ \/ \E p \in DOMAIN prompts: prompts[p].call = k /\ prompts[p].shows = "buttons"
       \/ \E i \in DOMAIN taps: /\ prompts[taps[i].prompt].call = k
                                /\ taps[i].at = "asking" \/ taps[i].told = "lost"
       \/ k \in unsent
=============================================================================
