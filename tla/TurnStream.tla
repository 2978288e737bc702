----------------------------- MODULE TurnStream -----------------------------
(* Turn events from the gateway to a Telegram bubble: TurnLog.append and its *)
(* subscribers (gateway/turns.py), the SSE endpoint                          *)
(* /v1/sessions/{id}/turns/stream (gateway/events_endpoint.py), the bot's    *)
(* TurnStreamMultiplexer (turn_stream.py) and TurnRenderer                   *)
(* (turn_renderer.py).                                                       *)
(*                                                                           *)
(* append writes the line and, only when the write succeeded, hands the      *)
(* entry to every subscriber while it holds the lock, so every stream queue  *)
(* holds the events of the log in log order from the moment its connection   *)
(* subscribed: a queue is the rest of the log from a position `next`.  The   *)
(* bot connects without `since`, so nothing older is replayed.  One task per *)
(* session reads its stream and finishes handling an event, Telegram calls   *)
(* included, before it takes the next one: a delivery is one step.           *)
(*                                                                           *)
(* A bubble's text has the plan checklist, then a row for each tool call;    *)
(* nothing adds the reply to it.  Telegram gets the last 4000 characters of  *)
(* it, so the checklist and the first rows of a long turn go: `cut` is how   *)
(* many rows, a row that is shown in part counting as gone.  The characters, *)
(* the checklist and the events that render nothing are left out.            *)
EXTENDS Naturals, Sequences, SequencesExt

CONSTANTS
  Turns,
  Sessions,
  CallIds,
  Asks,          \* [Turns -> Seq(CallIds)]: the ids the model gives a turn's calls
  Followed,      \* the sessions the user of the bot writes to
  Homes,         \* the assignments of turns to sessions considered
  Planned,       \* the turns the orchestrator plans; the others run the flat loop
  FitRows,       \* rows that fit a message, however long each of them is
  MaxLag,        \* bound: events an open stream may be behind when a turn emits
  MaxFaults      \* bound: failed writes, Telegram calls and connections, drops
                 \*   of a connection, restarts of either process

ASSUME TurnStreamAssumption ==
  /\ Followed \subseteq Sessions
  /\ Homes \subseteq [Turns -> Sessions]
  /\ Asks \in [Turns -> Seq(CallIds)]
  /\ Planned \subseteq Turns
  /\ FitRows \in Nat
  /\ MaxLag \in Nat
  /\ MaxFaults \in Nat

VARIABLES
  stage,        \* where each turn is in the gateway
  home,         \* the session of each turn
  made,         \* tool calls each turn has begun
  log,          \* the turn events written, oldest first
  stream,       \* the bot's task of each session: what it does, the next event
  renderers,    \* each session's _SessionSubscriber.renderers, by turn
  bubbles,      \* the progress messages in Telegram, oldest first
  footers,      \* "Finished" messages posted for each turn
  subscribers,  \* length of TurnLog._subscribers
  faults        \* faults so far

gateway == <<stage, home, made, log>>
telegram == <<renderers, bubbles, footers>>
vars == <<stage, home, made, log, stream, renderers, bubbles, footers, subscribers, faults>>

Fails(n) == faults' = faults + n /\ faults + n <= MaxFaults

Without(state) == [state |-> state, next |-> 1]   \* a task that has no connection
Nobody == [t \in {} |-> 0]   \* a renderer table with no renderer
With(table, t, r) == [u \in DOMAIN table \union {t} |-> IF u = t THEN r ELSE table[u]]

Init ==
  /\ stage = [t \in Turns |-> "idle"]
  /\ home \in Homes
  /\ made = [t \in Turns |-> 0]
  /\ log = <<>>
  /\ stream = [s \in Sessions |-> Without("none")]
  /\ renderers = [s \in Sessions |-> Nobody]
  /\ bubbles = <<>>
  /\ footers = [t \in Turns |-> 0]
  /\ subscribers = 0
  /\ faults = 0

-----------------------------------------------------------------------------
(* The gateway's side: what a turn emits. *)

(* TurnLog.append: an OSError is swallowed, and then nobody is told. *)
Written(t, kind, id) ==
  \/ /\ log' = Append(log, [turn |-> t, kind |-> kind, call |-> id])
     /\ UNCHANGED faults
  \/ Fails(1) /\ UNCHANGED log

Emit(t, kind, id) ==
  /\ \A s \in Sessions: stream[s].state = "open" => Len(log) + 1 < stream[s].next + MaxLag
  /\ Written(t, kind, id)

(* The bot's chat handler calls ensure and then sends the message; a turn may *)
(* also come from another client of the session, without ensure.            *)
Ask(t, viaBot) ==
  /\ stage[t] = "idle"
  /\ viaBot => home[t] \in Followed
  /\ stage' = [stage EXCEPT ![t] = "running"]
  /\ stream' = IF viaBot /\ stream[home[t]].state = "none"
               THEN [stream EXCEPT ![home[t]] = Without("connecting")] ELSE stream
  /\ UNCHANGED <<home, made, log, renderers, bubbles, footers, subscribers, faults>>

(* An orchestrated turn's planner pass runs first and makes calls of its own *)
(* (todowrite); then the plan, if there is one, is shown, and the passes of  *)
(* the executor follow.                                                      *)
Plans(t) ==
  /\ t \in Planned
  /\ stage[t] = "running"
  /\ stage' = [stage EXCEPT ![t] = "planned"]
  /\ Emit(t, "plan", "")
  /\ UNCHANGED <<home, made, stream, telegram, subscribers>>

CallPlanned(t) ==
  /\ stage[t] \in {"running", "planned"}
  /\ made[t] < Len(Asks[t])
  /\ stage' = [stage EXCEPT ![t] = IF @ = "running" THEN "calling" ELSE "executing"]
  /\ made' = [made EXCEPT ![t] = @ + 1]
  /\ Emit(t, "planned", Asks[t][made[t] + 1])
  /\ UNCHANGED <<home, stream, telegram, subscribers>>

CallExecuted(t) ==
  /\ stage[t] \in {"calling", "executing"}
  /\ stage' = [stage EXCEPT ![t] = IF @ = "calling" THEN "running" ELSE "planned"]
  /\ Emit(t, "executed", Asks[t][made[t]])
  /\ UNCHANGED <<home, made, stream, telegram, subscribers>>

(* turn_finished, before every return of the synchronous path. *)
Finishes(t) ==
  /\ stage[t] \in {"running", "planned"}
  /\ stage' = [stage EXCEPT ![t] = "over"]
  /\ Emit(t, "finished", "")
  /\ UNCHANGED <<home, made, stream, telegram, subscribers>>

(* A turn that detached from its request ends without turn_finished. *)
EndsDetached(t) ==
  /\ stage[t] \in {"running", "planned"}
  /\ stage' = [stage EXCEPT ![t] = "over"]
  /\ UNCHANGED <<home, made, log, stream, telegram, subscribers, faults>>

-----------------------------------------------------------------------------
(* The stream. *)

ConnectReplays(s) ==   \* mutant: the stream starts with the whole log
  /\ stream[s].state = "connecting"
  /\ stream' = [stream EXCEPT ![s] = [state |-> "open", next |-> 1]]
  /\ subscribers' = subscribers + 1
  /\ UNCHANGED <<gateway, telegram, faults>>

(* The endpoint subscribes its queue; nothing ever removes it again. *)
Connect(s) ==
  /\ stream[s].state = "connecting"
  /\ stream' = [stream EXCEPT ![s] = [state |-> "open", next |-> Len(log) + 1]]
  /\ subscribers' = subscribers + 1
  /\ UNCHANGED <<gateway, telegram, faults>>

ConnectFails(s) ==
  /\ stream[s].state = "connecting"
  /\ Fails(1)
  /\ stream' = [stream EXCEPT ![s] = Without("backoff")]
  /\ UNCHANGED <<gateway, telegram, subscribers>>

DropKeepsRenderers(s) ==   \* mutant: turns go on in the bubbles they had
  /\ stream[s].state = "open"
  /\ Fails(1)
  /\ stream' = [stream EXCEPT ![s] = Without("backoff")]
  /\ UNCHANGED <<gateway, telegram, subscribers>>

DropEndsTask(s) ==   \* mutant: _run returns instead of reconnecting
  /\ stream[s].state = "open"
  /\ Fails(1)
  /\ stream' = [stream EXCEPT ![s] = Without("ended")]
  /\ renderers' = [renderers EXCEPT ![s] = Nobody]
  /\ UNCHANGED <<gateway, bubbles, footers, subscribers>>

(* The connection is lost or ends: what its queue still held is gone, and so *)
(* are the session's renderers.                                              *)
Drop(s) ==
  /\ stream[s].state = "open"
  /\ Fails(1)
  /\ stream' = [stream EXCEPT ![s] = Without("backoff")]
  /\ renderers' = [renderers EXCEPT ![s] = Nobody]
  /\ UNCHANGED <<gateway, bubbles, footers, subscribers>>

BackoffOver(s) ==
  /\ stream[s].state = "backoff"
  /\ stream' = [stream EXCEPT ![s] = Without("connecting")]
  /\ UNCHANGED <<gateway, telegram, subscribers, faults>>

-----------------------------------------------------------------------------
(* The renderer.  `from` is the position of the first event it was given.    *)
NewRenderer(i) == [from |-> i, rows |-> <<>>, bubble |-> 0]

Running(id) == [call |-> id, done |-> FALSE]
Settled(id) == [call |-> id, done |-> TRUE]

(* The rows after a call's outcome: the first row of that id, or a new one. *)
RowsOf(rows, id) == {i \in DOMAIN rows: rows[i].call = id}
First(hits) == CHOOSE i \in hits: \A j \in hits: i <= j

Settle(rows, id) ==
  IF RowsOf(rows, id) = {} THEN Append(rows, Settled(id))
  ELSE [rows EXCEPT ![First(RowsOf(rows, id))] = Settled(id)]

RowsAfter(r, e) ==
  CASE e.kind = "planned"  -> Append(r.rows, Running(e.call))
    [] e.kind = "executed" -> Settle(r.rows, e.call)
    [] OTHER               -> r.rows

(* What one event does to Telegram: the bubble is posted by the first plan or *)
(* call, and edited afterwards; `sent` says whether the call went through.   *)
PostsBubble(r, e) == r.bubble = 0 /\ e.kind \in {"plan", "planned"}
EditsBubble(r, e) == r.bubble # 0

(* text[-MAX_STREAM_BUBBLE_CHARS:] takes away the first rows of the text, as *)
(* many as their lengths make it.  (A cut through mark-up makes Telegram     *)
(* refuse the text: a call that did not go through.  An edit refused because *)
(* the text is what it was counts as one that did.)                          *)
Cuts(rows) == {cut \in 0..Len(rows): cut > 0 => Len(rows) - cut >= FitRows}

Bubble(t, r, rows, cut) ==
  [turn |-> t, from |-> r.from, rows |-> rows, cut |-> cut, sealed |-> FALSE]

HandleUnfinished(s, t, r, e, sent) ==
  LET rows == RowsAfter(r, e)
      post == PostsBubble(r, e) /\ sent
  IN /\ \E cut \in Cuts(rows):
          bubbles' = IF post THEN Append(bubbles, Bubble(t, r, rows, cut))
                     ELSE IF EditsBubble(r, e) /\ sent
                     THEN [bubbles EXCEPT ![r.bubble] = [@ EXCEPT !.rows = rows, !.cut = cut]]
                     ELSE bubbles
     /\ renderers' = [renderers EXCEPT ![s] = With(@, t, [r EXCEPT !.rows = rows,
                        !.bubble = IF post THEN Len(bubbles) + 1 ELSE @])]
     /\ UNCHANGED footers

LastEdit(r, sent) ==
  \E cut \in Cuts(r.rows):
    bubbles' = IF r.bubble # 0 /\ sent
               THEN [bubbles EXCEPT ![r.bubble] =
                       [@ EXCEPT !.rows = r.rows, !.cut = cut, !.sealed = TRUE]]
               ELSE bubbles

HandleFinishedIfShown(s, t, r, sent, footed) ==   \* mutant: early return before the pop
  /\ LastEdit(r, sent)
  /\ footers' = IF footed /\ (r.bubble # 0 \/ r.rows # <<>>)
                THEN [footers EXCEPT ![t] = @ + 1] ELSE footers
  /\ renderers' = [renderers EXCEPT ![s] =
       IF r.bubble = 0 /\ r.rows = <<>> THEN With(@, t, r)
       ELSE [u \in DOMAIN @ \ {t} |-> @[u]]]

(* turn_finished: the last edit, then the footer unless the turn showed      *)
(* nothing; whatever Telegram answers, the renderer is dropped.              *)
HandleFinished(s, t, r, sent, footed) ==
  /\ LastEdit(r, sent)
  /\ footers' = IF footed /\ (r.bubble # 0 \/ r.rows # <<>>)
                THEN [footers EXCEPT ![t] = @ + 1] ELSE footers
  /\ renderers' = [renderers EXCEPT ![s] = [u \in DOMAIN @ \ {t} |-> @[u]]]

(* _dispatch_event: a turn that has no renderer gets one, at any event. *)
Dispatch(s, i, sent, footed) ==
  LET e == log[i]
      t == e.turn
      r == IF t \in DOMAIN renderers[s] THEN renderers[s][t] ELSE NewRenderer(i)
  IN IF e.kind = "finished" THEN HandleFinished(s, t, r, sent, footed)
     ELSE HandleUnfinished(s, t, r, e, sent)

(* The stream's next event; the endpoint skips those of other sessions. *)
Deliver(s, sent, footed) ==
  LET i == stream[s].next
  IN /\ stream[s].state = "open"
     /\ i <= Len(log)
     /\ stream' = [stream EXCEPT ![s].next = i + 1]
     /\ IF home[log[i].turn] = s
        THEN /\ Dispatch(s, i, sent, footed)
             /\ IF sent /\ footed THEN UNCHANGED faults ELSE Fails(1)
        ELSE sent /\ footed /\ UNCHANGED <<telegram, faults>>
     /\ UNCHANGED <<gateway, subscribers>>

-----------------------------------------------------------------------------
(* Restarts. *)

GatewayRestart ==
  /\ Fails(1)
  /\ stage' = [t \in Turns |-> IF stage[t] = "idle" THEN "idle" ELSE "over"]
  /\ stream' = [s \in Sessions |-> IF stream[s].state = "open"
                  THEN Without("backoff") ELSE stream[s]]
  /\ renderers' = [s \in Sessions |-> IF stream[s].state = "open"
                     THEN Nobody ELSE renderers[s]]
  /\ subscribers' = 0
  /\ UNCHANGED <<home, made, log, bubbles, footers>>

BotRestart ==
  /\ Fails(1)
  /\ stream' = [s \in Sessions |-> Without("none")]
  /\ renderers' = [s \in Sessions |-> Nobody]
  /\ UNCHANGED <<gateway, bubbles, footers, subscribers>>

Next ==
  \/ \E t \in Turns: \/ \E viaBot \in BOOLEAN: Ask(t, viaBot)
                     \/ Plans(t) \/ CallPlanned(t) \/ CallExecuted(t)
                     \/ Finishes(t) \/ EndsDetached(t)
  \/ \E s \in Sessions: \/ Connect(s) \/ ConnectFails(s) \/ Drop(s) \/ BackoffOver(s)
                        \/ \E sent, footed \in BOOLEAN: Deliver(s, sent, footed)
  \/ GatewayRestart
  \/ BotRestart

(* The bot's task runs: it connects, wakes from its backoff, and takes the   *)
(* next event of a stream that lives.  No turn is obliged to do anything.    *)
Fairness == \A s \in Followed: /\ WF_vars(Connect(s) \/ ConnectFails(s))
                               /\ WF_vars(BackoffOver(s))
                               /\ WF_vars(\E sent, footed \in BOOLEAN: Deliver(s, sent, footed))

Spec == Init /\ [][Next]_vars /\ Fairness

-----------------------------------------------------------------------------
Names == CallIds \union {""}
Events == [turn: Turns, kind: {"plan", "planned", "executed", "finished"}, call: Names]
Row == [call: Names, done: BOOLEAN]
Renderer == [from: Nat, rows: Seq(Row), bubble: Nat]
BubbleSet == {b \in [turn: Turns, from: Nat, rows: Seq(Row), cut: Nat, sealed: BOOLEAN]:
                b.cut \in Cuts(b.rows)}
States == {"none", "connecting", "open", "backoff"}

(* The gateway's and the stream's variables are well typed. *)
LogTyped ==
  /\ stage \in [Turns -> {"idle", "running", "calling", "planned", "executing", "over"}]
  /\ home \in [Turns -> Sessions]
  /\ made \in [Turns -> Nat]
  /\ log \in Seq(Events)
  /\ stream \in [Sessions -> [state: States, next: Nat]]

(* So are the bot's and Telegram's. *)
BotTyped ==
  /\ renderers = [s \in Sessions |-> renderers[s]]
  /\ \A s \in Sessions: /\ DOMAIN renderers[s] \subseteq Turns
                        /\ \A t \in DOMAIN renderers[s]: renderers[s][t] \in Renderer
  /\ bubbles \in Seq(BubbleSet)
  /\ footers \in [Turns -> Nat]

(* The types of the variables. *)
TypeOK == LogTyped /\ BotTyped

Logged(t, kind) == {i \in DOMAIN log: log[i].turn = t /\ log[i].kind = kind}

(* Every event of turn t's calls was written. *)
Recorded(t) == \A n \in 1..made[t]: \A kind \in {"planned", "executed"}:
                 \E i \in Logged(t, kind): log[i].call = Asks[t][n]
Distinct(t) == IsInjective(Asks[t])

(* The turn asked for call c before it asked for call d. *)
Before(t, c, d) == \E m, n \in DOMAIN Asks[t]: m < n /\ c = Asks[t][m] /\ d = Asks[t][n]

Shown(b) == {n \in DOMAIN b.rows: n > b.cut}

(* A finished bubble tells what happened: when Telegram took the last edit,  *)
(* every row it shows is of a call whose outcome came after the renderer was *)
(* made, none twice, in order and none as still running; and every such call *)
(* has its row, but for the first ones of a turn too long for a message,     *)
(* which shows the newest - also for a renderer that joined in the middle,   *)
(* after a reconnect or a restart, and whatever edits failed before.  Calls  *)
(* need distinct ids, and the turn log must have taken their events          *)
(* (turn_renderer.py _on_tool_call_executed, _on_turn_finished,              *)
(* _compose_stream_bubble_text; turn_stream.py _run).                        *)
Tells(b) ==
  LET t == b.turn
      outcomes == {i \in Logged(t, "executed"): i >= b.from}
      hidden == {i \in outcomes: \A n \in Shown(b): b.rows[n].call # log[i].call}
  IN Recorded(t) /\ Distinct(t) =>
       /\ \A n \in Shown(b): /\ b.rows[n].done
                             /\ \E i \in outcomes: log[i].call = b.rows[n].call
       /\ \A m, n \in Shown(b): m < n => Before(t, b.rows[m].call, b.rows[n].call)
       /\ \A i \in hidden: \A n \in Shown(b): Before(t, log[i].call, b.rows[n].call)
       /\ hidden # {} => Len(b.rows) - b.cut >= FitRows

SealedTells == \A b \in DOMAIN bubbles: bubbles[b].sealed => Tells(bubbles[b])

(* No bubble is ahead of the gateway: a row is shown as done only after the  *)
(* call's outcome was written, and a footer only after turn_finished was; a  *)
(* turn gets one footer at most, whatever is dropped and reconnected.        *)
NothingAhead ==
  /\ \A b \in DOMAIN bubbles: \A n \in DOMAIN bubbles[b].rows:
       bubbles[b].rows[n].done =>
         \E i \in Logged(bubbles[b].turn, "executed"): log[i].call = bubbles[b].rows[n].call
  /\ \A t \in Turns: footers[t] <= 1 /\ (footers[t] = 1 => Logged(t, "finished") # {})

(* turn_stream.py:325 "Drop renderer on turn_finished so we don't carry dead *)
(* state forever": a renderer is of a turn of its session whose end this     *)
(* connection has not handed to it, and of an open connection.               *)
RenderersAreLive ==
  \A s \in Sessions: \A t \in DOMAIN renderers[s]:
    /\ home[t] = s /\ stream[s].state = "open"
    /\ ~\E i \in Logged(t, "finished"): i < stream[s].next /\ i >= renderers[s][t].from

(* A session the user has written to is followed again after any loss of the *)
(* connection, until the bot itself is restarted.                            *)
FollowedAgain ==
  \A s \in Followed: stream[s].state # "none" ~> stream[s].state \in {"open", "none"}
=============================================================================
