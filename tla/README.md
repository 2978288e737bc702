# FITT gateway: verification development

TLA+ models of the FITT hub (`src/gateway`, a FastAPI/asyncio process) and of
what surrounds it, the TLC configurations that check them on small instances,
and TLAPS proofs of the properties that matter most. Paths below are relative
to `src/gateway/src/gateway/` unless they start with `telegram-bot/`, which
stands for `src/telegram-bot/src/fitt_telegram_bot/`.

## 1. The system

One hub process serves chat requests from several clients (IDE, Open WebUI,
Telegram bot, CLI), runs the model's tool calls, asks a human where the policy
says so, fires scheduled jobs and publishes what happened in append-only logs.
It is one asyncio loop: everything between two suspension points is atomic,
and everything else interleaves. The Telegram bot and the `fitt` command are
separate processes that share HTTP endpoints or files with it.

| Component | State it keeps | Operations | What makes it correct |
|---|---|---|---|
| Approval middleware (`approval.py`, `approvals_endpoint.py`) | `_pending` (id to future), `_trusted` (session to tools), all in memory | `check`, deadline, `decide`, trust, cancellation of the asking task | nothing runs unauthorised; one decision per approval; an accepted answer is the one used; every check ends |
| Tool registry (`tools/registry.py`) | tools by name, policy, baked-in defaults | register, unregister, restrict, resolve bucket | a replacement does not inherit what its predecessor was allowed |
| Agent loop (`agent_loop.py`) | working messages, `succeeded_calls`, `repeated_calls`, the record for memory | dispatch, execute, suppress, stop | every tool call is answered before the model is asked again; no successful call runs twice; it ends |
| Orchestrator (`orchestrator.py`, `planner.py`, `trouble.py`, `recover.py`) | plan entry, attempts | planner pass, nudge, executor pass, recovery runs, honest stop | trouble is not delivered as an answer; the turn ends |
| Chat request and its delivery (`chat.py`, `detach.py`) | the request, the loop's task, the background worker, the stream | answer, detach, finish detached, stream | the outcome arrives exactly once; memory says what was delivered |
| Alias router (`router.py`) | the calls of one dispatch | try a candidate, time it, go on to the next | a dispatch ends; a fallback is tried where one is configured |
| Cron records (`cron.py`, `tools/cron_tools.py`, `cli.py`, dashboard) | `cron.json`, the gateway's copy and its mtime | add, update, pause, remove, reload; the same from a command | an acknowledged edit is not undone by another writer |
| Cron scheduler (`cron_scheduler.py`) | `_in_flight` tasks | tick, fire, mark, clean up, stop | no overlap; a recorded one-shot is not fired again; due jobs are served |
| Cron runner (`cron_runner.py`) | a firing's events | run the session, tell how it ended | what is recorded of a firing is what was told |
| Event log (`events.py`, `events_endpoint.py`, `event_pruner.py`) | `events.jsonl`, the pruner's anchor | append, read, prune | a follower misses nothing across a rewrite |
| Turn events (`turns.py`, `turn_events.py`) | one JSONL file per session, live subscribers | append, subscribe | a renderer sees each event once, in order |
| MCP client (`mcp.py`) | process, pending calls, registered tools | spawn, probe, supervise, call, stop | tools registered iff served; an answer goes to its call; every wait ends |
| Memory (`memory.py`, `history_pruner.py`) | day files per session | append, load, budget, prune | a turn is read back whole, results with their own calls |
| Audit log (`audit.py`) | `audit.jsonl`, `audit.key`, the last HMAC | append, load key, tail, verify | verify blames what is broken and hides nothing |
| Event pusher (`telegram-bot/event_pusher.py`) | the cursor, in memory and in a file | poll, push, advance, save | no event missed, none repeated without need, in order |
| Bot approvals (`telegram-bot/approval.py`, `bot.py`, `gateway_client.py`) | surfaced ids, prompts in the chat | poll, prompt, tap, show | what a prompt shows is what was decided; a call is asked for once |
| Turn rendering (`telegram-bot/turn_stream.py`, `turn_renderer.py`) | one task per session, renderers, bubbles | connect, back off, dispatch, edit, seal | a finished bubble tells what happened; sessions are followed again after a loss |
| Stores (`todos.py`, `lessons.py`, `plan_store.py`, `projects.py`, `sessions.py`) | one file each | read, change, rewrite | survive crashes |
| Dashboard, CLI, retrieval, tools, evaluation harness, configuration | pages, files, subprocesses, measurements | I/O | outside the models |

How they interact. The chat handler dispatches through the router, or starts the
loop, which does so for every model request, calls `ApprovalMiddleware.check`
for each tool call and suspends in it, and appends an audit entry for it; a
client answers on another request. The scheduler starts firings that run the
same loop under their own session. MCP supervision changes the registry while
loops use it. Detached turns and firings end in the event log, which the bot's
pusher follows; the loop's steps go to the turn log, which the bot's renderers
follow over a stream; pending approvals are polled by the bot. What was
delivered goes to memory and comes back in the next request.

What is hard: answers racing deadlines and cancellations; the task that detaches
while it ends; timers of equal length; recovery on recovery; two processes
rewriting one file; edits and restarts between the steps of a firing; ids that
start again after a respawn; links that fail between a decision and its display.
`PROJECT.json` lists each hazard at its line, with the properties that cover it
or the reason none does.

## 2. Modules

| Module | Models | Built on |
|---|---|---|
| `Approval` | approval middleware, decide endpoint, restart; of MCP only that a tool goes and comes back | |
| `BotApprovals` | the bot's poller, prompts and taps, over the gateway | `Approval` |
| `AgentLoop` | one run of `run_agent_loop` | |
| `Orchestrator` | the passes of an orchestrated turn | `AgentLoop` |
| `ReplyOnce` | abstract: the outcome arrives once, now or late | |
| `TurnDelivery` | the chat handler and the detached worker around a run | `AgentLoop`; implements `ReplyOnce` |
| `Router` | one dispatch over the chain of an alias | |
| `ChatCompletions` | a chat request, with tools, whole or streamed | `TurnDelivery`, `Router`; implements `ReplyOnce` |
| `CronService` | records, file, commands | |
| `CronScheduler` | ticks and firings over the records | `CronService` |
| `CronRunner` | what a firing tells, against what is recorded of it | `CronScheduler` |
| `McpClient` | manager, client objects, server processes and tool calls of one MCP server | |
| `EventPush` | event log, pruner, endpoint, and the bot's pusher | |
| `TurnStream` | turn log, its subscribers, the stream endpoint, the bot's multiplexer and renderers | |
| `Memory` | a session's day files, the command that appends to them, loading, budget, pruner | |
| `AuditLog` | the chained log, its key, restarts, verify | |
| `ApprovalProofs`, `AgentLoopProofs`, `CronSchedulerProofs`, `McpClientProofs`, `EventPushProofs`, `TurnStreamProofs`, `MemoryProofs`, `AuditLogProofs` | proofs | their component; `ApprovalProofs` is about `BotApprovals`, `CronSchedulerProofs` about `CronRunner`, and `AgentLoopProofs` about `TurnDelivery`, `ChatCompletions` and `Orchestrator` too |
| `MC*` | instances for TLC | their component |

`AgentLoop`, `Router` and `CronService` have no `Next` of their own: the modules
that extend them compose their actions with the caller's. Operators whose name
extends another operator's (`OverIfListed`, `ReturnsAlways`, ...) are mistakes
kept beside the operator they distort; no specification uses them. They show
that each property can fail.

### Approval

A call is named by its approval id. `phase` is where its task is; CPython 3.11's
`asyncio.wait_for` gives the three live phases: `waiting`, `expired` (the timer
has released the waiter, an answer can still win) and `unwinding` (the future
was cancelled; the entry leaves `_pending` only when `TimeoutError` reaches the
handler). `check` up to its suspension, and the whole `decide` handler, are one
step each: their lock is never held across a suspension. Refusals (404, 403)
change nothing and are not actions. `resolve_bucket` is an arbitrary function
`Policy`; whether the deny list matches is part of the request. `answers`,
`origin` and `incarnation` are history variables.

### BotApprovals

The gateway's side is `Approval` with its actions unchanged; `Decide` happens
inside a tap, since the bot is the client that answers. A tick of the poller
takes the pending list (`Poll`, or `PollFails`, which the bot cannot tell from an
empty list: both return `[]`) and posts one prompt at a time (`Prompt`; Telegram
may refuse it, and the id stays marked). A tap is in one of three places: asking
the gateway (`TapDecides`, `TapTooLate` for its 404, `TapLost`; the reply to a
decision may be lost too), told, and shown (`Show`, an edit that may fail).
Taps run beside the poller and beside each other, as python-telegram-bot handles
updates concurrently. A bot restart forgets `_surfaced` and leaves the chat.

### AgentLoop, Orchestrator

A tool call is its signature, a tool's execution an outcome (`refused`,
`failed`, `ok`), a reply's content one of empty, an ordinary answer, or a gap.
`effects` counts successes per signature over a whole turn. Each pass of
`Orchestrator` restarts the loop's variables (`StartLoop`), as each call of
`run_agent_loop` does; the exceptions `UnknownAlias` and `NoBackendAvailable`
leave every pass (`PassRaised`), any other failure is a result.
`MayBeThinkingStall` leaves open whether the model produced reasoning, so both
the nudge and the plain end of the planner pass are possible.

### TurnDelivery, Router, ChatCompletions, ReplyOnce

The synchronous end of `_run_tool_loop` appends the turn to memory (`KeepTurn`)
and then sends the reply (`SendReply`), or reports a result without one
(`AnswerFailure`); `Detach` is the threshold (it may pass at any time, also when
the loop has ended but `wait_for` has not seen it); the worker emits the late event
(`EmitLate`) and then appends the turn (`KeepLate`). The process may stop between
any two of these. An append to memory or of the late event may fail, and is then
only logged (`Remembers`, `EmitLate`; `swallowed` remembers it); nothing is appended
for an empty user message (`asks`) or while memory is off (`MemoryOn`). `lastTool`
is what `_final_tool_was_rejected` would find; it may be left over from replayed
history. The refinement maps a placeholder to a promise and an answer or late event
to the delivery; what it promises ends (`Lose`) with the process, a stream's client
that leaves, or the one write of the late event that failed: nothing retries it.
An event log that is absent (`events is None`) is one whose every append fails.

`Router` has a clock and the upstream call of each candidate, which may run on
after the router or the handler has stopped waiting for it. `ChatCompletions`
adds the requests without tools: the handler's own `wait_for` (`HandlerDue`),
the answers to each end of a dispatch (a whole reply is remembered by `KeepWhole`,
then sent by `SendWhole`), and a stream's chunks, end, break and loss of its client.
A stream's reply is remembered after its end was sent, whether or not the request
had a user's message. On these paths `http`, `text`, `memory` and `up` are
`TurnDelivery`'s variables, so its invariants and its refinement are checked for
all paths. Both timers have the length `upstream_timeout_secs` and the handler's
is armed first, so a `Silent` step of the router needs `~HandlerDue`.

### CronService, CronScheduler, CronRunner

Records keep the fields the scheduler reads. A gateway write is a rename
(`GatewayWrites`) and then a `Stat`: only a command can step in between, because
the gateway's code does not suspend there (`GatewayReady`, `LoopFree`).
`synced` stands for "the remembered mtime is the file's". A command is a
snapshot (`CliOpen`) and a write (`CliEdit`). `wanted` remembers what users were
told, `stale` whether anybody has written over a version they had not read. A
firing is the n-th task launched for its job; `once` is the `delete_after_run`
of the record it was launched with. `CronRunner` splits a firing's work: its
session ends and is told (`Completes`, `Fails`), `fire` returns or raises
(`Returns`, `Raises`), or the scheduler's timer cancels it in the session
(`TimesOut`); `told` and `status` are the firing's last event and what
`_mark_run` recorded of it.

### McpClient

One configured server, whose tools register and unregister together, so they are
one name. `MCPManager.start_all` and each restart request is a handler, `job`
where it stands, and the client object it makes is named after it: `current` is
the manager's entry, `victim` the client a restart found. A client's processes are
numbered in the order of spawning, `proc` is `_proc`. `restart` suspends twice, in
the shutdown of the old client and in the handshake of the new one, and another
restart may run in between: `Stop`/`Stopped` and `Start`/`Started`/`StartFails`
are those parts. The supervisor is `sup`: it watches a process, backs off, probes
a new one. A handshake ends in three ways: it succeeds (`Probed`), times out
(`ProbeTimesOut`, which shuts the process down) or fails (`ProbeFails`, which
leaves the process alone, as `_spawn_once` does). A call keeps the client it found
in the registry (`Resolve`) while it waits for approval; `inbox` holds the requests
whose answers the reader has not read, so an answer may come late, in any order,
after its call timed out, or never. The reader may end while the server lives, on a
line longer than its stream's limit (`ReaderEnds`; `Eof` is the case that must come,
once the process is dead). `Return` pops the id, whoever has it by now:
a call that times out after a respawn may take the entry of a new call, whose
answer is then lost; it ends by its own timeout (`EveryWaitEnds`).

### EventPush

The gateway's side is the clock, the log and the pruner; the bot's a tick that
takes a reply (`Poll`), handles its entries from the first (`PassOver`, `Push` for
one user at a time) and ends (`EndTick`, where the save of the cursor may fail). A
poll without an answer returns no entries and changes nothing. The bot may stop at
any step and starts from its file, or from the present if there is none (`birth`).
The log is a set: stamps rise in file order, since entries are stamped and appended
without suspension by one process. `Reply` is the inclusive `read` with its limit,
filtered by the exclusive endpoint; what the limit leaves out is remembered in
`cut`, as the cursor then jumps over it. A prune rewrites, anchors and appends; the
gateway may die in between (`PruneCutShort`). `told`, `lately`, `cut`, `birth`,
`prunedAt` and `anchored` are history.

### TurnStream

`TurnLog.append` writes a line and, if that succeeded, hands the entry to its
subscribers under its lock, so the queue of an open stream is the log from a
position `next` on. The bot connects without a cursor: what was written while it
was away is never replayed, and a renderer may be made by any event of a turn
(`from` remembers which). One task per session finishes an event, Telegram calls
included, before it takes the next, so `Deliver` is one step: dispatch, the rows
of the bubble, the message that may fail to be posted or edited, the footer. A
lost connection drops the session's renderers and backs off. A detached turn ends
without `turn_finished` (`EndsDetached`), as the code does. A planned turn's planner
pass makes calls of its own (`todowrite`) before the plan is logged (`Plans`), the
executor's follow. Of the composed text Telegram gets the last 4000 characters
(`_compose_stream_bubble_text`): a bubble keeps all rows that were composed and
`cut`, how many of the first ones the text lost. How many depends on the rows'
lengths, so `cut` is any number that leaves at least `FitRows` rows, those that fit
however long they are. A cut through mark-up makes Telegram refuse the text, which
is a failed call; an edit refused because the text is what it was counts as made.

### Memory

A file is the blocks that `_parse_turns` finds in it, and those are not always the
ones `append_turn` wrote: texts are not escaped, so a line that looks like a header
opens a block of its own; a block without text is dropped; and a line separator
(U+0085, U+2028, U+2029) in an argument, which `json.dumps(ensure_ascii=False)`
leaves as it is, is a line break to `splitlines` and splits the JSON. `PlainBlocks` is
what is written, `TurnBlocks` what is read, for a turn whose `quote` says which of its
texts holds headers, which ones, whether anything of the text stands before them
(`opens`), and whether an argument of its last call holds a separator (`torn`); `Fits`
says what quote a turn can have (a result's text begins with its status, so nothing
in it opens it). What a header opens is `Quoted`: a block of calls in a text is
one of calls nobody made (`nth` 0).

`AppendTurn` is `append_turn`'s rewrite of the day's file; a cut write
(`AppendCutShort`) leaves any prefix (`Stumps`); `fitt memory append` is a read and a
write with the gateway in between. What a load keeps of a file is a set of its
blocks: today's within the budget (`KeptToday`), yesterday's up to its second user
block (`FirstTurn`). A message carries its place (layer, block, number of the call in
it), and the order of a request is the order of the places (`Older`); so
`History`, the layers without the oldest messages that do not fit, is the set of
the messages whose tail weighs no more than the budget. `Result` matches calls with
results as `_turns_to_messages` does, by position behind the block of calls. A tool's
name matters only in whether `_TOOL_CALL_BULLET_RE` takes it for one. `MaxAge` is any
integer, as `history_max_days` is; the summary's reach, `Oldest`, is fixed in the code.

Bounds of the abstraction: one text of a turn holds headers; a header inside an
argument's JSON is left out (it makes the load raise, as `torn` does); and the
gateway's read and write are one step, so a turn the command writes between them is
never lost in the model (on such a day, which is one of `harmed`, `TurnsKept`
promises nothing).

### AuditLog

An entry is the number of the append that made it, standing for its HMAC, and
carries the number it chains to and the key it was signed with. A write may fail
before anything is written, tear, or be complete but unacknowledged (the fsync
raises): `_last_hmac` then stays behind the file. A restart reads the last entry
back from 4096 bytes; a torn or longer one gives the empty HMAC. `fitt audit
verify` makes a key when it finds none, as `_load_key` does.

## 3. Runs

States are distinct states of a complete search.

| Run | Bounds | States | Shows |
|---|---|---|---|
| `approval` | 2 calls, 2 tools (1 MCP), 2 sessions (1 firing's), 2 clients, 2 boots, 2 registrations | 62 000 | `ExecutionAuthorised`, `OneDecisionPerApproval`, `AnswerNotDropped`, `CheckEnds` |
| `approval_trust` | same | | code disagrees with `tools/registry.py:339`: trust is inherited by a replacement (`TrustNotInherited`) |
| `orchestrator` | 2 signatures, batches of 2, planner budget 1, executor budget 2, 2 recoveries | 157 000 | `EveryCallAnswered`, `NoTroubleAsAnswer`, `TurnEnds` |
| `turn_delivery` | 2 signatures, batches of 2, 3 iterations; 2 candidates, timeout of 2 ticks, 2 chunks; appends that fail | 234 000 | `EffectOnce`, `MemoryMatchesDelivery`, `SilenceIsFinal`, `DispatchEnds`, refinement `DeliversOnce` |
| `cron` | 1 job, one schedule of each kind, clock to 2, 3 edits, 2 firings, 1 stop | 678 000 | `NoOverlap`, `OneShotOnce`, `RecordedIsTold`, `OnlyStaleWritesLose`, `DueIsServed` |
| `mcp` | start-up and 1 restart, 3 processes for the first client and 1 for the other, 2 calls, 2 ids per process, give up after 2 | 133 000 | `RegisteredIsServed`, `StopIsFinal`, `AnswerIsOwn`, `DeadToolsGo`, `EveryWaitEnds` |
| `event_push` | 4 stamps, 2 users, replies of 2, ages and prune interval of 2, 1 stop of the bot | 243 000 | `NothingSkipped`, `PushInOrder`, `RepeatsAreUnsaved`, `EveryEventTold` |
| `audit` | 5 appends, 2 keys, 3 faults | 206 000 | `SoundPrefix`, `NoSilentLoss`, `OneFaultOneBreak` |
| `memory` | 5 days, 2 turns of 0 or 2 calls with 7 quotes, budget of 5 texts, summary to 4 days and pruner of 3, 1 cut write | 1 362 000 | `OwnOutcome`, `TodayIsWhole`, `TurnsKept`, `PruneTakesOldLines` |
| `memory_outcome` | same, no quotes | | code disagrees with `memory.py:445`: a turn with an MCP tool is read back without its calls (`OutcomeIsRead`) |
| `bot_approvals` | 2 calls, 2 clients, 2 boots, 1 fault, 2 taps, 3 prompts, symmetric in the calls | 1 867 000 | `ShownIsDecided`, `RepeatsExplained`, `AskedIsAnswerable` |
| `turn_stream` | 2 turns of 2 and 0 calls, 2 sessions of which 1 is followed, 1 row that always fits, lag of 2, 2 faults | 418 000 | `SealedTells`, `NothingAhead`, `RenderersAreLive`, `FollowedAgain` |

Why the bounds are enough.

* Approval: trust needs one call to give it and one to use it (the other may be
  the firing's, or come from another client), and a replacement needs a second
  registration.
* Orchestrator: an executor budget of 2 with batches of 2 gives up to four
  records, enough for every trouble kind and for `MAX_RECOVERY_ATTEMPTS`
  recoveries; the cap of the loop is reached in each pass.
* Turn: the brake's limit is reached on the third iteration. Two candidates are
  what the configuration allows (a primary and a fallback); two ticks let a
  candidate fail before, at and after the handler's timer; two chunks make a
  stream with and without text. Memory is on; off, it is never written.
* Cron: jobs share only the file, which every write replaces whole, so one job
  that is edited while it is fired has the races; three edits are a command's,
  the gateway's and the one that shows a loss; a second firing is enough for an
  overlap or a repetition. The four invariants are proved for any number
  of jobs, edits, firings and stops.
* MCP: ids restart at the second process, so two calls and two ids make an old
  and a new call share one; a third process shows a respawn after a respawn;
  giving up after 2 failures stands for 5. Restarts that overlap each other need
  a third handler: the run has none, and `RegisteredIsServed`, `StopIsFinal` and
  `AnswerIsOwn` are proved for any number.
* Events: three new entries overflow a reply of two, four stamps let an entry
  come during a tick and be pruned before the next; two users let the bot stop
  between them.
* Audit: a torn write, the entry glued to it, the one after, and a restart need
  five entries and two faults; the third fault loses the key.
* Memory: five days hold today, yesterday, two days of the summary and, in it, one
  past the pruner's age; two turns with two calls each exceed the budget on one day.
  The quotes are a blank user's message, one that opens as a tool's result, one that
  holds a call and its result, a result and a reply that hold a result's header, and
  a separator; without the exceptions `OwnOutcome` names, TLC finds it violated.
  The theorems have no bound.
* Bot approvals: two taps on one prompt or on two prompts of one call, a prompt
  repeated after the one fault, and the prompt of a second call; the theorems
  have no bound.
* Turn stream: two faults drop a connection and fail an edit after it; two turns
  share a session or not; a renderer can join after any event. With one row that
  always fits, a bubble of two calls is cut or whole, and a later edit may be either.

Bounds on history (`EffectCap`, `MaxEdits`, `MaxFirings`, `MaxStops`, `MaxBoot`,
`MaxIncarnation`, `MaxTime`, `MaxServers`, `MaxId`, `MaxCrashes`, `MaxEntries`,
`MaxKeys`, `MaxFaults`, `MaxDay`, `MaxTurns`, `MaxCuts`, `MaxTaps`, `MaxPrompts`,
`MaxLag`, `MaxPieces`) are guards of the actions they bound, named in the
modules.

`CHECK_DEADLOCK FALSE` is set where the system stops by nature: all calls have
been made, the turn is over, or a bound is reached.

Fairness. The asyncio loop runs what is ready, so the program's own steps are
weakly fair: timers and tasks of an approval, the steps of a loop (a model
request is answered or fails within the router's timeout, a tool returns or times
out), the worker of a detached turn, the timers of a dispatch and of the handler
in front of it (the clock moves on unless one of them is due), the end of a
stream (the read timeout of its connection), the scheduler's tick, the second half
of a write, the end of a firing (its session ends or `firing_timeout_secs` pass)
and its record, the shutdown of a server (terminate, then kill after 2 s), the end
of a handshake (`startup_timeout_s`) and of a call (`call_timeout_s`), the
supervisor's steps and the end of a dead server's stdout (`Eof`), the bot's ticks (compose
restarts it, `restart: unless-stopped`, Telegram's client has timeouts, and one of
its polls is answered in the end), and the tasks that follow a session (a
connection succeeds or fails, a backoff passes, the next event of a live stream is
taken). Nothing is assumed of users, commands, thresholds, crashes, MCP servers
that answer, or upstream calls, which need never end. `Memory`, `AuditLog` and
`BotApprovals` state safety only and have no fairness.

## 4. Proofs

TLAPS proves the following for every value of the constants that satisfies the
named assumptions of the modules (bounds are naturals, the request set and
policy are well typed, and the like).

* `ApprovalProofs`: the inductive invariant `IInv` adds to the properties what
  they silently rest on: an idle call has no trace (`IdleIsFresh`); a live call
  was asked, not decided at once (`LiveIsAsking`); an answer in a future was
  accepted by the endpoint (`AnswersAreAccepted`); a future is open only while
  its call is live or awaited (`OpenIsAwaited`); an answered call has left
  `_pending` (`AnsweredIsUnlisted`), so it cannot be answered again; and trust
  comes from a tap in this boot (`TrustIsTapped`). One lemma per action.
* `ApprovalProofs`, second part (`BotApprovals`): every step is a step of `Approval` or invisible to it
  (`GatewayRefined`), so `IInv` holds in the composition. On top of it: a tap
  that was told "resolved" had its answer taken (`TapsAreTrue`), and a prompt
  shows that; a marked call that is pending has a prompt in the chat, or one that
  was refused or lost (`BotKnows`); and prompts of a call are counted against the
  polls and restarts that made the poller forget it.
* `AgentLoopProofs`: the loop's invariant relates `succeeded`, `effects`,
  `queue` and `unanswered` (a signature has an effect only if the brake knows it),
  the turn's relates `http`, `worker`, `late`, `memory` and `swallowed`. From it follow the
  safety properties and the safety part of the refinement,
  `Spec => Once!Init /\ [][Once!Next]_Once!vars`. The second half lifts this to
  `ChatCompletions`: on a path with tools its steps are `TurnDelivery`'s; on the
  others memory grows only with the reply (`PlainInv`), and, since no `Silent`
  step is possible before the handler's timer and none of its answers after
  (`HandlerFirst`), silence is final for the client. `ReplyOnce` is implemented
  on every path. `ChainIsTimed` bounds a pending dispatch by the Timeouts of the
  candidates it has begun, and `DispatchShrinks` is the safety half of
  `DispatchEnds`: its steps leave fewer candidates to settle, then less time, then
  fewer calls in flight. The last part is the orchestrated turn: its invariant `OrchInv`
  is the loop's shape in whatever pass is running, the type of `stage` and
  `attempt`, a recovery count within its cap, and `NoTroubleAsAnswer` itself; the
  loop's lemmas carry it through a pass, and the stage steps start and judge one.
  `SuccessIsRemembered` is not in it, since each pass forgets what the last one
  did. `TurnShrinks` is the safety half of `TurnEnds`: passes left, requests left
  and steps left are naturals that every step makes smaller in that order, so no
  reply of a model keeps a turn going; that a step is taken is fairness.
* `CronSchedulerProofs`: an active firing is the one `_in_flight` names, and a
  job's tasks in it are its last; so a tick that finds it not over launches
  nothing. `StoreInv` is what `OneShotOnce` and `OnlyStaleWritesLose` rest on while
  no write is stale: the snapshot of a command nobody wrote past is the file (`FreshIsDisk`), a
  job that has fired and is in the file is in memory (`FiredIsKnown`), and a job
  whose one-shot firing ended carries the time of it wherever the record is, in
  the file and in memory (`Spent`). Memory and file may differ without staleness (a
  command wrote since the last reload, or between a rename and its stat), so both
  copies are in the invariant: a tick may fire from either. One lemma per kind of
  step. The last part is about `CronRunner`, which is the scheduler with
  invisible steps added: every firing has its run, and the two fit (`Fits`: one at
  work has no status; a status says what was told).
* `McpClientProofs`: the inductive invariant has three parts. Clients: a process a
  client holds is its last, a living process is the one held, a stopped client's
  supervisor is cancelled for good. Manager: what the registry names is what its
  client lists, and its process has completed the handshake. Requests, which is
  what `AnswerIsOwn` needs: a request under way was sent to the present process of
  its client, which is being read, under an id not above `nextId`, and whoever is
  under that id in `_pending` is the call that asked. So ids may start again at a
  respawn: the old process is no longer read. One lemma per action.
* `EventPushProofs`: the invariant orders the positions: `birth`, the file's cursor,
  `_last_ts`, the tick's `newest_ts`, the page. Between the tick's position and an
  entry of the page the log holds only the page and what the limit cut; up to the
  position nothing is missed; what was sent since the start is behind it, or is
  the entry at hand. `NothingSkipped` and both action properties follow. The
  pruner's part: the last anchored prune is the one memory and file name.
* `TurnStreamProofs`: a stream's position is in the log and it has no renderers
  unless it is open (`StreamsFollow`); a turn's end is logged once, as its last
  event (`FinishesOnce`); rows of renderers and bubbles were told by the log
  (`RowsTold`); a bubble a renderer edits is its own (`OwnBubble`); a footer's
  event is behind the stream (`FooterPassed`). `SealedTells` needs more: what a
  renderer shows is exactly the calls whose outcome or plan passed the stream since
  it connected, in the order the turn made them (`RenderersShow`, `CallsOrdered`);
  the bubble it edits is not sealed (`BubblesOpen`); and a sealed bubble's turn is
  over (`SealedOver`), so no outcome is logged behind it. When the stream reaches
  the turn's end every plan has its outcome, and the rows are all done (`EndTells`),
  so the composed text tells every call (`TextsTell`); what Telegram got is its end,
  and the rows cut off are of the first calls, since the rows are in the calls' order.
* `MemoryProofs`: `TurnsKept` is inductive with the types alone: an append or a
  command's write over a file it has read extends it (`StandsBehind`), any other
  write harms its day (`StandsElsewhere`). `OwnOutcome` rests on `BlocksInStep`: in
  every file, and in the copy the command has read, a block of calls either holds
  only calls that a text quoted (`OnlyQuoted`) or the first calls of one turn, and
  then the tool blocks directly behind it are that turn's results in order, unless
  one of its results holds a header; all this while no user's message opens as a
  tool's result (`Unopened`), which would stand among the results of a turn before
  it whose write was cut. `TurnShape` is what a turn's own blocks are, for any quote. A
  cut keeps `BlocksInStep` because a block of calls that breaks off is the last, an
  append because a turn then begins with a block that is no tool's. `TodayIsWhole` needs no
  invariant: a message that weighs stands for a block of its own, `nth` places
  behind its call's block, since a block of calls never stands among results; so
  today's layer weighs at most its blocks, which the first cut has left within the
  budget. `PruneTakesOldLines` holds of any state
  that is well typed, for any age of a day or more; that an age not below the
  summary's changes nothing at all is a theorem beside it (`PrunesAreUnseen`).
* `AuditLogProofs`: the file is a sound prefix followed by lines in which each
  place that does not parse or chain is paid for by a fault; the last HMAC is the
  file's last entry unless a fault is outstanding. Breaks never exceed faults, and
  an acknowledged entry that cannot be read leaves a line verify stops at.

Model-checked only: everything under fairness (`CheckEnds`, `TurnEnds`,
`DeliversOnce`'s liveness half, `DispatchEnds`, `DueIsServed`, `DeadToolsGo`,
`EveryWaitEnds`, `EveryEventTold`, `FollowedAgain`), since ENABLED and liveness are
out of the prover's reach. Every invariant and every action property that a run
checks is a theorem.

Assumptions on the constants are what the code fixes: caps and budgets are naturals,
a policy is a function of tool and client, `Oldest` is positive (30 in the code),
`MaxAge` any integer, `Quotes` any set of quotes, `FitRows` any natural, `MemoryOn`
either.
`Orchestrator` assumes nothing of the loop brake, though no pass is ever given
`loop_brake` and its default holds: its theorems hold with and without it.

Type invariants are the subject of theorems everywhere and are in no run.

## 5. Where code and documents part

Two disagreements are runs of their own (`approval_trust`, `memory_outcome`). The
models show these too; the properties above are stated so that they hold with
the code as it is.

* The loop brake is per pass: an effect of the planner pass or of one executor
  run can be repeated by the next, while `agent_loop.py:70` speaks of a turn.
* A detached turn whose request failed is announced as `late_tool_result`
  (`detach.py:201`), and no detached turn emits `turn_finished` (`chat.py:876`).
* A failed append to memory (`chat.py:1098`, `chat.py:409`, `chat.py:1545`,
  `detach.py:273`) is logged and swallowed: the user has a reply the next turn does
  not know of. So is a failed append of the late event (`detach.py:341-358`): the
  promised outcome is then never told, though with an ok reply memory holds it.
  A request without a user's message is answered and, but for a stream, not
  remembered (`chat.py:1090`).
* Both timers of a plain request have one length, so the fallback of a silent
  primary is tried for nobody (`router.py:221`), the dispatch runs on for up to
  another timeout per candidate (`chat.py:1384`: by "a small margin"), and the
  branch that turns `NoBackendAvailable` over a `Timeout` into `upstream_silent`
  (`chat.py:1430`) is not reached on this path.
* `cron.json` has no lock between processes: an edit by a writer that has not
  read the file is lost (`cron.py:17`).
* A firing that times out emits neither `cron_failed` nor `turn_finished`, though
  `last_status` becomes `error` (`cron_runner.py:156`: they "stay in sync"). A
  firing stopped by the loop brake is told as `upstream_error` (`cron_runner.py:284`).
  The session key holds the time of the firing, so the turn appended "when the
  same cron fires again" (`cron_runner.py:243`) is not read by it.
* One respawn whose handshake times out leaves nothing to watch and ends the
  supervisor, though it should "give up after five consecutive failures"
  (`mcp.py:262`).
* A backlog longer than a reply loses its older entries: the documents describe
  paging with `next_since` (`events_endpoint.py:45-53`), but a reply holds the newest
  entries and `next_since` is the newest of them (`events.py:188`), and the bot's
  pusher does not page. `NothingSkipped` and `EveryEventTold` except what was cut.
* A bubble too long for a message is cut to the last 4000 characters
  (`telegram-bot/turn_renderer.py:609`): its first rows go, where the constant's
  comment (line 75) says "we stop appending and log a warning".
* Subscribers of the turn log are never removed (`events_endpoint.py:363`: "always").
* `list_pending_approvals` answers `[]` on any error, so one failed poll makes the
  poller post every pending prompt again (`telegram-bot/approval.py`).
* A torn audit line takes the next acknowledged entry with it (both are one line
  that does not parse); verify, which reads only, makes a missing key.
* Memory: today's file is cut before the older layers are, a yesterday that
  begins with a turn with tools leaves one of its messages alone, the rewrite is
  in place (`memory.py:264`: "Atomic from the reader's perspective"), and a block
  of calls that breaks off makes `load_context` raise.
* Memory does not escape what it writes (`memory.py:159`, `memory.py:690`): a tool's
  result with a line such as `## x tool y` is read back as two results, and the next
  call of its turn gets the second (`memory.py:770`); a user's message that opens with
  such a line may stand in for the results of a turn before it whose write was cut.
  `OwnOutcome` excepts both. Arguments are not "preserved byte-accurate through the
  persistence round trip" (`memory.py:117-119`): a separator in them makes the load
  raise while that block is in it (`Raises`).
* `history_max_days` (`config.py:150`) is not validated, and the summary's 30 days are
  written in the code (`memory.py:551`): a smaller age takes days of the summary, 0
  the file of yesterday, a negative one today's.

## 6. What is not modelled

Wording, logging, the layout of messages and events, costs and tokens. The
assembly of a request's messages, sentinel commands, turn capture and gap records.
A client that drops its connection before a stream starts. The contents of
tools, which are I/O on files, subprocesses and HTTP: a tool is an outcome of
`RunCall`. A firing's restricted tools and its auto-approve wrapper, which are
functions of the job. Read and replay of turn events from a cursor, which only
commands and the dashboard use. Clock steps backwards, and stamps equal because
the clock is coarser than an append (Windows). An approval's entry left behind by
a cancelled firing is a behaviour of `Approval` (`CancelTask`) that no property
forbids, though `approval.py:73` wants forgotten approvals not to stay. Two
commands at once (one is enough to be the other writer) and their shared temporary
file name. An MCP server's stdout that stays open after its process has exited and
past the supervisor's backoff (a wrapper command whose child lives on): `Respawn`
waits for its end. A restart cancelled by its HTTP client, and the end of the
gateway (`stop_all`), where every client is stopped like by a restart. The
dashboard's pages, the command line but for the commands that share a file with
the gateway, retrieval (a derivative of memory that can be rebuilt), the
configuration and its probes, and the evaluation harness, which measures models
offline: `PROJECT.json` lists them with the reason.
