----------------------------- MODULE EventPush -----------------------------
(* The event log of the gateway (events.py), its pruner (event_pruner.py)   *)
(* and GET /v1/events (events_endpoint.py), followed by the Telegram bot's  *)
(* pusher (event_pusher.py), a process of its own with a cursor in a file.  *)
(*                                                                          *)
(* Entries are stamped and appended by code that does not suspend, from one *)
(* clock that is finer than an append: stamps rise in file order, and the   *)
(* log is a set of entries.  An entry is loud when the pusher has a text for*)
(* it: its kind is not in _SKIP_KINDS and format_event is not empty.        *)
EXTENDS Naturals, FiniteSets

CONSTANTS
  Users,       \* the allowlist
  Limit,       \* 100: entries in one reply of the endpoint
  MaxAge,      \* 30 days: what the pruner keeps
  PruneEvery,  \* one day
  MaxTime,     \* bound: stamps
  MaxCrashes,  \* bound: times the bot goes down
  Never        \* no time: a file that is not there

ASSUME EventPushAssumption ==
  /\ Users # {}
  /\ Limit \in Nat \ {0}
  /\ MaxAge \in Nat /\ PruneEvery \in Nat
  /\ MaxTime \in Nat /\ MaxCrashes \in Nat
  /\ Never \notin Nat

Times   == 1..MaxTime
Moments == 0..MaxTime \union {Never}
Entry   == [ts: Times, loud: BOOLEAN]

VARIABLES
  now,         \* the clock
  log,         \* events.jsonl
  anchor,      \* the pruner's file
  lastPruned,  \* _last_pruned_ts
  bot,         \* down, idle between two ticks, or pushing a reply's entries
  cursor,      \* pusher_cursor.json
  lastTs,      \* _last_ts
  newestTs,    \* newest_ts of the tick
  page,        \* entries of the reply not handled yet
  served,      \* users the first of them was sent to
  crashes,
  \* history:
  prunedAt,    \* the last prune's time
  anchored,    \* whether the file has it
  birth,       \* when the bot last started without a cursor
  told,        \* what each user was sent, ever
  lately,      \* and since the bot's last start
  cut          \* entries the limit kept from a reply

gatewayVars == <<now, log, anchor, lastPruned, prunedAt, anchored>>
botVars == <<bot, cursor, lastTs, newestTs, page, served, crashes, birth, told, lately, cut>>
vars == <<gatewayVars, botVars>>

Init ==
  /\ now = 0 /\ log = {}
  /\ anchor = Never /\ lastPruned = Never /\ prunedAt = Never /\ anchored = TRUE
  /\ bot = "down" /\ cursor = Never /\ lastTs = 0 /\ newestTs = 0
  /\ page = {} /\ served = {} /\ crashes = 0 /\ birth = 0
  /\ told = [u \in Users |-> {}] /\ lately = [u \in Users |-> {}] /\ cut = {}

-----------------------------------------------------------------------------
(* The gateway.                                                             *)

Emit(loud) ==
  /\ now < MaxTime
  /\ now' = now + 1
  /\ log' = log \union {[ts |-> now + 1, loud |-> loud]}
  /\ UNCHANGED <<anchor, lastPruned, prunedAt, anchored, botVars>>

PruneDue == lastPruned # Never => (now + 1) - lastPruned >= PruneEvery

Kept == {e \in log: e.ts + MaxAge >= now + 1}

(* tick: rewrite, remember, save the anchor (an OSError is logged), tell.   *)
Prune(saved) ==
  /\ now < MaxTime /\ PruneDue
  /\ now' = now + 1
  /\ log' = Kept \union {[ts |-> now + 1, loud |-> TRUE]}
  /\ lastPruned' = now + 1
  /\ anchor' = IF saved THEN now + 1 ELSE anchor
  /\ prunedAt' = now + 1 /\ anchored' = saved
  /\ UNCHANGED botVars

(* The gateway dies in a tick, after the rewrite or after the anchor. *)
PruneCutShort(saved) ==
  /\ now < MaxTime /\ PruneDue
  /\ now' = now + 1
  /\ log' = Kept
  /\ anchor' = IF saved THEN now + 1 ELSE anchor
  /\ lastPruned' = anchor'
  /\ prunedAt' = now + 1 /\ anchored' = saved
  /\ UNCHANGED botVars

Restart ==
  /\ lastPruned' = anchor
  /\ UNCHANGED <<now, log, anchor, prunedAt, anchored, botVars>>

-----------------------------------------------------------------------------
(* One poll: read keeps the newest Limit of the entries not older than      *)
(* `since`, the endpoint then drops those that are not newer.               *)

Newest(entries) == {e \in entries: Cardinality({f \in entries: f.ts > e.ts}) < Limit}

Reply(since) == {e \in Newest({f \in log: f.ts >= since}): e.ts > since}

PollSavesFirst ==   \* the cursor goes ahead of the messages
  /\ bot = "idle" /\ Reply(lastTs) # {}
  /\ page' = Reply(lastTs)
  /\ bot' = "pushing"
  /\ newestTs' = lastTs
  /\ cursor' = CHOOSE t \in Times: \A e \in page': t >= e.ts /\ \E f \in page': t = f.ts
  /\ cut' = cut \union {e.ts: e \in {f \in log: f.ts > lastTs} \ Reply(lastTs)}
  /\ UNCHANGED <<gatewayVars, lastTs, served, crashes, birth, told, lately>>

(* A tick that gets no answer, or no entries, changes nothing. *)
Poll ==
  /\ bot = "idle" /\ Reply(lastTs) # {}
  /\ page' = Reply(lastTs)
  /\ bot' = "pushing"
  /\ newestTs' = lastTs
  /\ cut' = cut \union {e.ts: e \in {f \in log: f.ts > lastTs} \ Reply(lastTs)}
  /\ UNCHANGED <<gatewayVars, cursor, lastTs, served, crashes, birth, told, lately>>

IsFirst(e) == e \in page /\ \A f \in page: e.ts <= f.ts

Handled(e) == page' = page \ {e} /\ newestTs' = e.ts /\ served' = {}

PassOver(e) ==
  /\ bot = "pushing" /\ IsFirst(e) /\ ~e.loud
  /\ Handled(e)
  /\ UNCHANGED <<gatewayVars, bot, cursor, lastTs, crashes, birth, told, lately, cut>>

PushWedges(e, u) ==   \* a send that fails ends the tick
  /\ bot = "pushing" /\ IsFirst(e) /\ e.loud /\ u \notin served
  /\ \/ /\ told' = [told EXCEPT ![u] = @ \union {e.ts}]
        /\ lately' = [lately EXCEPT ![u] = @ \union {e.ts}]
        /\ IF served \union {u} = Users THEN Handled(e)
           ELSE served' = served \union {u} /\ UNCHANGED <<page, newestTs>>
        /\ UNCHANGED bot
     \/ /\ bot' = "idle" /\ page' = {} /\ served' = {}
        /\ UNCHANGED <<newestTs, told, lately>>
  /\ UNCHANGED <<gatewayVars, cursor, lastTs, crashes, birth, cut>>

(* on_event for one user; whether Telegram takes the message or the send    *)
(* fails, the pusher goes on.                                               *)
Push(e, u) ==
  /\ bot = "pushing" /\ IsFirst(e) /\ e.loud /\ u \notin served
  /\ told' = [told EXCEPT ![u] = @ \union {e.ts}]
  /\ lately' = [lately EXCEPT ![u] = @ \union {e.ts}]
  /\ IF served \union {u} = Users THEN Handled(e)
     ELSE served' = served \union {u} /\ UNCHANGED <<page, newestTs>>
  /\ UNCHANGED <<gatewayVars, bot, cursor, lastTs, crashes, birth, cut>>

EndTickOnlySaved ==   \* _last_ts moves only with the file
  /\ bot = "pushing" /\ page = {}
  /\ bot' = "idle"
  /\ \/ cursor' = newestTs /\ lastTs' = newestTs
     \/ UNCHANGED <<cursor, lastTs>>
  /\ UNCHANGED <<gatewayVars, newestTs, page, served, crashes, birth, told, lately, cut>>

(* The end of a tick; saving the cursor may fail. *)
EndTick ==
  /\ bot = "pushing" /\ page = {}
  /\ bot' = "idle"
  /\ lastTs' = newestTs
  /\ cursor' \in {newestTs, cursor}
  /\ UNCHANGED <<gatewayVars, newestTs, page, served, crashes, birth, told, lately, cut>>

(* The bot stops, by itself or at a shutdown, at any suspension. *)
Crash ==
  /\ bot # "down" /\ crashes < MaxCrashes
  /\ crashes' = crashes + 1
  /\ bot' = "down" /\ page' = {} /\ served' = {}
  /\ lately' = [u \in Users |-> {}]
  /\ UNCHANGED <<gatewayVars, cursor, lastTs, newestTs, birth, told, cut>>

StartAtZero ==   \* a missing cursor means the whole log
  /\ bot = "down" /\ bot' = "idle"
  /\ lastTs' = IF cursor = Never THEN 0 ELSE cursor
  /\ newestTs' = lastTs'
  /\ birth' = IF cursor = Never THEN now ELSE birth
  /\ UNCHANGED <<gatewayVars, cursor, page, served, crashes, told, lately, cut>>

(* __post_init__: from the cursor, or from now on. *)
Start ==
  /\ bot = "down" /\ bot' = "idle"
  /\ lastTs' = IF cursor = Never THEN now ELSE cursor
  /\ newestTs' = lastTs'
  /\ birth' = IF cursor = Never THEN now ELSE birth
  /\ UNCHANGED <<gatewayVars, cursor, page, served, crashes, told, lately, cut>>

BotStep ==
  \/ Poll \/ EndTick \/ Start
  \/ \E e \in page: PassOver(e) \/ \E u \in Users: Push(e, u)

Next ==
  \/ \E b \in BOOLEAN: Emit(b) \/ Prune(b) \/ PruneCutShort(b)
  \/ Restart \/ Crash \/ BotStep

(* A bot that is down is started again (docker-compose restart policy), its *)
(* coroutine goes on, and of the polls it makes one is answered in the end. *)
Spec == Init /\ [][Next]_vars /\ WF_vars(BotStep)

-----------------------------------------------------------------------------
(* The types; stamps are unique and nothing is ahead of the clock. *)
TypeOK ==
  /\ now \in 0..MaxTime
  /\ log \subseteq Entry /\ \A e, f \in log: e.ts = f.ts => e = f
  /\ \A e \in log: e.ts <= now
  /\ anchor \in Moments /\ lastPruned \in Moments /\ prunedAt \in Moments
  /\ anchored \in BOOLEAN
  /\ bot \in {"down", "idle", "pushing"}
  /\ cursor \in 0..now \union {Never} /\ lastTs \in 0..now /\ newestTs \in 0..now
  /\ page \subseteq Entry /\ served \subseteq Users
  /\ crashes \in 0..MaxCrashes /\ birth \in 0..now
  /\ told \in [Users -> SUBSET Times] /\ lately \in [Users -> SUBSET Times]
  /\ cut \subseteq Times

(* What a cursor has passed was sent: no stop of the bot between two sends, *)
(* or between a send and the saving of the cursor, makes an event newer than*)
(* the bot go missing, unless a full reply left it out.                     *)
NothingSkipped ==
  \A e \in log: e.loud /\ birth < e.ts /\ e.ts \notin cut /\
    (e.ts <= lastTs \/ (cursor # Never /\ e.ts <= cursor))
      => \A u \in Users: e.ts \in told[u]

(* event_pusher.py:218 "at-most-once-per-restart": between two starts of the *)
(* bot a user gets events in the order of the log, and none twice, however  *)
(* polls, appends, prunes and failed saves come between.                    *)
PushInOrder ==
  [][\A e \in page, u \in Users: Push(e, u) => \A t \in lately[u]: t < e.ts]_vars

(* A user is sent an event again only after a restart, and only one that the*)
(* cursor in the file does not cover; what came before the bot is not sent. *)
RepeatsAreUnsaved ==
  [][\A e \in page, u \in Users: Push(e, u) =>
       /\ e.ts > birth
       /\ cursor # Never => e.ts > cursor]_vars

(* Every event is sent to every user in the end, unless it is older than    *)
(* the bot, pruned first or left out by a full reply.                       *)
EveryEventTold ==
  \A t \in Times:
    (\E e \in log: e.ts = t /\ e.loud) ~>
      ((\A u \in Users: t \in told[u]) \/ t \in cut \/ t <= birth \/ \A e \in log: e.ts # t)

(* Prunes are a day apart, also across restarts of the gateway, unless the  *)
(* anchor of the last one was not saved.                                    *)
PrunedApart ==
  [][(\E b \in BOOLEAN: Prune(b) \/ PruneCutShort(b)) /\ prunedAt # Never /\ anchored
       => now' - prunedAt >= PruneEvery]_vars
=============================================================================
