----------------------------- MODULE CronService -----------------------------
(* The cron records of the gateway (gateway/cron.py CronService): a JSON     *)
(* file, the gateway's in-memory copy of it, and the `fitt cron` commands,   *)
(* each a process that reads the file, changes its copy and writes it back.  *)
(*                                                                           *)
(* A mutation in the gateway rewrites the whole file from memory: first the  *)
(* atomic rename, then a stat whose mtime becomes the remembered one.  Two   *)
(* successive versions of the file never share an mtime_ns, so a Boolean     *)
(* says whether the remembered mtime is the file's.                          *)
EXTENDS Naturals, Sequences

CONSTANTS
  Jobs,       \* job ids (token_hex, never reused)
  Schedules,  \* the schedules a user may give: [kind, n]
  MaxTime,    \* bound: the clock
  MaxEdits    \* bound: acknowledged user mutations

Kinds == {"every", "at", "cron"}

ASSUME CronServiceAssumption ==
  /\ Schedules \subseteq [kind: Kinds, n: Nat \ {0}]
  /\ MaxTime \in Nat /\ MaxEdits \in Nat

Never == MaxTime + 1   \* last_run_ts is None

VARIABLES
  now,       \* the clock of the hub
  mem,       \* CronService._state.jobs of the gateway
  disk,      \* the jobs in cron.json
  synced,    \* _state.mtime_ns is the file's mtime
  mustStat,  \* the gateway renamed the file and has not read its mtime yet
  cli,       \* the running `fitt cron` command: idle, or the snapshot it read
  up,        \* the gateway process is running
  edits,     \* user mutations so far
  wanted,    \* what the last acknowledged mutation said of each job (history)
  stale      \* a write was made over a version its writer had not read (history)

storeVars == <<now, mem, disk, synced, mustStat, cli, up, edits, wanted, stale>>

Job == [sched: Schedules, enabled: BOOLEAN, created: 0..MaxTime, last: 0..Never,
        once: BOOLEAN]
NoJobs == [j \in {} |-> 0]
Idle   == [on |-> FALSE, jobs |-> NoJobs, fresh |-> FALSE]

With(m, j, r)  == [x \in DOMAIN m \union {j} |-> IF x = j THEN r ELSE m[x]]
Without(m, j)  == [x \in DOMAIN m \ {j} |-> m[x]]

(* The jobs after one mutation, and what its user was told. *)
Added(m, j, s)     == With(m, j, [sched |-> s, enabled |-> TRUE, created |-> now,
                                  last |-> Never, once |-> s.kind = "at"])
Enabled(m, j, b)   == With(m, j, [m[j] EXCEPT !.enabled = b])
Rescheduled(m, j, s) == With(m, j, [m[j] EXCEPT !.sched = s])
Marked(m, j)       == With(m, j, [m[j] EXCEPT !.last = now])

(* What the file says of a job, as its user would read it. *)
View(m, j) == IF j \notin DOMAIN m THEN "gone" ELSE IF m[j].enabled THEN "on" ELSE "off"

StoreInit ==
  /\ now = 0 /\ up = TRUE
  /\ mem = NoJobs /\ disk = NoJobs
  /\ synced = TRUE /\ mustStat = FALSE
  /\ cli = Idle /\ edits = 0
  /\ wanted = [j \in Jobs |-> "never"]
  /\ stale = FALSE

(* A line of gateway code runs: nothing is between a rename and its stat. *)
GatewayReady == up /\ ~mustStat

(* _write_locked up to the rename: all of memory goes to the file. *)
GatewayWrites(m) ==
  /\ mem' = m /\ disk' = m
  /\ mustStat' = TRUE
  /\ stale' = (stale \/ ~synced \/ mem # disk)
  /\ cli' = [cli EXCEPT !.fresh = FALSE]

(* _write_locked after the rename. *)
Stat ==
  /\ up /\ mustStat
  /\ mustStat' = FALSE /\ synced' = TRUE
  /\ UNCHANGED <<now, mem, disk, cli, up, edits, wanted, stale>>

(* A user's mutation through the agent's cron tools or the dashboard: m is  *)
(* the map after it, v what it means for job j.                             *)
GatewayEdit(m, j, v) ==
  /\ GatewayReady /\ edits < MaxEdits
  /\ GatewayWrites(m)
  /\ edits' = edits + 1
  /\ wanted' = [wanted EXCEPT ![j] = v]
  /\ UNCHANGED <<now, synced, up>>

Unused(j) == wanted[j] = "never"

GatewayAdd(j, s)    == Unused(j) /\ GatewayEdit(Added(mem, j, s), j, "on")
(* A mutant: GatewayPause with a mistake a change to the code could make; no *)
(* specification uses it.                                                   *)
GatewayPauseUnsaved(j, b) ==   \* the record changes, the file does not
  /\ j \in DOMAIN mem /\ GatewayReady /\ edits < MaxEdits
  /\ mem' = Enabled(mem, j, b)
  /\ edits' = edits + 1
  /\ wanted' = [wanted EXCEPT ![j] = IF b THEN "on" ELSE "off"]
  /\ UNCHANGED <<now, disk, synced, mustStat, cli, up, stale>>

GatewayPause(j, b)  == j \in DOMAIN mem
                         /\ GatewayEdit(Enabled(mem, j, b), j, IF b THEN "on" ELSE "off")
GatewayUpdate(j, s) == j \in DOMAIN mem /\ GatewayEdit(Rescheduled(mem, j, s), j, wanted[j])
GatewayRemove(j)    == j \in DOMAIN mem /\ GatewayEdit(Without(mem, j), j, "gone")

(* A command starts: CronService() reads the file. *)
CliOpen ==
  /\ ~cli.on
  /\ cli' = [on |-> TRUE, jobs |-> disk, fresh |-> TRUE]
  /\ UNCHANGED <<now, mem, disk, synced, mustStat, up, edits, wanted, stale>>

(* Its mutation writes its copy; its own stat does not matter, it exits. *)
CliEdit(m, j, v) ==
  /\ cli.on /\ edits < MaxEdits
  /\ disk' = m
  /\ synced' = FALSE
  /\ stale' = (stale \/ ~cli.fresh)
  /\ cli' = Idle
  /\ edits' = edits + 1
  /\ wanted' = [wanted EXCEPT ![j] = v]
  /\ UNCHANGED <<now, mem, mustStat, up>>

CliAdd(j, s)   == Unused(j) /\ CliEdit(Added(cli.jobs, j, s), j, "on")
CliPause(j, b) == j \in DOMAIN cli.jobs
                    /\ CliEdit(Enabled(cli.jobs, j, b), j, IF b THEN "on" ELSE "off")
CliRemove(j)   == j \in DOMAIN cli.jobs /\ CliEdit(Without(cli.jobs, j), j, "gone")

ToolStep ==
  \/ \E j \in Jobs, s \in Schedules: GatewayAdd(j, s) \/ GatewayUpdate(j, s)
  \/ \E j \in Jobs, b \in BOOLEAN: GatewayPause(j, b)
  \/ \E j \in Jobs: GatewayRemove(j)

CliStep ==
  \/ CliOpen
  \/ \E j \in Jobs, s \in Schedules: CliAdd(j, s)
  \/ \E j \in Jobs, b \in BOOLEAN: CliPause(j, b)
  \/ \E j \in Jobs: CliRemove(j)

(* reload_if_changed: what memory holds after it. *)
Reloaded == IF synced THEN mem ELSE disk

Clock ==
  /\ now < MaxTime
  /\ now' = now + 1
  /\ UNCHANGED <<mem, disk, synced, mustStat, cli, up, edits, wanted, stale>>

-----------------------------------------------------------------------------
IsJobMap(m) == DOMAIN m \subseteq Jobs /\ \A j \in DOMAIN m: m[j] \in Job

(* The types of the store's variables. *)
StoreTypeOK ==
  /\ now \in 0..MaxTime
  /\ IsJobMap(mem) /\ IsJobMap(disk) /\ IsJobMap(cli.jobs)
  /\ cli = [on |-> cli.on, jobs |-> cli.jobs, fresh |-> cli.fresh]
  /\ synced \in BOOLEAN /\ mustStat \in BOOLEAN /\ up \in BOOLEAN /\ stale \in BOOLEAN
  /\ cli.on \in BOOLEAN /\ cli.fresh \in BOOLEAN
  /\ edits \in 0..MaxEdits
  /\ wanted \in [Jobs -> {"on", "off", "gone", "never"}]

(* The file says of each job what the users were last told of it. *)
NoMutationLost ==
  \A j \in Jobs: View(disk, j) = IF wanted[j] = "never" THEN "gone" ELSE wanted[j]

(* Only a write over a version its writer never read can undo one: every    *)
(* other interleaving of edits, firings, reloads, crashes and commands      *)
(* leaves the file saying what the users were told.                         *)
OnlyStaleWritesLose == stale \/ NoMutationLost
=============================================================================
