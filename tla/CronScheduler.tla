---------------------------- MODULE CronScheduler ----------------------------
(* The tick that fires due crons (gateway/cron_scheduler.py CronScheduler)   *)
(* over the records of CronService.                                          *)
(*                                                                           *)
(* A firing is the n-th task launched for its job:                           *)
(*   running    its callback (an agent session) is at work                   *)
(*   marked     _mark_run renamed the file; delete_after_run is looked at    *)
(*              next, with no suspension in between                          *)
(*   done       over, its outcome recorded                                   *)
(*   lost       cancelled by stop, or gone with the process                  *)
EXTENDS CronService

CONSTANTS MaxFirings, MaxStops   \* bounds: firings of one job; stops of the gateway

ASSUME CronSchedulerAssumption == MaxFirings \in Nat \ {0} /\ MaxStops \in Nat

VARIABLES
  firings,   \* [Jobs -> Seq of firings], oldest first
  inFlight,  \* _in_flight: the number of the job's task in it, 0 if it has none
  stops      \* times the gateway stopped

vars == <<storeVars, firings, inFlight, stops>>

Firing == [kind: Kinds, once: BOOLEAN, state: {"running", "marked", "done", "lost"}]

Init == StoreInit /\ firings = [j \in Jobs |-> <<>>]
                  /\ inFlight = [j \in Jobs |-> 0] /\ stops = 0

(* CronSchedule.next_run for the recurring kinds; croniter's grid for cron. *)
NextRun(s, after) == IF s.kind = "every" THEN after + s.n
                     ELSE (after \div s.n + 1) * s.n

(* Mutants.  Each is the operator its name begins with, with a mistake a     *)
(* change to the code could make; no specification uses them.               *)
IsDueAlways(r) ==   \* last_run_ts not looked at for a one-shot
  IF r.sched.kind = "at" THEN r.sched.n <= now
  ELSE NextRun(r.sched, IF r.last = Never THEN r.created ELSE r.last) <= now

OverIfListed(j) == inFlight[j] # 0   \* `.done()` not asked
OverIfLost(j) ==   \* only a cancelled task counts as over
  inFlight[j] # 0 /\ firings[j][inFlight[j]].state = "lost"

(* _is_due. *)
IsDue(r) ==
  IF r.sched.kind = "at" THEN r.sched.n <= now /\ r.last = Never
  ELSE NextRun(r.sched, IF r.last = Never THEN r.created ELSE r.last) <= now

Due(m) == {j \in DOMAIN m : m[j].enabled /\ IsDue(m[j])}

Over(j) == inFlight[j] # 0 /\ firings[j][inFlight[j]].state \in {"done", "lost"}

(* A gateway step may run now: the code between mark and remove is over. *)
LoopFree == GatewayReady /\ \A j \in Jobs: \A i \in 1..Len(firings[j]): firings[j][i].state # "marked"

(* One tick: reload, launch what is due and has no live task, forget the    *)
(* tasks that are over.                                                     *)
Tick ==
  /\ LoopFree
  /\ LET m      == Reloaded
         launch == {j \in Due(m) : inFlight[j] = 0 \/ Over(j)}
     IN /\ \A j \in launch: Len(firings[j]) < MaxFirings
        /\ mem' = m
        /\ firings' = [j \in Jobs |->
             IF j \in launch
             THEN Append(firings[j], [kind |-> m[j].sched.kind, once |-> m[j].once,
                                      state |-> "running"])
             ELSE firings[j]]
        /\ inFlight' = [j \in Jobs |-> IF j \in launch THEN Len(firings[j]) + 1
                                       ELSE IF Over(j) THEN 0 ELSE inFlight[j]]
  /\ synced' = TRUE
  /\ UNCHANGED <<now, disk, mustStat, cli, up, edits, wanted, stale, stops>>

InState(j, i, st) == i \in 1..Len(firings[j]) /\ firings[j][i].state = st
SetState(j, i, st) == firings' = [firings EXCEPT ![j][i].state = st]

(* _mark_run; a job removed meanwhile is UnknownCron, which it swallows.    *)
MarkRun(j) ==
  IF j \in DOMAIN mem THEN GatewayWrites(Marked(mem, j))
  ELSE UNCHANGED <<mem, disk, mustStat, stale, cli>>

(* The callback returned: mark, and go on to the one-shot cleanup. *)
FiringOk(j, i) ==
  /\ LoopFree /\ InState(j, i, "running")
  /\ MarkRun(j)
  /\ SetState(j, i, IF firings[j][i].once THEN "marked" ELSE "done")
  /\ UNCHANGED <<now, synced, up, edits, wanted, inFlight, stops>>

(* It raised or timed out: mark, and that is all. *)
FiringFailed(j, i) ==
  /\ LoopFree /\ InState(j, i, "running")
  /\ MarkRun(j)
  /\ SetState(j, i, "done")
  /\ UNCHANGED <<now, synced, up, edits, wanted, inFlight, stops>>

(* `if job.delete_after_run: self._service.remove(job.id)`. *)
Cleanup(j, i) ==
  /\ GatewayReady /\ InState(j, i, "marked")
  /\ IF j \in DOMAIN mem
     THEN GatewayWrites(Without(mem, j)) /\ wanted' = [wanted EXCEPT ![j] = "gone"]
     ELSE UNCHANGED <<mem, disk, mustStat, stale, cli, wanted>>
  /\ SetState(j, i, "done")
  /\ UNCHANGED <<now, synced, up, edits, inFlight, stops>>

(* stop, or the death of the process. *)
StopGateway ==
  /\ up /\ stops < MaxStops
  /\ up' = FALSE /\ stops' = stops + 1
  /\ mustStat' = FALSE
  /\ mem' = NoJobs
  /\ inFlight' = [j \in Jobs |-> 0]
  /\ firings' = [j \in Jobs |-> [i \in 1..Len(firings[j]) |->
                   IF firings[j][i].state \in {"running", "marked"}
                   THEN [firings[j][i] EXCEPT !.state = "lost"] ELSE firings[j][i]]]
  /\ UNCHANGED <<now, disk, synced, cli, edits, wanted, stale>>

(* The next process loads the file. *)
StartGateway ==
  /\ ~up
  /\ up' = TRUE /\ mem' = disk /\ synced' = TRUE
  /\ UNCHANGED <<now, disk, mustStat, cli, edits, wanted, stale, firings, inFlight, stops>>

UserStep == /\ (LoopFree /\ ToolStep) \/ CliStep   \* a command is another process
            /\ UNCHANGED <<firings, inFlight, stops>>

FiringStep == \E j \in Jobs: \E i \in 1..MaxFirings:
                FiringOk(j, i) \/ FiringFailed(j, i) \/ Cleanup(j, i)

Next == \/ UserStep \/ FiringStep \/ Tick
        \/ (Stat \/ Clock) /\ UNCHANGED <<firings, inFlight, stops>>
        \/ StopGateway \/ StartGateway

(* The poll loop ticks, code that has begun a mutation finishes it, and a   *)
(* firing ends: the callback within firing_timeout_secs.                    *)
Fairness ==
  /\ WF_vars(Tick) /\ WF_vars(Stat /\ UNCHANGED <<firings, inFlight, stops>>)
  /\ \A j \in Jobs: \A i \in 1..MaxFirings:
       /\ WF_vars(FiringOk(j, i) \/ FiringFailed(j, i))
       /\ WF_vars(Cleanup(j, i))

Spec == Init /\ [][Next]_vars /\ Fairness

-----------------------------------------------------------------------------
(* The types of the variables: every record a job, every time within bounds. *)
TypeOK ==
  /\ StoreTypeOK
  /\ firings \in [Jobs -> Seq(Firing)]
  /\ inFlight \in [Jobs -> 0..MaxFirings] /\ stops \in 0..MaxStops

Active(j, i) == InState(j, i, "running") \/ InState(j, i, "marked")

(* cron_scheduler.py _in_flight "so we don't double-fire a job whose        *)
(* previous run hasn't returned yet": no two firings of a job are at work   *)
(* at once, whatever is edited, reloaded or restarted meanwhile.            *)
NoOverlap == \A j \in Jobs: \A i, k \in 1..MaxFirings: Active(j, i) /\ Active(j, k) => i = k

(* A one-shot whose firing was recorded, with success or as a failure, is   *)
(* never fired again, unless a write from a stale copy erased the record;   *)
(* a firing cut short by a stop is not recorded and does run again.         *)
OneShotOnce ==
  ~stale => \A j \in Jobs: \A i, k \in 1..Len(firings[j]):
    i < k /\ firings[j][i].kind = "at" /\ firings[j][k].kind = "at"
      => firings[j][i].state = "lost"

(* A job that is due is served: its firing is recorded, or it stops being   *)
(* due by an edit, or the gateway stops, or the bound on firings is reached.*)
DueIsServed ==
  \A j \in Jobs: (up /\ j \in Due(mem)) ~>
    (~up \/ j \notin Due(mem) \/ \E k \in Jobs: Len(firings[k]) = MaxFirings)
=============================================================================
