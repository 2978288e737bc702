----------------------------- MODULE CronRunner -----------------------------
(* What a firing of CronScheduler's does (gateway/cron_runner.py CronRunner  *)
(* .fire) and says: cron_fired when it starts, then an agent session, then   *)
(* cron_completed or cron_failed before it returns or raises.  The           *)
(* scheduler's timeout and a stop cancel it inside the session, where no     *)
(* handler of fire's catches it; the process may also die after an event is  *)
(* written and before the run is recorded.                                   *)
(*                                                                           *)
(* An event is taken to be written: _emit only logs a write that fails.      *)
EXTENDS CronScheduler

VARIABLE
  runs   \* [Jobs -> Seq of runs], the runner's part of each firing:
         \*   told    the kind of its last event
         \*   status  the last_status recorded of it, "" if none was

runnerVars == <<vars, runs>>

Run == [told: {"cron_fired", "cron_completed", "cron_failed"}, status: {"", "ok", "error"}]
NewRun == [told |-> "cron_fired", status |-> ""]

RunnerInit == Init /\ runs = [j \in Jobs |-> <<>>]

(* fire begins with the task: cron_fired, before anything can fail. *)
RunnerTick ==
  /\ Tick
  /\ runs' = [j \in Jobs |-> IF Len(firings'[j]) > Len(firings[j])
                             THEN Append(runs[j], NewRun) ELSE runs[j]]

(* fire is in the agent session. *)
AtWork(j, i) == LoopFree /\ InState(j, i, "running") /\ runs[j][i].told = "cron_fired"

(* status ok: the event.  The turn it appends goes to a session of its own,  *)
(* named after this firing, that no later firing reads.                      *)
Completes(j, i) ==
  /\ AtWork(j, i)
  /\ runs' = [runs EXCEPT ![j][i].told = "cron_completed"]
  /\ UNCHANGED vars

(* tool_loop_exhausted, upstream_error, or an exception. *)
Fails(j, i) ==
  /\ AtWork(j, i)
  /\ runs' = [runs EXCEPT ![j][i].told = "cron_failed"]
  /\ UNCHANGED vars

Recorded(j, i, st) == runs' = [runs EXCEPT ![j][i].status = st]

(* Mutants.  Each is the operator its name begins with, with a mistake a     *)
(* change to the code could make; no specification uses them.               *)
ReturnsAlways(j, i) ==   \* fire does not raise again after cron_failed
  /\ InState(j, i, "running") /\ runs[j][i].told # "cron_fired"
  /\ FiringOk(j, i)
  /\ Recorded(j, i, "ok")

(* fire returned; the scheduler records it. *)
Returns(j, i) ==
  /\ InState(j, i, "running") /\ runs[j][i].told = "cron_completed"
  /\ FiringOk(j, i)
  /\ Recorded(j, i, "ok")

(* fire raised. *)
Raises(j, i) ==
  /\ InState(j, i, "running") /\ runs[j][i].told = "cron_failed"
  /\ FiringFailed(j, i)
  /\ Recorded(j, i, "error")

(* firing_timeout_secs passed: fire is cancelled where it waits. *)
TimesOut(j, i) ==
  /\ AtWork(j, i)
  /\ FiringFailed(j, i)
  /\ Recorded(j, i, "error")

RunnerFiring == \E j \in Jobs: \E i \in 1..MaxFirings:
  \/ Completes(j, i) \/ Fails(j, i)
  \/ Returns(j, i) \/ Raises(j, i) \/ TimesOut(j, i)
  \/ (Cleanup(j, i) /\ UNCHANGED runs)

Quiet == UserStep \/ StopGateway \/ StartGateway
           \/ ((Stat \/ Clock) /\ UNCHANGED <<firings, inFlight, stops>>)

RunnerNext == RunnerTick \/ RunnerFiring \/ (Quiet /\ UNCHANGED runs)

(* The scheduler's fairness, and a session is over or is timed out. *)
RunnerFairness ==
  /\ WF_runnerVars(RunnerTick)
  /\ WF_runnerVars(Stat /\ UNCHANGED <<firings, inFlight, stops, runs>>)
  /\ \A j \in Jobs: \A i \in 1..MaxFirings:
       /\ WF_runnerVars(Completes(j, i) \/ Fails(j, i) \/ TimesOut(j, i))
       /\ WF_runnerVars(Returns(j, i) \/ Raises(j, i))
       /\ WF_runnerVars(Cleanup(j, i) /\ UNCHANGED runs)

RunnerSpec == RunnerInit /\ [][RunnerNext]_runnerVars /\ RunnerFairness

-----------------------------------------------------------------------------
(* cron_runner.py:156 "the scheduler's last_status / last_error and the      *)
(* Telegram push both stay in sync": a run recorded as ok was told as        *)
(* completed and one recorded as error as failed, except a firing that timed *)
(* out, of which the user hears only that it began; one told as over and not *)
(* recorded was cut off by a stop.                                           *)
RecordedIsTold ==
  \A j \in Jobs: \A i \in 1..Len(runs[j]):
    LET r == runs[j][i]
    IN /\ r.status = "ok"    => r.told = "cron_completed"
       /\ r.status = "error" => r.told \in {"cron_failed", "cron_fired"}
       /\ firings[j][i].state \in {"marked", "done"} => r.status # ""
=============================================================================
