------------------------ MODULE CronSchedulerProofs ------------------------
(* What the cron scheduler promises for every set of jobs and schedules, and *)
(* whatever is edited, reloaded or restarted meanwhile: first that firings   *)
(* do not overlap, then that edits and recorded firings are kept, then what  *)
(* its runner tells of each firing.                                          *)
EXTENDS CronRunner, TLAPS

(* Each mutation of a map of jobs gives a map of jobs. *)
LEMMA MutationTypes ==
  ASSUME NEW m, IsJobMap(m), now \in 0..MaxTime, NEW j \in Jobs
  PROVE  /\ \A s \in Schedules: IsJobMap(Added(m, j, s))
         /\ IsJobMap(Without(m, j))
         /\ j \in DOMAIN m =>
              /\ \A b \in BOOLEAN: IsJobMap(Enabled(m, j, b))
              /\ \A s \in Schedules: IsJobMap(Rescheduled(m, j, s))
              /\ IsJobMap(Marked(m, j))
PROOF
  <1>1. ASSUME NEW r \in Job PROVE IsJobMap(With(m, j, r))
    <2> DEFINE w == With(m, j, r)
    <2>1. DOMAIN w = DOMAIN m \union {j}
          /\ \A x \in DOMAIN m \union {j}: w[x] = IF x = j THEN r ELSE m[x]
      BY DEF With
    <2> HIDE DEF w
    <2> QED
      BY <2>1 DEF IsJobMap, w
  <1>2. \A s \in Schedules: IsJobMap(Added(m, j, s))
    <2>1. ASSUME NEW s \in Schedules
          PROVE  [sched |-> s, enabled |-> TRUE, created |-> now,
                  last |-> Never, once |-> s.kind = "at"] \in Job
      BY CronServiceAssumption DEF Job, Never
    <2> QED
      BY <2>1, <1>1 DEF Added
  <1>3. IsJobMap(Without(m, j))
    BY DEF Without, IsJobMap
  <1>4. ASSUME j \in DOMAIN m
        PROVE  /\ \A b \in BOOLEAN: IsJobMap(Enabled(m, j, b))
               /\ \A s \in Schedules: IsJobMap(Rescheduled(m, j, s))
               /\ IsJobMap(Marked(m, j))
    BY <1>1, <1>4, CronServiceAssumption DEF Enabled, Rescheduled, Marked, IsJobMap, Job, Never
  <1> QED
    BY <1>2, <1>3, <1>4

(* A write of a map of jobs by the gateway keeps the store's types. *)
LEMMA GatewayWriteTypes ==
  ASSUME StoreTypeOK, NEW m, IsJobMap(m), GatewayWrites(m)
  PROVE  /\ mem' = m /\ disk' = m /\ mustStat' \in BOOLEAN /\ stale' \in BOOLEAN
         /\ cli' = [on |-> cli.on, jobs |-> cli.jobs, fresh |-> FALSE]
  BY DEF GatewayWrites, StoreTypeOK

(* A user's edit in the gateway, or a command, keeps the store's types. *)
LEMMA UserTypes == ASSUME StoreTypeOK, ToolStep \/ CliStep PROVE StoreTypeOK'
PROOF
  <1> USE CronServiceAssumption
  <1>1. ASSUME NEW m, IsJobMap(m), NEW j \in Jobs, NEW v \in {"on", "off", "gone", "never"},
               GatewayEdit(m, j, v)
        PROVE  StoreTypeOK'
    <2>1. GatewayWrites(m)
      BY <1>1 DEF GatewayEdit
    <2>2. /\ mem' = m /\ disk' = m /\ mustStat' \in BOOLEAN /\ stale' \in BOOLEAN
          /\ cli' = [on |-> cli.on, jobs |-> cli.jobs, fresh |-> FALSE]
      BY <1>1, <2>1, GatewayWriteTypes
    <2>3. /\ edits' \in 0..MaxEdits /\ wanted' \in [Jobs -> {"on", "off", "gone", "never"}]
          /\ UNCHANGED <<now, synced, up>>
      BY <1>1 DEF GatewayEdit, StoreTypeOK
    <2>4. IsJobMap(mem') /\ IsJobMap(disk') /\ IsJobMap(cli'.jobs)
      BY <1>1, <2>2 DEF StoreTypeOK
    <2> QED
      BY <2>2, <2>3, <2>4 DEF StoreTypeOK, IsJobMap
  <1>2. ASSUME NEW m, IsJobMap(m), NEW j \in Jobs, NEW v \in {"on", "off", "gone"},
               CliEdit(m, j, v)
        PROVE  StoreTypeOK'
    <2>1. /\ disk' = m /\ cli' = Idle /\ synced' = FALSE /\ stale' \in BOOLEAN
          /\ UNCHANGED <<now, mem, mustStat, up>>
      BY <1>2 DEF CliEdit, StoreTypeOK
    <2>2. edits' \in 0..MaxEdits /\ wanted' \in [Jobs -> {"on", "off", "gone", "never"}]
      BY <1>2 DEF CliEdit, StoreTypeOK
    <2>3. /\ Idle.on = FALSE /\ Idle.jobs = NoJobs /\ Idle.fresh = FALSE
          /\ Idle = [on |-> Idle.on, jobs |-> Idle.jobs, fresh |-> Idle.fresh]
      BY DEF Idle
    <2>4. IsJobMap(NoJobs)
      BY DEF IsJobMap, NoJobs
    <2>5. IsJobMap(mem') /\ IsJobMap(disk') /\ IsJobMap(cli'.jobs)
      BY <1>2, <2>1, <2>3, <2>4 DEF StoreTypeOK
    <2> QED
      BY <2>1, <2>2, <2>3, <2>5 DEF StoreTypeOK, IsJobMap
  <1>3. CASE ToolStep
    BY <1>1, <1>3, MutationTypes DEF ToolStep, GatewayAdd, GatewayPause, GatewayUpdate,
       GatewayRemove, StoreTypeOK
  <1>4. CASE CliOpen
    BY <1>4 DEF CliOpen, StoreTypeOK, IsJobMap
  <1>5. CASE CliStep /\ ~CliOpen
    BY <1>2, <1>5, MutationTypes DEF CliStep, CliAdd, CliPause, CliRemove, StoreTypeOK
  <1> QED
    BY <1>3, <1>4, <1>5

(* The task of an active firing is the one _in_flight holds for its job. *)
ActiveIsInFlight == \A j \in Jobs: \A i \in Nat: Active(j, i) => inFlight[j] = i

Numbered == \A j \in Jobs: Len(firings[j]) <= MaxFirings

OverlapInv == TypeOK /\ Numbered /\ ActiveIsInFlight

(* No firing exists when the gateway is first started. *)
LEMMA OverlapInit == Init => OverlapInv
PROOF
  <1> SUFFICES ASSUME Init PROVE OverlapInv
    OBVIOUS
  <1> USE CronServiceAssumption, CronSchedulerAssumption
  <1>1. StoreTypeOK
    <2>1. IsJobMap(NoJobs)
      BY DEF IsJobMap, NoJobs
    <2>2. mem = NoJobs /\ disk = NoJobs /\ cli = [on |-> FALSE, jobs |-> NoJobs, fresh |-> FALSE]
      BY DEF Init, StoreInit, Idle
    <2>3. IsJobMap(mem) /\ IsJobMap(disk) /\ IsJobMap(cli.jobs)
      BY <2>1, <2>2
    <2>4. now = 0 /\ edits = 0 /\ wanted = [j \in Jobs |-> "never"]
          /\ synced = TRUE /\ mustStat = FALSE /\ up = TRUE /\ stale = FALSE
      BY DEF Init, StoreInit
    <2>5. /\ cli.on \in BOOLEAN /\ cli.fresh \in BOOLEAN
          /\ cli = [on |-> cli.on, jobs |-> cli.jobs, fresh |-> cli.fresh]
      BY <2>2
    <2>6. now \in 0..MaxTime /\ edits \in 0..MaxEdits
          /\ wanted \in [Jobs -> {"on", "off", "gone", "never"}]
      BY <2>4
    <2>7. synced \in BOOLEAN /\ mustStat \in BOOLEAN /\ up \in BOOLEAN /\ stale \in BOOLEAN
      BY <2>4
    <2> QED
      BY <2>3, <2>5, <2>6, <2>7 DEF StoreTypeOK
  <1>2. TypeOK /\ Numbered
    BY <1>1 DEF Init, TypeOK, Numbered
  <1>3. ActiveIsInFlight
    BY DEF Init, ActiveIsInFlight, Active, InState
  <1> QED
    BY <1>2, <1>3 DEF OverlapInv

(* A job the tick launches has no active firing. *)
LEMMA LaunchIsFree ==
  ASSUME OverlapInv, NEW j \in Jobs, inFlight[j] = 0 \/ Over(j), NEW i \in Nat
  PROVE  ~Active(j, i)
  BY DEF OverlapInv, TypeOK, ActiveIsInFlight, Active, InState, Over

(* A tick launches a job only when the task remembered for it is over. *)
LEMMA TickStep == ASSUME OverlapInv, Tick PROVE OverlapInv'
PROOF
  <1> USE CronSchedulerAssumption DEF OverlapInv, TypeOK, Numbered
  <1> DEFINE m == Reloaded
             launch == {j \in Due(m) : inFlight[j] = 0 \/ Over(j)}
             new(j) == [kind |-> m[j].sched.kind, once |-> m[j].once, state |-> "running"]
  <1>1. /\ mem' = m /\ synced' = TRUE
        /\ \A j \in launch: Len(firings[j]) < MaxFirings
        /\ firings' = [j \in Jobs |-> IF j \in launch THEN Append(firings[j], new(j))
                                      ELSE firings[j]]
        /\ inFlight' = [j \in Jobs |-> IF j \in launch THEN Len(firings[j]) + 1
                                       ELSE IF Over(j) THEN 0 ELSE inFlight[j]]
        /\ UNCHANGED <<now, disk, mustStat, cli, up, edits, wanted, stale, stops>>
    BY DEF Tick
  <1>2. IsJobMap(m)
    BY DEF Reloaded, StoreTypeOK
  <1>3. StoreTypeOK'
    BY <1>1, <1>2 DEF StoreTypeOK, IsJobMap
  <1>4. ASSUME NEW j \in launch
        PROVE  j \in Jobs /\ new(j) \in Firing
    BY <1>2, CronServiceAssumption DEF IsJobMap, Due, Job, Firing
  <1> HIDE DEF m, launch, new
  <1>5. ASSUME NEW j \in Jobs
        PROVE  /\ firings'[j] \in Seq(Firing) /\ Len(firings'[j]) <= MaxFirings
               /\ inFlight'[j] \in 0..MaxFirings
    BY <1>1, <1>4
  <1>6. TypeOK' /\ Numbered'
    BY <1>1, <1>3, <1>5
  <1>7. ASSUME NEW j \in Jobs, NEW i \in Nat, Active(j, i)' PROVE inFlight'[j] = i
    <2>1. CASE j \in launch
      <3>1. ~Active(j, i)
        BY <2>1, LaunchIsFree DEF launch
      <3>2. /\ firings'[j] = Append(firings[j], new(j)) /\ inFlight'[j] = Len(firings[j]) + 1
            /\ firings[j] \in Seq(Firing) /\ new(j) \in Firing
        BY <2>1, <1>1, <1>4
      <3>3. i \in 1..Len(firings[j]) => firings'[j][i] = firings[j][i]
        BY <3>2
      <3>4. i \in 1..(Len(firings[j]) + 1)
        BY <1>7, <3>2 DEF Active, InState
      <3> QED
        BY <1>7, <3>1, <3>2, <3>3, <3>4 DEF Active, InState
    <2>2. CASE j \notin launch
      <3>1. Active(j, i)
        BY <1>7, <2>2, <1>1 DEF Active, InState
      <3>2. inFlight[j] = i /\ ~Over(j)
        BY <3>1, LaunchIsFree DEF ActiveIsInFlight
      <3> QED
        BY <2>2, <3>2, <1>1
    <2> QED
      BY <2>1, <2>2
  <1> QED
    BY <1>6, <1>7 DEF ActiveIsInFlight

(* The end of a firing: its state moves on, its place in _in_flight stays. *)
LEMMA StateStep ==
  ASSUME OverlapInv, StoreTypeOK', NEW j \in Jobs, NEW i \in Nat, Active(j, i),
         NEW st \in {"marked", "done"}, SetState(j, i, st), UNCHANGED <<inFlight, stops>>
  PROVE  OverlapInv'
PROOF
  <1> USE DEF OverlapInv, TypeOK, Numbered
  <1>1. i \in 1..Len(firings[j]) /\ firings[j] \in Seq(Firing) /\ firings[j][i] \in Firing
    BY DEF Active, InState
  <1>2. firings' = [firings EXCEPT ![j] = [firings[j] EXCEPT ![i] =
                                            [firings[j][i] EXCEPT !.state = st]]]
    BY DEF SetState
  <1>3. [firings[j][i] EXCEPT !.state = st] \in Firing
    BY <1>1 DEF Firing
  <1>4. /\ firings'[j] \in Seq(Firing) /\ Len(firings'[j]) = Len(firings[j])
        /\ \A x \in 1..Len(firings[j]): x # i => firings'[j][x] = firings[j][x]
        /\ \A k \in Jobs: k # j => firings'[k] = firings[k]
    BY <1>1, <1>2, <1>3
  <1>5. TypeOK' /\ Numbered'
    BY <1>2, <1>4
  <1>6. ASSUME NEW k \in Jobs, NEW x \in Nat, Active(k, x)' PROVE inFlight'[k] = x
    <2>1. CASE k = j /\ x = i
      BY <2>1 DEF ActiveIsInFlight
    <2>2. CASE ~(k = j /\ x = i)
      BY <1>6, <2>2, <1>4 DEF ActiveIsInFlight, Active, InState
    <2> QED
      BY <2>1, <2>2
  <1> QED
    BY <1>5, <1>6 DEF ActiveIsInFlight

(* A firing that ends, or cleans up, changes no other firing. *)
LEMMA FiringStepKeeps ==
  ASSUME OverlapInv, NEW j \in Jobs, NEW i \in 1..MaxFirings,
         FiringOk(j, i) \/ FiringFailed(j, i) \/ Cleanup(j, i)
  PROVE  OverlapInv'
PROOF
  <1> USE CronServiceAssumption, CronSchedulerAssumption
  <1>0. StoreTypeOK /\ now \in 0..MaxTime /\ i \in Nat
    BY DEF OverlapInv, TypeOK, StoreTypeOK
  <1>1. ASSUME NEW m, IsJobMap(m), GatewayWrites(m), UNCHANGED <<now, synced, up, edits>>,
               wanted' \in [Jobs -> {"on", "off", "gone", "never"}]
        PROVE  StoreTypeOK'
    <2>1. /\ mem' = m /\ disk' = m /\ mustStat' \in BOOLEAN /\ stale' \in BOOLEAN
          /\ cli' = [on |-> cli.on, jobs |-> cli.jobs, fresh |-> FALSE]
      BY <1>0, <1>1, GatewayWriteTypes
    <2> QED
      BY <1>0, <1>1, <2>1 DEF StoreTypeOK, IsJobMap
  <1>2. ASSUME UNCHANGED <<now, mem, disk, synced, mustStat, cli, up, edits, wanted, stale>>
        PROVE  StoreTypeOK'
    BY <1>0, <1>2 DEF StoreTypeOK, IsJobMap
  <1>3. CASE FiringOk(j, i) \/ FiringFailed(j, i)
    <2>1. MarkRun(j) /\ UNCHANGED <<now, synced, up, edits, wanted, inFlight, stops>>
      BY <1>3 DEF FiringOk, FiringFailed
    <2>2. ASSUME j \in DOMAIN mem PROVE StoreTypeOK'
      <3>1. IsJobMap(Marked(mem, j)) /\ GatewayWrites(Marked(mem, j))
        BY <2>1, <2>2, <1>0, MutationTypes DEF MarkRun, StoreTypeOK
      <3>2. wanted' \in [Jobs -> {"on", "off", "gone", "never"}]
        BY <2>1, <1>0 DEF StoreTypeOK
      <3> QED
        BY <2>1, <3>1, <3>2, <1>1
    <2>3. ASSUME j \notin DOMAIN mem PROVE StoreTypeOK'
      BY <2>1, <2>3, <1>2 DEF MarkRun
    <2>4. StoreTypeOK'
      BY <2>2, <2>3
    <2>5. \E st \in {"marked", "done"}: SetState(j, i, st)
      BY <1>3 DEF FiringOk, FiringFailed
    <2>6. Active(j, i)
      BY <1>3 DEF FiringOk, FiringFailed, Active
    <2> QED
      BY <1>0, <2>1, <2>4, <2>5, <2>6, StateStep
  <1>4. CASE Cleanup(j, i)
    <2>1. /\ UNCHANGED <<now, synced, up, edits, inFlight, stops>>
          /\ SetState(j, i, "done") /\ Active(j, i)
      BY <1>4 DEF Cleanup, Active
    <2>2. ASSUME j \in DOMAIN mem PROVE StoreTypeOK'
      <3>1. IsJobMap(Without(mem, j)) /\ GatewayWrites(Without(mem, j))
        BY <1>4, <2>2, <1>0, MutationTypes DEF Cleanup, StoreTypeOK
      <3>2. wanted' \in [Jobs -> {"on", "off", "gone", "never"}]
        BY <1>4, <2>2, <1>0 DEF Cleanup, StoreTypeOK
      <3> QED
        BY <2>1, <3>1, <3>2, <1>1
    <2>3. ASSUME j \notin DOMAIN mem PROVE StoreTypeOK'
      BY <1>4, <2>1, <2>3, <1>2 DEF Cleanup
    <2> QED
      BY <1>0, <2>1, <2>2, <2>3, StateStep
  <1> QED
    BY <1>3, <1>4

(* Stopping cuts every active firing short; starting finds none. *)
LEMMA StopStep == ASSUME OverlapInv, StopGateway PROVE OverlapInv'
PROOF
  <1> USE DEF OverlapInv, TypeOK, Numbered
  <1>1. IsJobMap(NoJobs)
    BY DEF IsJobMap, NoJobs
  <1>2. StoreTypeOK'
    BY <1>1 DEF StopGateway, StoreTypeOK, IsJobMap
  <1>3. ASSUME NEW j \in Jobs
        PROVE  /\ firings'[j] \in Seq(Firing) /\ Len(firings'[j]) = Len(firings[j])
               /\ \A i \in 1..Len(firings[j]): firings'[j][i].state \in {"done", "lost"}
    <2> DEFINE g == [i \in 1..Len(firings[j]) |->
                       IF firings[j][i].state \in {"running", "marked"}
                       THEN [firings[j][i] EXCEPT !.state = "lost"] ELSE firings[j][i]]
    <2>1. firings'[j] = g
      BY DEF StopGateway
    <2>2. firings[j] \in Seq(Firing) /\ Len(firings[j]) \in Nat
      OBVIOUS
    <2>3. \A i \in 1..Len(firings[j]): g[i] \in Firing /\ g[i].state \in {"done", "lost"}
      <3> SUFFICES ASSUME NEW i \in 1..Len(firings[j])
                   PROVE  g[i] \in Firing /\ g[i].state \in {"done", "lost"}
        OBVIOUS
      <3>1. firings[j][i] \in Firing
        BY <2>2
      <3>2. [firings[j][i] EXCEPT !.state = "lost"] \in Firing
        BY <3>1 DEF Firing
      <3> QED
        BY <3>1, <3>2 DEF Firing
    <2> HIDE DEF g
    <2>4. DOMAIN g = 1..Len(firings[j])
      BY DEF g
    <2>5. g = [i \in 1..Len(firings[j]) |-> g[i]]
      BY DEF g
    <2>6. g \in Seq(Firing) /\ Len(g) = Len(firings[j])
      BY <2>2, <2>3, <2>4, <2>5
    <2> QED
      BY <2>1, <2>3, <2>6
  <1>4. TypeOK' /\ Numbered'
    <2>1. /\ stops' \in 0..MaxStops /\ inFlight' \in [Jobs -> 0..MaxFirings]
          /\ firings' = [j \in Jobs |-> firings'[j]]
      BY CronSchedulerAssumption DEF StopGateway
    <2> QED
      BY <1>2, <1>3, <2>1
  <1>5. ActiveIsInFlight'
    BY <1>3 DEF ActiveIsInFlight, Active, InState
  <1> QED
    BY <1>4, <1>5

(* Edits, commands, the clock, a stop and a start launch nothing. *)
LEMMA OtherStep ==
  ASSUME OverlapInv, UNCHANGED <<firings, inFlight, stops>>, StoreTypeOK' PROVE OverlapInv'
  BY DEF OverlapInv, TypeOK, Numbered, ActiveIsInFlight, Active, InState

(* Every step keeps the overlap invariant. *)
LEMMA OverlapStep == ASSUME OverlapInv, [Next]_vars PROVE OverlapInv'
PROOF
  <1>1. StoreTypeOK
    BY DEF OverlapInv, TypeOK
  <1>2. CASE UserStep
    BY <1>1, <1>2, UserTypes, OtherStep DEF UserStep
  <1>3. CASE FiringStep
    BY <1>3, FiringStepKeeps DEF FiringStep
  <1>4. CASE Tick
    BY <1>4, TickStep
  <1>5. CASE (Stat \/ Clock) /\ UNCHANGED <<firings, inFlight, stops>>
    <2>1. StoreTypeOK'
      <3>1. CASE Stat
        BY <1>1, <3>1 DEF Stat, StoreTypeOK, IsJobMap
      <3>2. CASE Clock
        <4>1. now' \in 0..MaxTime
          BY <1>1, <3>2, CronServiceAssumption DEF Clock, StoreTypeOK
        <4> QED
          BY <1>1, <3>2, <4>1 DEF Clock, StoreTypeOK, IsJobMap
      <3> QED
        BY <1>5, <3>1, <3>2
    <2> QED
      BY <1>5, <2>1, OtherStep
  <1>6. CASE StopGateway
    BY <1>6, StopStep
  <1>7. CASE StartGateway
    <2>1. StoreTypeOK'
      BY <1>1, <1>7 DEF StartGateway, StoreTypeOK, IsJobMap
    <2> QED
      BY <1>7, <2>1, OtherStep DEF StartGateway
  <1>8. CASE UNCHANGED vars
    <2>1. StoreTypeOK'
      BY <1>1, <1>8 DEF vars, storeVars, StoreTypeOK, IsJobMap
    <2> QED
      BY <1>8, <2>1, OtherStep DEF vars
  <1> QED
    BY <1>2, <1>3, <1>4, <1>5, <1>6, <1>7, <1>8 DEF Next

(* Every reachable state satisfies the overlap invariant. *)
THEOREM Invariance == Spec => []OverlapInv
PROOF
  <1>1. OverlapInv /\ [Next]_vars => OverlapInv'
    BY OverlapStep
  <1> QED
    BY <1>1, OverlapInit, PTL DEF Spec

(* The variables keep their types: whatever is edited or reloaded, memory,  *)
(* file and command hold well-formed records.                               *)
THEOREM TypeCorrect == Spec => []TypeOK
  BY Invariance, PTL DEF OverlapInv

(* No two firings of one job are ever at work together (tick's _in_flight   *)
(* test), for any number of jobs, edits, commands and restarts.             *)
THEOREM FiringsDoNotOverlap == Spec => []NoOverlap
PROOF
  <1>1. OverlapInv => NoOverlap
    BY CronSchedulerAssumption DEF OverlapInv, ActiveIsInFlight, NoOverlap
  <1> QED
    BY <1>1, Invariance, PTL

-----------------------------------------------------------------------------
(* One firing moves on to another state. *)
LEMMA FiringSet ==
  ASSUME OverlapInv, NEW j \in Jobs, NEW i \in 1..Len(firings[j]), NEW st, SetState(j, i, st)
  PROVE  /\ \A k \in Jobs: Len(firings'[k]) = Len(firings[k])
         /\ \A k \in Jobs: \A x \in 1..Len(firings[k]):
              /\ firings'[k][x].state = IF k = j /\ x = i THEN st ELSE firings[k][x].state
              /\ firings'[k][x].kind = firings[k][x].kind
         /\ \A k \in Jobs \ {j}: firings'[k] = firings[k]
PROOF
  <1>1. firings \in [Jobs -> Seq(Firing)]
    BY DEF OverlapInv, TypeOK
  <1>2. firings' = [firings EXCEPT ![j] = [firings[j] EXCEPT ![i] =
                                            [firings[j][i] EXCEPT !.state = st]]]
    BY DEF SetState
  <1>3. firings[j][i] \in Firing
    BY <1>1
  <1>4. /\ [firings[j][i] EXCEPT !.state = st].state = st
        /\ [firings[j][i] EXCEPT !.state = st].kind = firings[j][i].kind
    BY <1>3 DEF Firing
  <1> QED
    BY <1>1, <1>2, <1>4

(* A snapshot a command may write without making anything stale is the file. *)
FreshIsDisk == cli.on /\ cli.fresh => cli.jobs = disk

(* A job no mutation was acknowledged for is nowhere. *)
UnusedIsUnknown ==
  \A j \in Jobs: Unused(j) => /\ j \notin DOMAIN mem /\ j \notin DOMAIN disk
                              /\ j \notin DOMAIN cli.jobs /\ firings[j] = <<>>

Ended(j, i) == InState(j, i, "marked") \/ InState(j, i, "done")

(* In m, a job whose one-shot firing was recorded is not due as a one-shot. *)
Spent(m) == \A j \in DOMAIN m: \A i \in Nat:
              j \in Jobs /\ Ended(j, i) /\ firings[j][i].kind = "at" => m[j].last # Never

(* A job that has fired and is in the file is in the gateway's memory too. *)
FiredIsKnown == up => \A j \in Jobs: firings[j] # <<>> /\ j \in DOMAIN disk => j \in DOMAIN mem

StoreInv ==
  /\ OverlapInv /\ UnusedIsUnknown
  /\ ~stale => /\ FreshIsDisk /\ NoMutationLost
               /\ (up => Spent(mem)) /\ Spent(disk) /\ FiredIsKnown
               /\ OneShotOnce

(* What adding, removing, pausing, rescheduling and marking a job do to the  *)
(* domain of the map, to what it says of each job and to the recorded times. *)
LEMMA AddedFacts ==
  ASSUME NEW m, NEW j \in Jobs, NEW s \in Schedules
  PROVE  /\ DOMAIN Added(m, j, s) = DOMAIN m \union {j}
         /\ View(Added(m, j, s), j) = "on"
         /\ \A k \in Jobs \ {j}: View(Added(m, j, s), k) = View(m, k)
         /\ \A k \in DOMAIN m \ {j}: Added(m, j, s)[k] = m[k]
PROOF
  <1> DEFINE r == [sched |-> s, enabled |-> TRUE, created |-> now,
                   last |-> Never, once |-> s.kind = "at"]
  <1>1. r.enabled
    OBVIOUS
  <1> HIDE DEF r
  <1>2. Added(m, j, s) = With(m, j, r)
    BY DEF Added, r
  <1>3. /\ DOMAIN With(m, j, r) = DOMAIN m \union {j}
        /\ With(m, j, r)[j] = r
        /\ \A k \in DOMAIN m \ {j}: With(m, j, r)[k] = m[k]
        /\ View(With(m, j, r), j) = IF r.enabled THEN "on" ELSE "off"
        /\ \A k \in Jobs \ {j}: View(With(m, j, r), k) = View(m, k)
    BY DEF With, View
  <1> QED
    BY <1>1, <1>2, <1>3

LEMMA WithoutFacts ==
  ASSUME NEW m, NEW j \in Jobs
  PROVE  /\ DOMAIN Without(m, j) = DOMAIN m \ {j}
         /\ View(Without(m, j), j) = "gone"
         /\ \A k \in Jobs \ {j}: View(Without(m, j), k) = View(m, k)
         /\ \A k \in DOMAIN m \ {j}: Without(m, j)[k] = m[k]
  BY DEF Without, View

LEMMA Replaced ==
  ASSUME NEW m, IsJobMap(m), NEW j \in DOMAIN m, NEW r
  PROVE  /\ j \in Jobs /\ m[j] \in Job
         /\ DOMAIN With(m, j, r) = DOMAIN m
         /\ View(With(m, j, r), j) = IF r.enabled THEN "on" ELSE "off"
         /\ View(m, j) = IF m[j].enabled THEN "on" ELSE "off"
         /\ \A k \in Jobs \ {j}: View(With(m, j, r), k) = View(m, k)
         /\ With(m, j, r)[j] = r /\ \A k \in DOMAIN m \ {j}: With(m, j, r)[k] = m[k]
PROOF
  <1>1. j \in Jobs /\ m[j] \in Job /\ DOMAIN m \union {j} = DOMAIN m
    BY DEF IsJobMap
  <1>2. View(m, j) = IF m[j].enabled THEN "on" ELSE "off"
    BY DEF View
  <1>3. /\ DOMAIN With(m, j, r) = DOMAIN m \union {j}
        /\ With(m, j, r)[j] = r
        /\ \A k \in DOMAIN m \ {j}: With(m, j, r)[k] = m[k]
        /\ View(With(m, j, r), j) = IF r.enabled THEN "on" ELSE "off"
        /\ \A k \in Jobs \ {j}: View(With(m, j, r), k) = View(m, k)
    BY <1>1 DEF With, View
  <1> QED
    BY <1>1, <1>2, <1>3

LEMMA EnabledFacts ==
  ASSUME NEW m, IsJobMap(m), NEW j \in DOMAIN m, NEW b \in BOOLEAN
  PROVE  /\ DOMAIN Enabled(m, j, b) = DOMAIN m
         /\ View(Enabled(m, j, b), j) = IF b THEN "on" ELSE "off"
         /\ \A k \in Jobs \ {j}: View(Enabled(m, j, b), k) = View(m, k)
         /\ \A k \in DOMAIN m: Enabled(m, j, b)[k].last = m[k].last
PROOF
  <1> DEFINE r == [m[j] EXCEPT !.enabled = b]
  <1>1. m[j] \in Job
    BY Replaced
  <1>2. r.enabled = b /\ r.last = m[j].last
    BY <1>1 DEF Job
  <1> HIDE DEF r
  <1>3. Enabled(m, j, b) = With(m, j, r)
    BY DEF Enabled, r
  <1>4. /\ j \in Jobs /\ DOMAIN With(m, j, r) = DOMAIN m
        /\ View(With(m, j, r), j) = IF r.enabled THEN "on" ELSE "off"
        /\ View(m, j) = IF m[j].enabled THEN "on" ELSE "off"
        /\ \A k \in Jobs \ {j}: View(With(m, j, r), k) = View(m, k)
        /\ With(m, j, r)[j] = r /\ \A k \in DOMAIN m \ {j}: With(m, j, r)[k] = m[k]
    BY Replaced
  <1>5. \A k \in DOMAIN m: With(m, j, r)[k].last = m[k].last
    BY <1>2, <1>4
  <1> QED
    BY <1>2, <1>3, <1>4, <1>5

LEMMA RescheduledFacts ==
  ASSUME NEW m, IsJobMap(m), NEW j \in DOMAIN m, NEW s \in Schedules
  PROVE  /\ DOMAIN Rescheduled(m, j, s) = DOMAIN m
         /\ \A k \in Jobs: View(Rescheduled(m, j, s), k) = View(m, k)
         /\ \A k \in DOMAIN m: Rescheduled(m, j, s)[k].last = m[k].last
PROOF
  <1> DEFINE r == [m[j] EXCEPT !.sched = s]
  <1>1. m[j] \in Job
    BY Replaced
  <1>2. r.enabled = m[j].enabled /\ r.last = m[j].last
    BY <1>1 DEF Job
  <1> HIDE DEF r
  <1>3. Rescheduled(m, j, s) = With(m, j, r)
    BY DEF Rescheduled, r
  <1>4. /\ j \in Jobs /\ DOMAIN With(m, j, r) = DOMAIN m
        /\ View(With(m, j, r), j) = IF r.enabled THEN "on" ELSE "off"
        /\ View(m, j) = IF m[j].enabled THEN "on" ELSE "off"
        /\ \A k \in Jobs \ {j}: View(With(m, j, r), k) = View(m, k)
        /\ With(m, j, r)[j] = r /\ \A k \in DOMAIN m \ {j}: With(m, j, r)[k] = m[k]
    BY Replaced
  <1>5. \A k \in DOMAIN m: With(m, j, r)[k].last = m[k].last
    BY <1>2, <1>4
  <1> QED
    BY <1>2, <1>3, <1>4, <1>5

LEMMA MarkedFacts ==
  ASSUME NEW m, IsJobMap(m), NEW j \in DOMAIN m
  PROVE  /\ DOMAIN Marked(m, j) = DOMAIN m
         /\ \A k \in Jobs: View(Marked(m, j), k) = View(m, k)
         /\ Marked(m, j)[j].last = now
         /\ \A k \in DOMAIN m \ {j}: Marked(m, j)[k] = m[k]
PROOF
  <1> DEFINE r == [m[j] EXCEPT !.last = now]
  <1>1. m[j] \in Job
    BY Replaced
  <1>2. r.enabled = m[j].enabled /\ r.last = now
    BY <1>1 DEF Job
  <1> HIDE DEF r
  <1>3. Marked(m, j) = With(m, j, r)
    BY DEF Marked, r
  <1> QED
    BY <1>2, <1>3, Replaced

(* m is the map b after a mutation that told its user v of job j. *)
Mutation(b, m, j, v) ==
  /\ DOMAIN m \subseteq DOMAIN b \union {j} /\ (Unused(j) \/ j \in DOMAIN b)
  /\ v # "never" /\ (~stale /\ b = disk => View(m, j) = v)
  /\ \A k \in Jobs \ {j}: View(m, k) = View(b, k)
  /\ \A k \in DOMAIN m \cap DOMAIN b: m[k].last = b[k].last

(* What a user does through the gateway is a mutation of its memory. *)
LEMMA ToolMutates ==
  ASSUME StoreInv, ToolStep
  PROVE  \E m: \E j \in Jobs: \E v: GatewayEdit(m, j, v) /\ Mutation(mem, m, j, v)
PROOF
  <1>1. IsJobMap(mem) /\ \A j \in DOMAIN mem: j \in Jobs
    BY DEF StoreInv, OverlapInv, TypeOK, StoreTypeOK, IsJobMap
  <1>2. CASE \E j \in Jobs, s \in Schedules: GatewayAdd(j, s)
    <2>1. PICK j \in Jobs, s \in Schedules: Unused(j) /\ GatewayEdit(Added(mem, j, s), j, "on")
      BY <1>2 DEF GatewayAdd
    <2>2. j \notin DOMAIN mem
      BY <2>1 DEF StoreInv, UnusedIsUnknown
    <2>3. /\ DOMAIN Added(mem, j, s) = DOMAIN mem \union {j} /\ View(Added(mem, j, s), j) = "on"
          /\ \A k \in Jobs \ {j}: View(Added(mem, j, s), k) = View(mem, k)
          /\ \A k \in DOMAIN mem \ {j}: Added(mem, j, s)[k] = mem[k]
      BY <1>1, <2>1, <2>2, AddedFacts
    <2>4. Mutation(mem, Added(mem, j, s), j, "on")
      BY <1>1, <2>1, <2>2, <2>3 DEF Mutation
    <2> QED
      BY <2>1, <2>4
  <1>3. CASE \E j \in Jobs, s \in Schedules: GatewayUpdate(j, s)
    <2>1. PICK j \in Jobs, s \in Schedules:
            j \in DOMAIN mem /\ GatewayEdit(Rescheduled(mem, j, s), j, wanted[j])
      BY <1>3 DEF GatewayUpdate
    <2>2. wanted[j] # "never"
      BY <2>1 DEF StoreInv, UnusedIsUnknown, Unused
    <2>3. ~stale /\ mem = disk => View(mem, j) = wanted[j]
      BY <2>2 DEF StoreInv, NoMutationLost
    <2>4. /\ DOMAIN Rescheduled(mem, j, s) = DOMAIN mem
          /\ \A k \in Jobs: View(Rescheduled(mem, j, s), k) = View(mem, k)
          /\ \A k \in DOMAIN mem: Rescheduled(mem, j, s)[k].last = mem[k].last
      BY <1>1, <2>1, <2>2, <2>3, RescheduledFacts
    <2>5. Mutation(mem, Rescheduled(mem, j, s), j, wanted[j])
      BY <1>1, <2>1, <2>2, <2>3, <2>4 DEF Mutation
    <2> QED
      BY <2>1, <2>5
  <1>4. CASE \E j \in Jobs, b \in BOOLEAN: GatewayPause(j, b)
    <2>1. PICK j \in Jobs, b \in BOOLEAN:
            j \in DOMAIN mem /\ GatewayEdit(Enabled(mem, j, b), j, IF b THEN "on" ELSE "off")
      BY <1>4 DEF GatewayPause
    <2>2. /\ DOMAIN Enabled(mem, j, b) = DOMAIN mem
          /\ View(Enabled(mem, j, b), j) = IF b THEN "on" ELSE "off"
          /\ \A k \in Jobs \ {j}: View(Enabled(mem, j, b), k) = View(mem, k)
          /\ \A k \in DOMAIN mem: Enabled(mem, j, b)[k].last = mem[k].last
      BY <1>1, <2>1, EnabledFacts
    <2>3. Mutation(mem, Enabled(mem, j, b), j, IF b THEN "on" ELSE "off")
      BY <1>1, <2>1, <2>2 DEF Mutation
    <2> QED
      BY <2>1, <2>3
  <1>5. CASE \E j \in Jobs: GatewayRemove(j)
    <2>1. PICK j \in Jobs: j \in DOMAIN mem /\ GatewayEdit(Without(mem, j), j, "gone")
      BY <1>5 DEF GatewayRemove
    <2>2. /\ DOMAIN Without(mem, j) = DOMAIN mem \ {j} /\ View(Without(mem, j), j) = "gone"
          /\ \A k \in Jobs \ {j}: View(Without(mem, j), k) = View(mem, k)
          /\ \A k \in DOMAIN mem \ {j}: Without(mem, j)[k] = mem[k]
      BY <1>1, <2>1, WithoutFacts
    <2>3. Mutation(mem, Without(mem, j), j, "gone")
      BY <1>1, <2>1, <2>2 DEF Mutation
    <2> QED
      BY <2>1, <2>3
  <1> QED
    BY <1>2, <1>3, <1>4, <1>5 DEF ToolStep

(* What a command writes is a mutation of the copy it read. *)
LEMMA CliMutates ==
  ASSUME StoreInv, CliStep, ~CliOpen
  PROVE  \E m: \E j \in Jobs: \E v: CliEdit(m, j, v) /\ Mutation(cli.jobs, m, j, v)
PROOF
  <1>1. IsJobMap(cli.jobs) /\ \A j \in DOMAIN cli.jobs: j \in Jobs
    BY DEF StoreInv, OverlapInv, TypeOK, StoreTypeOK, IsJobMap
  <1>2. CASE \E j \in Jobs, s \in Schedules: CliAdd(j, s)
    <2>1. PICK j \in Jobs, s \in Schedules: Unused(j) /\ CliEdit(Added(cli.jobs, j, s), j, "on")
      BY <1>2 DEF CliAdd
    <2>2. j \notin DOMAIN cli.jobs
      BY <2>1 DEF StoreInv, UnusedIsUnknown
    <2>3. /\ DOMAIN Added(cli.jobs, j, s) = DOMAIN cli.jobs \union {j}
          /\ View(Added(cli.jobs, j, s), j) = "on"
          /\ \A k \in Jobs \ {j}: View(Added(cli.jobs, j, s), k) = View(cli.jobs, k)
          /\ \A k \in DOMAIN cli.jobs \ {j}: Added(cli.jobs, j, s)[k] = cli.jobs[k]
      BY <1>1, <2>1, <2>2, AddedFacts
    <2>4. Mutation(cli.jobs, Added(cli.jobs, j, s), j, "on")
      BY <1>1, <2>1, <2>2, <2>3 DEF Mutation
    <2> QED
      BY <2>1, <2>4
  <1>3. CASE \E j \in Jobs, b \in BOOLEAN: CliPause(j, b)
    <2>1. PICK j \in Jobs, b \in BOOLEAN:
            /\ j \in DOMAIN cli.jobs
            /\ CliEdit(Enabled(cli.jobs, j, b), j, IF b THEN "on" ELSE "off")
      BY <1>3 DEF CliPause
    <2>2. /\ DOMAIN Enabled(cli.jobs, j, b) = DOMAIN cli.jobs
          /\ View(Enabled(cli.jobs, j, b), j) = IF b THEN "on" ELSE "off"
          /\ \A k \in Jobs \ {j}: View(Enabled(cli.jobs, j, b), k) = View(cli.jobs, k)
          /\ \A k \in DOMAIN cli.jobs: Enabled(cli.jobs, j, b)[k].last = cli.jobs[k].last
      BY <1>1, <2>1, EnabledFacts
    <2>3. Mutation(cli.jobs, Enabled(cli.jobs, j, b), j, IF b THEN "on" ELSE "off")
      BY <1>1, <2>1, <2>2 DEF Mutation
    <2> QED
      BY <2>1, <2>3
  <1>4. CASE \E j \in Jobs: CliRemove(j)
    <2>1. PICK j \in Jobs: j \in DOMAIN cli.jobs /\ CliEdit(Without(cli.jobs, j), j, "gone")
      BY <1>4 DEF CliRemove
    <2>2. /\ DOMAIN Without(cli.jobs, j) = DOMAIN cli.jobs \ {j}
          /\ View(Without(cli.jobs, j), j) = "gone"
          /\ \A k \in Jobs \ {j}: View(Without(cli.jobs, j), k) = View(cli.jobs, k)
          /\ \A k \in DOMAIN cli.jobs \ {j}: Without(cli.jobs, j)[k] = cli.jobs[k]
      BY <1>1, <2>1, WithoutFacts
    <2>3. Mutation(cli.jobs, Without(cli.jobs, j), j, "gone")
      BY <1>1, <2>1, <2>2 DEF Mutation
    <2> QED
      BY <2>1, <2>3
  <1> QED
    BY <1>2, <1>3, <1>4 DEF CliStep

(* A mutation leaves a spent one-shot spent: a job it adds has never fired. *)
LEMMA MutationKeepsSpent ==
  ASSUME StoreInv, NEW b, NEW m, NEW j \in Jobs, NEW v, Mutation(b, m, j, v), Spent(b)
  PROVE  Spent(m)
PROOF
  <1> SUFFICES ASSUME NEW k \in DOMAIN m, NEW i \in Nat, k \in Jobs, Ended(k, i),
                      firings[k][i].kind = "at"
               PROVE  m[k].last # Never
    BY DEF Spent
  <1>1. firings[k] # <<>>
    BY DEF Ended, InState
  <1>2. ~Unused(k)
    BY <1>1 DEF StoreInv, UnusedIsUnknown
  <1>3. k \in DOMAIN b /\ m[k].last = b[k].last
    BY <1>2 DEF Mutation
  <1> QED
    BY <1>3 DEF Spent

(* A user's edit in the gateway keeps the store's invariant. *)
LEMMA GatewayEditStep ==
  ASSUME StoreInv, OverlapInv', UNCHANGED firings,
         NEW m, NEW j \in Jobs, NEW v, GatewayEdit(m, j, v), Mutation(mem, m, j, v)
  PROVE  StoreInv'
PROOF
  <1> USE DEF StoreInv
  <1>1. /\ mem' = m /\ disk' = m /\ wanted' = [wanted EXCEPT ![j] = v] /\ up' = up /\ up = TRUE
        /\ cli' = [cli EXCEPT !.fresh = FALSE] /\ stale' = (stale \/ ~synced \/ mem # disk)
        /\ now' = now
    BY DEF GatewayEdit, GatewayWrites, GatewayReady
  <1>2. cli'.fresh = FALSE /\ cli'.jobs = cli.jobs
    BY <1>1 DEF OverlapInv, TypeOK, StoreTypeOK
  <1>3. /\ DOMAIN wanted = Jobs /\ wanted'[j] = v
        /\ \A k \in Jobs \ {j}: wanted'[k] = wanted[k]
    BY <1>1 DEF OverlapInv, TypeOK, StoreTypeOK
  <1>4. UnusedIsUnknown'
    BY <1>1, <1>2, <1>3 DEF UnusedIsUnknown, Unused, Mutation
  <1>5. ASSUME ~stale'
        PROVE  (FreshIsDisk /\ NoMutationLost /\ (up => Spent(mem)) /\ Spent(disk)
                /\ FiredIsKnown /\ OneShotOnce)'
    <2>1. ~stale /\ mem = disk
      BY <1>1, <1>5
    <2>2. FreshIsDisk' /\ FiredIsKnown' /\ OneShotOnce'
      BY <1>1, <1>2, <2>1 DEF FreshIsDisk, FiredIsKnown, OneShotOnce
    <2>3. ASSUME NEW k \in Jobs
          PROVE  View(m, k) = IF wanted'[k] = "never" THEN "gone" ELSE wanted'[k]
      BY <1>3, <2>1 DEF Mutation, NoMutationLost
    <2>4. NoMutationLost'
      BY <1>1, <2>3 DEF NoMutationLost, View
    <2>5. Spent(m)
      BY <2>1, MutationKeepsSpent
    <2>6. Spent(mem)' /\ Spent(disk)'
      BY <1>1, <2>5 DEF Spent, Ended, InState, Never
    <2> QED
      BY <2>2, <2>4, <2>6
  <1> QED
    BY <1>4, <1>5

(* So does a command's. *)
LEMMA CliEditStep ==
  ASSUME StoreInv, OverlapInv', UNCHANGED firings,
         NEW m, NEW j \in Jobs, NEW v, CliEdit(m, j, v), Mutation(cli.jobs, m, j, v)
  PROVE  StoreInv'
PROOF
  <1> USE DEF StoreInv
  <1>1. /\ mem' = mem /\ disk' = m /\ wanted' = [wanted EXCEPT ![j] = v] /\ up' = up
        /\ cli' = Idle /\ stale' = (stale \/ ~cli.fresh) /\ now' = now /\ cli.on
    BY DEF CliEdit
  <1>2. cli'.on = FALSE /\ cli'.jobs = NoJobs /\ DOMAIN NoJobs = {}
    BY <1>1 DEF Idle, NoJobs
  <1>3. /\ DOMAIN wanted = Jobs /\ wanted'[j] = v
        /\ \A k \in Jobs \ {j}: wanted'[k] = wanted[k]
    BY <1>1 DEF OverlapInv, TypeOK, StoreTypeOK
  <1>4. UnusedIsUnknown'
    BY <1>1, <1>2, <1>3 DEF UnusedIsUnknown, Unused, Mutation
  <1>5. ASSUME ~stale'
        PROVE  (FreshIsDisk /\ NoMutationLost /\ (up => Spent(mem)) /\ Spent(disk)
                /\ FiredIsKnown /\ OneShotOnce)'
    <2>1. ~stale /\ cli.jobs = disk
      BY <1>1, <1>5 DEF FreshIsDisk
    <2>2. FreshIsDisk' /\ OneShotOnce'
      BY <1>1, <1>2, <2>1 DEF FreshIsDisk, OneShotOnce
    <2>3. ASSUME NEW k \in Jobs
          PROVE  View(m, k) = IF wanted'[k] = "never" THEN "gone" ELSE wanted'[k]
      BY <1>3, <2>1 DEF Mutation, NoMutationLost
    <2>4. NoMutationLost'
      BY <1>1, <2>3 DEF NoMutationLost, View
    <2>5. Spent(m)
      BY <2>1, MutationKeepsSpent
    <2>6. (up => Spent(mem))' /\ Spent(disk)'
      BY <1>1, <2>1, <2>5 DEF Spent, Ended, InState, Never
    <2>7. FiredIsKnown'
      BY <1>1, <2>1 DEF FiredIsKnown, UnusedIsUnknown, Mutation
    <2> QED
      BY <2>2, <2>4, <2>6, <2>7
  <1> QED
    BY <1>4, <1>5

(* The end of one firing, or of its cleanup, makes no firing and revives none. *)
LEMMA StateKeeps ==
  ASSUME OverlapInv, NEW j \in Jobs, NEW i \in 1..Len(firings[j]), NEW st,
         SetState(j, i, st), firings[j][i].state # "lost", stale => stale'
  PROVE  /\ \A k \in Jobs: (firings'[k] = <<>>) <=> (firings[k] = <<>>)
         /\ \A k \in Jobs: \A x \in Nat:
              ~(k = j /\ x = i) /\ Ended(k, x)' => Ended(k, x)
         /\ \A k \in Jobs: \A x \in 1..Len(firings[k]): firings'[k][x].kind = firings[k][x].kind
         /\ OneShotOnce => OneShotOnce'
PROOF
  <1>1. /\ \A k \in Jobs: Len(firings'[k]) = Len(firings[k])
        /\ \A k \in Jobs: \A x \in 1..Len(firings[k]):
             /\ firings'[k][x].state = IF k = j /\ x = i THEN st ELSE firings[k][x].state
             /\ firings'[k][x].kind = firings[k][x].kind
        /\ \A k \in Jobs \ {j}: firings'[k] = firings[k]
    BY FiringSet
  <1>2. firings[j] # <<>> /\ firings'[j] # <<>>
    BY <1>1
  <1>3. \A k \in Jobs: (firings'[k] = <<>>) <=> (firings[k] = <<>>)
    BY <1>1, <1>2
  <1>4. \A k \in Jobs: \A x \in Nat: ~(k = j /\ x = i) /\ Ended(k, x)' => Ended(k, x)
    BY <1>1 DEF Ended, InState
  <1>5. OneShotOnce => OneShotOnce'
    <2> SUFFICES ASSUME OneShotOnce, ~stale', NEW k \in Jobs,
                        NEW x \in 1..Len(firings'[k]), NEW y \in 1..Len(firings'[k]),
                        x < y, firings'[k][x].kind = "at", firings'[k][y].kind = "at"
                 PROVE  firings'[k][x].state = "lost"
      BY DEF OneShotOnce
    <2>1. firings[k][x].state = "lost"
      BY <1>1 DEF OneShotOnce
    <2> QED
      BY <1>1, <2>1
  <1> QED
    BY <1>1, <1>3, <1>4, <1>5

(* The callback returned or raised: the record carries the time of a firing  *)
(* that now counts as ended, wherever the record still is.                   *)
LEMMA EndStoreStep ==
  ASSUME StoreInv, OverlapInv', NEW j \in Jobs, NEW i \in 1..MaxFirings,
         FiringOk(j, i) \/ FiringFailed(j, i)
  PROVE  StoreInv'
PROOF
  <1> USE DEF StoreInv
  <1>1. /\ MarkRun(j) /\ up /\ UNCHANGED <<now, up, wanted>>
        /\ i \in 1..Len(firings[j]) /\ firings[j][i].state = "running"
    BY DEF FiringOk, FiringFailed, InState, LoopFree, GatewayReady
  <1>2. PICK st: SetState(j, i, st)
    BY DEF FiringOk, FiringFailed
  <1>3. stale => stale'
    BY <1>1 DEF MarkRun, GatewayWrites
  <1>4. /\ \A k \in Jobs: (firings'[k] = <<>>) <=> (firings[k] = <<>>)
        /\ \A k \in Jobs: \A x \in Nat: ~(k = j /\ x = i) /\ Ended(k, x)' => Ended(k, x)
        /\ \A k \in Jobs: \A x \in 1..Len(firings[k]): firings'[k][x].kind = firings[k][x].kind
        /\ OneShotOnce => OneShotOnce'
    BY <1>1, <1>2, <1>3, StateKeeps
  <1>5. /\ IsJobMap(mem) /\ now \in Nat /\ now # Never
        /\ cli = [on |-> cli.on, jobs |-> cli.jobs, fresh |-> cli.fresh]
    BY CronServiceAssumption DEF OverlapInv, TypeOK, StoreTypeOK, Never
  <1>6. ASSUME NEW m, NEW k \in DOMAIN m, NEW x \in Nat, Spent(m), k \in Jobs, k # j,
               Ended(k, x)', firings'[k][x].kind = "at"
        PROVE  m[k].last # Never
    <2>1. Ended(k, x) /\ firings[k][x].kind = "at"
      BY <1>4, <1>6 DEF Ended, InState
    <2> QED
      BY <1>6, <2>1 DEF Spent
  <1>7. CASE j \in DOMAIN mem
    <2>1. /\ mem' = Marked(mem, j) /\ disk' = Marked(mem, j)
          /\ cli' = [cli EXCEPT !.fresh = FALSE] /\ stale' = (stale \/ ~synced \/ mem # disk)
      BY <1>1, <1>7 DEF MarkRun, GatewayWrites
    <2>2. cli'.fresh = FALSE /\ cli'.jobs = cli.jobs
      BY <1>5, <2>1
    <2>3. /\ DOMAIN Marked(mem, j) = DOMAIN mem
          /\ \A k \in Jobs: View(Marked(mem, j), k) = View(mem, k)
          /\ Marked(mem, j)[j].last = now
          /\ \A k \in DOMAIN mem \ {j}: Marked(mem, j)[k] = mem[k]
      BY <1>5, <1>7, MarkedFacts
    <2>4. UnusedIsUnknown'
      BY <1>1, <1>4, <2>1, <2>2, <2>3 DEF UnusedIsUnknown, Unused
    <2>5. ASSUME ~stale'
          PROVE  (FreshIsDisk /\ NoMutationLost /\ (up => Spent(mem)) /\ Spent(disk)
                  /\ FiredIsKnown /\ OneShotOnce)'
      <3>1. ~stale /\ mem = disk
        BY <2>1, <2>5
      <3>2. FreshIsDisk' /\ FiredIsKnown' /\ OneShotOnce'
        BY <1>4, <2>1, <2>2, <3>1 DEF FreshIsDisk, FiredIsKnown
      <3>3. NoMutationLost'
        BY <1>1, <2>1, <2>3, <3>1 DEF NoMutationLost, View
      <3>4. Spent(mem)'
        <4> SUFFICES ASSUME NEW k \in DOMAIN mem', NEW x \in Nat, k \in Jobs,
                            Ended(k, x)', firings'[k][x].kind = "at"
                     PROVE  mem'[k].last # Never'
          BY DEF Spent
        <4>1. Never' = Never
          BY DEF Never
        <4>2. CASE k = j
          BY <1>5, <2>1, <2>3, <4>1, <4>2
        <4>3. CASE k # j
          BY <1>1, <1>6, <2>1, <2>3, <3>1, <4>1, <4>3
        <4> QED
          BY <4>2, <4>3
      <3> QED
        BY <2>1, <3>2, <3>3, <3>4 DEF Spent
    <2> QED
      BY <2>4, <2>5
  <1>8. CASE j \notin DOMAIN mem
    <2>1. UNCHANGED <<mem, disk, mustStat, stale, cli>>
      BY <1>1, <1>8 DEF MarkRun
    <2>2. UnusedIsUnknown'
      BY <1>1, <1>4, <2>1 DEF UnusedIsUnknown, Unused
    <2>3. ASSUME ~stale'
          PROVE  (FreshIsDisk /\ NoMutationLost /\ (up => Spent(mem)) /\ Spent(disk)
                  /\ FiredIsKnown /\ OneShotOnce)'
      <3>1. ~stale
        BY <2>1, <2>3
      <3>2. FreshIsDisk' /\ FiredIsKnown' /\ OneShotOnce'
        BY <1>1, <1>4, <2>1, <3>1 DEF FreshIsDisk, FiredIsKnown
      <3>3. NoMutationLost'
        BY <1>1, <2>1, <3>1 DEF NoMutationLost, View
      <3>4. j \notin DOMAIN disk
        BY <1>1, <1>8, <3>1 DEF FiredIsKnown
      <3>5. Spent(mem)' /\ Spent(disk)'
        BY <1>1, <1>6, <1>8, <2>1, <3>1, <3>4 DEF Spent, Never
      <3> QED
        BY <3>2, <3>3, <3>5
    <2> QED
      BY <2>2, <2>3
  <1> QED
    BY <1>7, <1>8

(* Its cleanup takes the record out of memory and file together. *)
LEMMA CleanupStoreStep ==
  ASSUME StoreInv, OverlapInv', NEW j \in Jobs, NEW i \in 1..MaxFirings, Cleanup(j, i)
  PROVE  StoreInv'
PROOF
  <1> USE DEF StoreInv
  <1>1. /\ up /\ UNCHANGED <<now, up>> /\ SetState(j, i, "done")
        /\ i \in 1..Len(firings[j]) /\ firings[j][i].state = "marked"
    BY DEF Cleanup, InState, GatewayReady
  <1>2. stale => stale'
    BY DEF Cleanup, GatewayWrites
  <1>3. /\ \A k \in Jobs: (firings'[k] = <<>>) <=> (firings[k] = <<>>)
        /\ \A k \in Jobs: \A x \in Nat: ~(k = j /\ x = i) /\ Ended(k, x)' => Ended(k, x)
        /\ \A k \in Jobs: \A x \in 1..Len(firings[k]): firings'[k][x].kind = firings[k][x].kind
        /\ OneShotOnce => OneShotOnce'
    BY <1>1, <1>2, StateKeeps
  <1>4. ASSUME NEW m, Spent(m), NEW k \in DOMAIN m, NEW x \in Nat, k \in Jobs,
               Ended(k, x)', firings'[k][x].kind = "at"
        PROVE  m[k].last # Never
    <2>1. Ended(k, x)
      BY <1>1, <1>3, <1>4 DEF Ended, InState
    <2>2. firings[k][x].kind = "at"
      BY <1>3, <1>4, <2>1 DEF Ended, InState
    <2> QED
      BY <1>4, <2>1, <2>2 DEF Spent
  <1>5. CASE j \in DOMAIN mem
    <2>1. /\ mem' = Without(mem, j) /\ disk' = Without(mem, j)
          /\ cli' = [cli EXCEPT !.fresh = FALSE] /\ stale' = (stale \/ ~synced \/ mem # disk)
          /\ wanted' = [wanted EXCEPT ![j] = "gone"]
      BY <1>5 DEF Cleanup, GatewayWrites
    <2>2. /\ cli'.fresh = FALSE /\ cli'.jobs = cli.jobs
          /\ wanted'[j] = "gone" /\ \A k \in Jobs \ {j}: wanted'[k] = wanted[k]
      BY <2>1 DEF OverlapInv, TypeOK, StoreTypeOK
    <2>3. /\ DOMAIN Without(mem, j) = DOMAIN mem \ {j}
          /\ View(Without(mem, j), j) = "gone"
          /\ \A k \in Jobs \ {j}: View(Without(mem, j), k) = View(mem, k)
          /\ \A k \in DOMAIN mem \ {j}: Without(mem, j)[k] = mem[k]
      BY WithoutFacts
    <2>4. UnusedIsUnknown'
      BY <1>1, <1>3, <2>1, <2>2, <2>3 DEF UnusedIsUnknown, Unused
    <2>5. ASSUME ~stale'
          PROVE  (FreshIsDisk /\ NoMutationLost /\ (up => Spent(mem)) /\ Spent(disk)
                  /\ FiredIsKnown /\ OneShotOnce)'
      <3>1. ~stale /\ mem = disk
        BY <2>1, <2>5
      <3>2. FreshIsDisk' /\ FiredIsKnown' /\ OneShotOnce'
        BY <1>3, <2>1, <2>2, <3>1 DEF FreshIsDisk, FiredIsKnown
      <3>3. ASSUME NEW k \in Jobs
            PROVE  View(Without(mem, j), k) = IF wanted'[k] = "never" THEN "gone" ELSE wanted'[k]
        BY <2>2, <2>3, <3>1 DEF NoMutationLost
      <3>4. NoMutationLost'
        BY <2>1, <3>3 DEF NoMutationLost, View
      <3>5. Spent(mem)'
        BY <1>1, <1>4, <2>1, <2>3, <3>1 DEF Spent, Never
      <3> QED
        BY <2>1, <3>2, <3>4, <3>5 DEF Spent
    <2> QED
      BY <2>4, <2>5
  <1>6. CASE j \notin DOMAIN mem
    <2>1. UNCHANGED <<mem, disk, stale, cli, wanted>>
      BY <1>6 DEF Cleanup
    <2>2. UnusedIsUnknown'
      BY <1>1, <1>3, <2>1 DEF UnusedIsUnknown, Unused
    <2>3. ASSUME ~stale'
          PROVE  (FreshIsDisk /\ NoMutationLost /\ (up => Spent(mem)) /\ Spent(disk)
                  /\ FiredIsKnown /\ OneShotOnce)'
      <3>1. ~stale
        BY <2>1, <2>3
      <3>2. FreshIsDisk' /\ FiredIsKnown' /\ OneShotOnce'
        BY <1>1, <1>3, <2>1, <3>1 DEF FreshIsDisk, FiredIsKnown
      <3>3. NoMutationLost'
        BY <1>1, <2>1, <3>1 DEF NoMutationLost, View
      <3>4. Spent(mem)' /\ Spent(disk)'
        BY <1>1, <1>4, <2>1, <3>1 DEF Spent, Never
      <3> QED
        BY <3>2, <3>3, <3>4
    <2> QED
      BY <2>2, <2>3
  <1> QED
    BY <1>5, <1>6

(* What a tick launches: due jobs of the map it loaded, with no live task. *)
LEMMA TickLaunches ==
  ASSUME OverlapInv, Tick, NEW j \in Jobs
  PROVE  \/ firings'[j] = firings[j]
         \/ /\ j \in Due(Reloaded) /\ (inFlight[j] = 0 \/ Over(j))
            /\ Len(firings'[j]) = Len(firings[j]) + 1
            /\ \A i \in 1..Len(firings[j]): firings'[j][i] = firings[j][i]
            /\ firings'[j][Len(firings[j]) + 1].kind = Reloaded[j].sched.kind
            /\ firings'[j][Len(firings[j]) + 1].state = "running"
PROOF
  <1> DEFINE launched == j \in Due(Reloaded) /\ (inFlight[j] = 0 \/ Over(j))
             f == [kind |-> Reloaded[j].sched.kind, once |-> Reloaded[j].once,
                   state |-> "running"]
  <1>1. firings[j] \in Seq(Firing)
    BY DEF OverlapInv, TypeOK
  <1>2. firings'[j] = IF launched THEN Append(firings[j], f) ELSE firings[j]
    BY DEF Tick
  <1>3. f.kind = Reloaded[j].sched.kind /\ f.state = "running"
    OBVIOUS
  <1> HIDE DEF f
  <1> QED
    BY <1>1, <1>2, <1>3

(* A tick fires no one-shot whose firing was recorded: in the map it loads,  *)
(* memory's or the file's, the record of it is spent.                        *)
LEMMA TickStoreStep == ASSUME StoreInv, OverlapInv', Tick PROVE StoreInv'
PROOF
  <1> USE DEF StoreInv
  <1>1. /\ mem' = Reloaded /\ up /\ Reloaded \in {mem, disk} /\ (synced => Reloaded = mem)
        /\ (~synced => Reloaded = disk)
        /\ UNCHANGED <<now, disk, cli, up, wanted, stale>>
    BY DEF Tick, LoopFree, GatewayReady, Reloaded
  <1>2. \A j \in Jobs: firings[j] \in Seq(Firing)
    BY DEF OverlapInv, TypeOK
  <1>3. ASSUME NEW j \in Jobs, NEW i \in Nat, Ended(j, i)'
        PROVE  Ended(j, i) /\ firings'[j][i] = firings[j][i]
    BY <1>2, <1>3, TickLaunches DEF Ended, InState
  <1>4. ASSUME NEW j \in Jobs
        PROVE  j \in DOMAIN Reloaded \/ firings'[j] = firings[j]
    BY TickLaunches DEF Due
  <1>5. UnusedIsUnknown'
    BY <1>1, <1>4 DEF UnusedIsUnknown, Unused
  <1>6. ASSUME ~stale'
        PROVE  (FreshIsDisk /\ NoMutationLost /\ (up => Spent(mem)) /\ Spent(disk)
                /\ FiredIsKnown /\ OneShotOnce)'
    <2>1. ~stale /\ Spent(mem) /\ Spent(disk)
      BY <1>1, <1>6
    <2>2. FreshIsDisk' /\ NoMutationLost'
      BY <1>1, <2>1 DEF FreshIsDisk, NoMutationLost, View
    <2>3. Spent(Reloaded)
      BY <1>1, <2>1
    <2>4. Spent(mem)' /\ Spent(disk)'
      BY <1>1, <1>3, <2>1, <2>3 DEF Spent, Never
    <2>5. FiredIsKnown'
      BY <1>1, <1>4, <2>1 DEF FiredIsKnown
    <2>6. OneShotOnce'
      <3> SUFFICES ASSUME NEW j \in Jobs,
                          NEW x \in 1..Len(firings'[j]), NEW y \in 1..Len(firings'[j]),
                          x < y, firings'[j][x].kind = "at", firings'[j][y].kind = "at"
                   PROVE  firings'[j][x].state = "lost"
        BY DEF OneShotOnce
      <3>1. CASE firings'[j] = firings[j]
        BY <3>1, <2>1 DEF OneShotOnce
      <3>2. CASE firings'[j] # firings[j]
        <4>1. /\ j \in Due(Reloaded) /\ (inFlight[j] = 0 \/ Over(j))
              /\ Len(firings'[j]) = Len(firings[j]) + 1
              /\ \A i \in 1..Len(firings[j]): firings'[j][i] = firings[j][i]
              /\ firings'[j][Len(firings[j]) + 1].kind = Reloaded[j].sched.kind
          BY <3>2, TickLaunches
        <4>2. Len(firings[j]) \in Nat
          BY <1>2
        <4>3. x \in 1..Len(firings[j]) /\ firings'[j][x] = firings[j][x] /\ x \in Nat
          BY <4>1, <4>2
        <4>4. CASE y \in 1..Len(firings[j])
          BY <4>1, <4>3, <4>4, <2>1 DEF OneShotOnce
        <4>5. CASE y = Len(firings[j]) + 1
          <5>1. j \in DOMAIN Reloaded /\ Reloaded[j].last = Never
            BY <4>1, <4>5 DEF Due, IsDue
          <5>2. ~Ended(j, x)
            BY <5>1, <4>3, <2>3 DEF Spent
          <5>3. ~Active(j, x)
            BY <4>1, <4>3, LaunchIsFree
          <5>4. firings[j][x] \in Firing
            BY <1>2, <4>3
          <5> QED
            BY <5>2, <5>3, <5>4, <4>3 DEF Ended, Active, InState, Firing
        <4> QED
          BY <4>1, <4>2, <4>4, <4>5
      <3> QED
        BY <3>1, <3>2
    <2> QED
      BY <1>1, <2>2, <2>4, <2>5, <2>6
  <1> QED
    BY <1>5, <1>6

(* A stop cuts the firings at work short and changes no other. *)
LEMMA StopFirings ==
  ASSUME OverlapInv, OverlapInv', StopGateway, NEW j \in Jobs
  PROVE  /\ Len(firings'[j]) = Len(firings[j])
         /\ \A i \in 1..Len(firings[j]):
              /\ firings'[j][i].kind = firings[j][i].kind
              /\ \/ firings'[j][i].state = "lost"
                 \/ firings'[j][i].state = firings[j][i].state
PROOF
  <1> DEFINE g == [i \in 1..Len(firings[j]) |->
                     IF firings[j][i].state \in {"running", "marked"}
                     THEN [firings[j][i] EXCEPT !.state = "lost"] ELSE firings[j][i]]
  <1>1. firings'[j] = g
    BY DEF StopGateway
  <1>2. firings[j] \in Seq(Firing) /\ firings'[j] \in Seq(Firing)
    BY DEF OverlapInv, TypeOK
  <1>3. DOMAIN g = 1..Len(firings[j]) /\ Len(firings[j]) \in Nat
    BY <1>2
  <1>4. Len(firings'[j]) = Len(firings[j])
    BY <1>1, <1>2, <1>3
  <1>5. ASSUME NEW i \in 1..Len(firings[j])
        PROVE  /\ g[i].kind = firings[j][i].kind
               /\ g[i].state = "lost" \/ g[i].state = firings[j][i].state
    <2>1. firings[j][i] \in Firing
      BY <1>2
    <2>2. /\ [firings[j][i] EXCEPT !.state = "lost"].state = "lost"
          /\ [firings[j][i] EXCEPT !.state = "lost"].kind = firings[j][i].kind
      BY <2>1 DEF Firing
    <2> QED
      BY <2>2
  <1> QED
    BY <1>1, <1>4, <1>5

(* Memory is gone with the process; what was recorded is in the file. *)
LEMMA StopStoreStep == ASSUME StoreInv, OverlapInv', StopGateway PROVE StoreInv'
PROOF
  <1> USE DEF StoreInv
  <1>1. up' = FALSE /\ mem' = NoJobs /\ UNCHANGED <<now, disk, cli, wanted, stale>>
    BY DEF StopGateway
  <1>2. DOMAIN mem' = {}
    BY <1>1 DEF NoJobs
  <1>3. \A j \in Jobs: /\ Len(firings'[j]) = Len(firings[j])
                       /\ \A i \in 1..Len(firings[j]):
                            /\ firings'[j][i].kind = firings[j][i].kind
                            /\ \/ firings'[j][i].state = "lost"
                               \/ firings'[j][i].state = firings[j][i].state
    BY StopFirings
  <1>4. ASSUME NEW j \in Jobs, firings[j] = <<>> PROVE firings'[j] = <<>>
    <2>1. firings'[j] \in Seq(Firing) /\ Len(firings'[j]) = 0
      BY <1>3, <1>4 DEF OverlapInv, TypeOK
    <2> QED
      BY <2>1
  <1>5. UnusedIsUnknown'
    BY <1>1, <1>2, <1>4 DEF UnusedIsUnknown, Unused
  <1>6. ASSUME ~stale'
        PROVE  (FreshIsDisk /\ NoMutationLost /\ (up => Spent(mem)) /\ Spent(disk)
                /\ FiredIsKnown /\ OneShotOnce)'
    <2>1. ~stale
      BY <1>1, <1>6
    <2>2. FreshIsDisk' /\ NoMutationLost' /\ FiredIsKnown'
      BY <1>1, <2>1 DEF FreshIsDisk, NoMutationLost, View, FiredIsKnown
    <2>3. Spent(disk)'
      BY <1>1, <1>3, <2>1 DEF Spent, Ended, InState, Never
    <2>4. OneShotOnce'
      BY <1>3, <2>1 DEF OneShotOnce
    <2> QED
      BY <1>1, <2>2, <2>3, <2>4
  <1> QED
    BY <1>5, <1>6

(* The rest fires nothing and writes nothing: a command opens the file, a   *)
(* rename gets its mtime, the clock moves, the gateway starts from the file. *)
LEMMA QuietStoreStep ==
  ASSUME StoreInv, OverlapInv', UNCHANGED <<firings, disk, wanted, stale>>,
         \/ UNCHANGED <<mem, up>> /\ (cli' = cli \/ CliOpen)
         \/ mem' = disk /\ up' = TRUE /\ cli' = cli
  PROVE  StoreInv'
PROOF
  <1> USE DEF StoreInv
  <1>1. /\ cli'.jobs \in {cli.jobs, disk}
        /\ FreshIsDisk => FreshIsDisk'
    BY DEF FreshIsDisk, CliOpen
  <1>2. mem' \in {mem, disk} /\ UnusedIsUnknown'
    BY <1>1 DEF UnusedIsUnknown, Unused
  <1>3. ASSUME ~stale
        PROVE  (NoMutationLost /\ (up => Spent(mem)) /\ Spent(disk)
                /\ FiredIsKnown /\ OneShotOnce)'
    <2>1. NoMutationLost' /\ OneShotOnce'
      BY <1>3 DEF NoMutationLost, View, OneShotOnce
    <2>2. Spent(disk)'
      BY <1>3 DEF Spent, Ended, InState, Never
    <2>3. (up => Spent(mem))' /\ FiredIsKnown'
      BY <1>3 DEF Spent, Ended, InState, Never, FiredIsKnown
    <2> QED
      BY <2>1, <2>2, <2>3
  <1> QED
    BY <1>1, <1>2, <1>3

(* Every step keeps the store's invariant. *)
LEMMA StoreStep == ASSUME StoreInv, [Next]_vars PROVE StoreInv'
PROOF
  <1>1. OverlapInv'
    BY OverlapStep DEF StoreInv
  <1>2. CASE UserStep
    <2>1. CASE ToolStep
      BY <1>1, <1>2, <2>1, ToolMutates, GatewayEditStep DEF UserStep
    <2>2. CASE CliOpen
      BY <1>1, <1>2, <2>2, QuietStoreStep DEF UserStep, CliOpen
    <2>3. CASE CliStep /\ ~CliOpen
      BY <1>1, <1>2, <2>3, CliMutates, CliEditStep DEF UserStep
    <2> QED
      BY <1>2, <2>1, <2>2, <2>3 DEF UserStep
  <1>3. CASE FiringStep
    BY <1>1, <1>3, EndStoreStep, CleanupStoreStep DEF FiringStep
  <1>4. CASE Tick
    BY <1>1, <1>4, TickStoreStep
  <1>5. CASE (Stat \/ Clock) /\ UNCHANGED <<firings, inFlight, stops>>
    BY <1>1, <1>5, QuietStoreStep DEF Stat, Clock
  <1>6. CASE StopGateway
    BY <1>1, <1>6, StopStoreStep
  <1>7. CASE StartGateway
    BY <1>1, <1>7, QuietStoreStep DEF StartGateway
  <1>8. CASE UNCHANGED vars
    BY <1>1, <1>8, QuietStoreStep DEF vars, storeVars
  <1> QED
    BY <1>2, <1>3, <1>4, <1>5, <1>6, <1>7, <1>8 DEF Next

(* Every reachable state satisfies the store's invariant. *)
THEOREM StoreInvariance == Spec => []StoreInv
PROOF
  <1>1. Init => StoreInv
    <2> SUFFICES ASSUME Init PROVE StoreInv
      OBVIOUS
    <2>1. /\ mem = NoJobs /\ disk = NoJobs /\ cli.jobs = NoJobs /\ cli.on = FALSE
          /\ \A j \in Jobs: wanted[j] = "never" /\ firings[j] = <<>>
          /\ DOMAIN NoJobs = {}
      BY DEF Init, StoreInit, Idle, NoJobs
    <2>2. FreshIsDisk /\ UnusedIsUnknown /\ NoMutationLost /\ FiredIsKnown
      BY <2>1 DEF FreshIsDisk, UnusedIsUnknown, NoMutationLost, View, FiredIsKnown
    <2>3. Spent(mem) /\ Spent(disk) /\ OneShotOnce
      BY <2>1 DEF Spent, OneShotOnce
    <2> QED
      BY <2>2, <2>3, OverlapInit DEF StoreInv
  <1>2. StoreInv /\ [Next]_vars => StoreInv'
    BY StoreStep
  <1> QED
    BY <1>1, <1>2, PTL DEF Spec

(* While nothing is written over a version its writer had not read, the file *)
(* says of every job what its users were told, for any number of jobs, edits,*)
(* commands, firings, reloads, stops and starts.                             *)
THEOREM EditsAreKept == Spec => []OnlyStaleWritesLose
PROOF
  <1>1. StoreInv => OnlyStaleWritesLose
    BY DEF StoreInv, OnlyStaleWritesLose
  <1> QED
    BY <1>1, StoreInvariance, PTL

(* While nothing is written over a version its writer had not read, a        *)
(* one-shot whose firing was recorded is never fired again.                  *)
THEOREM OneShotsFireOnce == Spec => []OneShotOnce
PROOF
  <1>1. StoreInv => OneShotOnce
    BY DEF StoreInv, OneShotOnce
  <1> QED
    BY <1>1, StoreInvariance, PTL

-----------------------------------------------------------------------------
(* Every firing has its run, which fits it: one still at work is not recorded. *)
RunsTyped  == runs \in [Jobs -> Seq(Run)]
RunsMatch  == \A j \in Jobs: Len(runs[j]) = Len(firings[j])
Fits(st, r) ==
  /\ st = "running" => r.status = ""
  /\ r.status = "ok"    => r.told = "cron_completed"
  /\ r.status = "error" => r.told \in {"cron_failed", "cron_fired"}
  /\ st \in {"marked", "done"} => r.status # ""
AllFit == \A j \in Jobs: \A i \in 1..Len(runs[j]): Fits(firings[j][i].state, runs[j][i])

RunnerInv == OverlapInv /\ RunsTyped /\ RunsMatch /\ AllFit

(* The runner's steps are the scheduler's, or invisible to it. *)
LEMMA RunnerStepMapped == [RunnerNext]_runnerVars => [Next]_vars
  BY DEF RunnerNext, RunnerTick, RunnerFiring, Completes, Fails, Returns, Raises, TimesOut, Quiet,
         Next, FiringStep, runnerVars

(* One entry of a run is replaced. *)
LEMMA RunSet ==
  ASSUME RunsTyped, NEW j \in Jobs, NEW i \in 1..Len(runs[j]), NEW r \in Run,
         runs' = [runs EXCEPT ![j] = [runs[j] EXCEPT ![i] = r]]
  PROVE  /\ RunsTyped'
         /\ \A k \in Jobs: Len(runs'[k]) = Len(runs[k])
         /\ \A k \in Jobs: \A x \in 1..Len(runs[k]):
              runs'[k][x] = IF k = j /\ x = i THEN r ELSE runs[k][x]
PROOF
  <1>1. runs[j] \in Seq(Run)
    BY DEF RunsTyped
  <1>2. [runs[j] EXCEPT ![i] = r] \in Seq(Run) /\ Len([runs[j] EXCEPT ![i] = r]) = Len(runs[j])
    BY <1>1
  <1> QED
    BY <1>1, <1>2 DEF RunsTyped

(* What appending does. *)
LEMMA AppendFacts ==
  ASSUME NEW S, NEW s \in Seq(S), NEW e \in S
  PROVE  Append(s, e) \in Seq(S) /\ Len(Append(s, e)) = Len(s) + 1
  OBVIOUS

(* A tick adds a run wherever it launches a firing. *)
LEMMA RunnerTickStep == ASSUME RunnerInv, RunnerTick PROVE RunnerInv'
PROOF
  <1> USE DEF RunnerInv
  <1>1. OverlapInv'
    BY TickStep DEF RunnerTick
  <1>2. firings \in [Jobs -> Seq(Firing)] /\ firings' \in [Jobs -> Seq(Firing)]
    BY <1>1 DEF OverlapInv, TypeOK
  <1>3. NewRun \in Run /\ NewRun.status = ""
    BY DEF NewRun, Run
  <1>4. ASSUME NEW j \in Jobs
        PROVE  \/ firings'[j] = firings[j] /\ runs'[j] = runs[j]
               \/ \E f: /\ f.state = "running" /\ firings'[j] = Append(firings[j], f)
                        /\ runs'[j] = Append(runs[j], NewRun)
    <2>1. \/ firings'[j] = firings[j]
          \/ \E kd, on: firings'[j] = Append(firings[j], [kind |-> kd, once |-> on,
                                                          state |-> "running"])
      BY DEF RunnerTick, Tick
    <2>2. CASE firings'[j] = firings[j]
      BY <2>2, <1>2 DEF RunnerTick
    <2>3. ASSUME NEW kd, NEW on,
                 firings'[j] = Append(firings[j], [kind |-> kd, once |-> on, state |-> "running"])
          PROVE  \E f: /\ f.state = "running" /\ firings'[j] = Append(firings[j], f)
                       /\ runs'[j] = Append(runs[j], NewRun)
      <3> DEFINE f == [kind |-> kd, once |-> on, state |-> "running"]
      <3>1. Len(firings'[j]) = Len(firings[j]) + 1 /\ f.state = "running"
        BY <2>3, <1>2
      <3>2. runs'[j] = Append(runs[j], NewRun)
        BY <3>1, <1>2 DEF RunnerTick
      <3> QED
        BY <2>3, <3>1, <3>2
    <2> QED
      BY <2>1, <2>2, <2>3
  <1>5. ASSUME NEW j \in Jobs
        PROVE  /\ runs'[j] \in Seq(Run) /\ Len(runs'[j]) = Len(firings'[j])
               /\ \A i \in 1..Len(runs'[j]):
                    \/ /\ i \in 1..Len(runs[j]) /\ runs'[j][i] = runs[j][i]
                       /\ firings'[j][i] = firings[j][i]
                    \/ runs'[j][i] = NewRun /\ firings'[j][i].state = "running"
    <2>1. runs[j] \in Seq(Run) /\ firings[j] \in Seq(Firing) /\ Len(runs[j]) = Len(firings[j])
      BY <1>2 DEF RunsTyped, RunsMatch
    <2>2. CASE firings'[j] = firings[j] /\ runs'[j] = runs[j]
      BY <2>1, <2>2
    <2>3. ASSUME NEW f, f.state = "running",
                 firings'[j] = Append(firings[j], f), runs'[j] = Append(runs[j], NewRun)
          PROVE  /\ runs'[j] \in Seq(Run) /\ Len(runs'[j]) = Len(firings'[j])
                 /\ \A i \in 1..Len(runs'[j]):
                      \/ /\ i \in 1..Len(runs[j]) /\ runs'[j][i] = runs[j][i]
                         /\ firings'[j][i] = firings[j][i]
                      \/ runs'[j][i] = NewRun /\ firings'[j][i].state = "running"
      <3> HIDE DEF RunnerInv
      <3>0. Append(runs[j], NewRun) \in Seq(Run) /\ Len(Append(runs[j], NewRun)) = Len(runs[j]) + 1
        BY <2>1, <1>3, AppendFacts
      <3>1. runs'[j] \in Seq(Run) /\ Len(runs'[j]) = Len(runs[j]) + 1
        BY <2>3, <3>0
      <3>2. Len(firings'[j]) = Len(firings[j]) + 1
        BY <2>1, <2>3
      <3>3. ASSUME NEW i \in 1..Len(runs[j])
            PROVE  runs'[j][i] = runs[j][i] /\ firings'[j][i] = firings[j][i]
        BY <2>1, <2>3
      <3>4. runs'[j][Len(runs[j]) + 1] = NewRun /\ firings'[j][Len(runs[j]) + 1] = f
        BY <2>1, <2>3
      <3> QED
        BY <2>1, <2>3, <3>1, <3>2, <3>3, <3>4
    <2> QED
      BY <1>4, <2>2, <2>3
  <1>6. RunsTyped' /\ RunsMatch'
    <2>1. runs' = [j \in Jobs |-> runs'[j]]
      BY DEF RunnerTick
    <2> QED
      BY <1>5, <2>1 DEF RunsTyped, RunsMatch
  <1>7. AllFit'
    <2> SUFFICES ASSUME NEW j \in Jobs, NEW i \in 1..Len(runs'[j])
                 PROVE  Fits(firings'[j][i].state, runs'[j][i])
      BY DEF AllFit
    <2>1. CASE i \in 1..Len(runs[j]) /\ runs'[j][i] = runs[j][i] /\ firings'[j][i] = firings[j][i]
      BY <2>1 DEF AllFit
    <2>2. CASE runs'[j][i] = NewRun /\ firings'[j][i].state = "running"
      BY <2>2, <1>3 DEF Fits
    <2> QED
      BY <2>1, <2>2, <1>5
  <1> QED
    BY <1>1, <1>6, <1>7

(* A stop tells nothing and records nothing. *)
LEMMA RunnerStopStep == ASSUME RunnerInv, StopGateway, UNCHANGED runs PROVE RunnerInv'
PROOF
  <1> USE DEF RunnerInv
  <1>1. OverlapInv'
    BY StopStep
  <1>2. firings \in [Jobs -> Seq(Firing)]
    BY DEF OverlapInv, TypeOK
  <1>3. ASSUME NEW j \in Jobs
        PROVE  /\ Len(firings'[j]) = Len(firings[j])
               /\ \A i \in 1..Len(firings[j]):
                    firings'[j][i].state = "lost" \/ firings'[j][i].state = firings[j][i].state
    BY <1>1, StopFirings
  <1>4. RunsTyped' /\ RunsMatch'
    BY <1>3 DEF RunsTyped, RunsMatch
  <1>5. AllFit'
    <2> SUFFICES ASSUME NEW j \in Jobs, NEW i \in 1..Len(runs[j])
                 PROVE  Fits(firings'[j][i].state, runs[j][i])
      BY DEF AllFit
    <2>1. Fits(firings[j][i].state, runs[j][i]) /\ i \in 1..Len(firings[j])
      BY DEF AllFit, RunsMatch
    <2> QED
      BY <2>1, <1>3 DEF Fits
  <1> QED
    BY <1>1, <1>4, <1>5

(* The end of a firing records the status that fits what was told. *)
LEMMA RunnerEndStep ==
  ASSUME RunnerInv, NEW j \in Jobs, NEW i \in 1..MaxFirings,
         \/ Returns(j, i) \/ Raises(j, i) \/ TimesOut(j, i)
  PROVE  RunnerInv'
PROOF
  <1> USE DEF RunnerInv
  <1>1. i \in 1..Len(firings[j]) /\ i \in 1..Len(runs[j]) /\ runs[j][i] \in Run
    <2>1. i \in 1..Len(firings[j])
      BY DEF Returns, Raises, TimesOut, AtWork, InState
    <2>2. runs[j] \in Seq(Run) /\ i \in 1..Len(runs[j])
      BY <2>1 DEF RunsTyped, RunsMatch
    <2> QED
      BY <2>1, <2>2
  <1>2. OverlapInv'
    BY FiringStepKeeps DEF Returns, Raises, TimesOut
  <1>3. PICK st \in {"marked", "done"}: SetState(j, i, st)
    BY DEF Returns, Raises, TimesOut, FiringOk, FiringFailed
  <1>4. /\ \A k \in Jobs: Len(firings'[k]) = Len(firings[k])
        /\ \A k \in Jobs: \A x \in 1..Len(firings[k]):
             firings'[k][x].state = IF k = j /\ x = i THEN st ELSE firings[k][x].state
    BY <1>1, <1>3, FiringSet
  <1>5. PICK s \in {"ok", "error"}:
          /\ runs' = [runs EXCEPT ![j] = [runs[j] EXCEPT ![i] = [runs[j][i] EXCEPT !.status = s]]]
          /\ s = "ok" => runs[j][i].told = "cron_completed"
          /\ s = "error" => runs[j][i].told \in {"cron_failed", "cron_fired"}
    BY DEF Returns, Raises, TimesOut, Recorded, AtWork
  <1> DEFINE r == [runs[j][i] EXCEPT !.status = s]
  <1>6. r \in Run /\ r.status = s /\ r.told = runs[j][i].told
    BY <1>1 DEF Run
  <1>7. /\ RunsTyped'
        /\ \A k \in Jobs: Len(runs'[k]) = Len(runs[k])
        /\ \A k \in Jobs: \A x \in 1..Len(runs[k]):
             runs'[k][x] = IF k = j /\ x = i THEN r ELSE runs[k][x]
    BY <1>1, <1>5, <1>6, RunSet
  <1> HIDE DEF r
  <1>8. RunsMatch'
    BY <1>4, <1>7 DEF RunsMatch
  <1>9. AllFit'
    <2> SUFFICES ASSUME NEW k \in Jobs, NEW x \in 1..Len(runs'[k])
                 PROVE  Fits(firings'[k][x].state, runs'[k][x])
      BY DEF AllFit
    <2>1. /\ x \in 1..Len(runs[k]) /\ x \in 1..Len(firings[k])
          /\ Fits(firings[k][x].state, runs[k][x])
      BY <1>7 DEF AllFit, RunsMatch
    <2>2. CASE k = j /\ x = i
      <3>1. runs'[k][x] = r /\ firings'[k][x].state = st
        BY <2>1, <2>2, <1>4, <1>7
      <3> QED
        BY <3>1, <1>5, <1>6 DEF Fits
    <2>3. CASE ~(k = j /\ x = i)
      BY <2>1, <2>3, <1>4, <1>7
    <2> QED
      BY <2>2, <2>3
  <1> QED
    BY <1>2, <1>7, <1>8, <1>9

(* Telling and cleaning up. *)
LEMMA RunnerTellStep ==
  ASSUME RunnerInv, NEW j \in Jobs, NEW i \in 1..MaxFirings,
         Completes(j, i) \/ Fails(j, i)
  PROVE  RunnerInv'
PROOF
  <1> USE DEF RunnerInv
  <1>1. i \in 1..Len(runs[j]) /\ runs[j][i] \in Run /\ runs[j][i].status = ""
    <2>1. i \in 1..Len(firings[j]) /\ firings[j][i].state = "running"
      BY DEF Completes, Fails, AtWork, InState
    <2>2. runs[j] \in Seq(Run) /\ i \in 1..Len(runs[j])
      BY <2>1 DEF RunsTyped, RunsMatch
    <2>3. Fits(firings[j][i].state, runs[j][i])
      BY <2>2 DEF AllFit
    <2>4. runs[j][i].status = ""
      BY <2>1, <2>3 DEF Fits
    <2>5. runs[j][i] \in Run
      <3> HIDE DEF RunnerInv
      <3> QED
        BY <2>2
    <2> QED
      BY <2>2, <2>4, <2>5
  <1>2. OverlapInv' /\ firings' = firings
    BY OverlapStep DEF Completes, Fails, vars
  <1>3. PICK w \in {"cron_completed", "cron_failed"}:
          runs' = [runs EXCEPT ![j] = [runs[j] EXCEPT ![i] = [runs[j][i] EXCEPT !.told = w]]]
    BY DEF Completes, Fails
  <1> DEFINE r == [runs[j][i] EXCEPT !.told = w]
  <1>4. r \in Run /\ r.status = ""
    BY <1>1 DEF Run
  <1>5. firings[j][i].state = "running"
    BY DEF Completes, Fails, AtWork, InState
  <1>6. /\ RunsTyped'
        /\ \A k \in Jobs: Len(runs'[k]) = Len(runs[k])
        /\ \A k \in Jobs: \A x \in 1..Len(runs[k]):
             runs'[k][x] = IF k = j /\ x = i THEN r ELSE runs[k][x]
    BY <1>1, <1>3, <1>4, RunSet
  <1> HIDE DEF r
  <1>7. RunsMatch'
    BY <1>2, <1>6 DEF RunsMatch
  <1>8. AllFit'
    <2> SUFFICES ASSUME NEW k \in Jobs, NEW x \in 1..Len(runs'[k])
                 PROVE  Fits(firings[k][x].state, runs'[k][x])
      BY <1>2 DEF AllFit
    <2>1. x \in 1..Len(runs[k]) /\ Fits(firings[k][x].state, runs[k][x])
      BY <1>6 DEF AllFit
    <2>2. CASE k = j /\ x = i
      BY <2>1, <2>2, <1>4, <1>5, <1>6 DEF Fits
    <2>3. CASE ~(k = j /\ x = i)
      BY <2>1, <2>3, <1>6
    <2> QED
      BY <2>2, <2>3
  <1> QED
    BY <1>2, <1>6, <1>7, <1>8

LEMMA RunnerCleanupStep ==
  ASSUME RunnerInv, NEW j \in Jobs, NEW i \in 1..MaxFirings, Cleanup(j, i), UNCHANGED runs
  PROVE  RunnerInv'
PROOF
  <1> USE DEF RunnerInv
  <1>1. i \in 1..Len(firings[j]) /\ firings[j][i].state = "marked"
    BY DEF Cleanup, InState
  <1>2. OverlapInv'
    BY FiringStepKeeps
  <1>3. /\ \A k \in Jobs: Len(firings'[k]) = Len(firings[k])
        /\ \A k \in Jobs: \A x \in 1..Len(firings[k]):
             firings'[k][x].state = IF k = j /\ x = i THEN "done" ELSE firings[k][x].state
    BY <1>1, FiringSet DEF Cleanup
  <1>4. RunsTyped' /\ RunsMatch'
    BY <1>3 DEF RunsTyped, RunsMatch
  <1>5. AllFit'
    <2> SUFFICES ASSUME NEW k \in Jobs, NEW x \in 1..Len(runs[k])
                 PROVE  Fits(firings'[k][x].state, runs[k][x])
      BY DEF AllFit
    <2>1. x \in 1..Len(firings[k]) /\ Fits(firings[k][x].state, runs[k][x])
      BY DEF AllFit, RunsMatch
    <2> QED
      BY <2>1, <1>1, <1>3 DEF Fits
  <1> QED
    BY <1>2, <1>4, <1>5

(* Every step keeps the runner's invariant. *)
LEMMA RunnerStep == ASSUME RunnerInv, [RunnerNext]_runnerVars PROVE RunnerInv'
PROOF
  <1>1. CASE RunnerTick
    BY <1>1, RunnerTickStep
  <1>2. CASE RunnerFiring
    BY <1>2, RunnerEndStep, RunnerTellStep, RunnerCleanupStep DEF RunnerFiring
  <1>3. CASE StopGateway /\ UNCHANGED runs
    BY <1>3, RunnerStopStep
  <1>4. ASSUME UNCHANGED <<firings, runs>> PROVE RunnerInv'
    <2>1. OverlapInv'
      BY RunnerStepMapped, OverlapStep DEF RunnerInv
    <2> QED
      BY <1>4, <2>1 DEF RunnerInv, RunsTyped, RunsMatch, AllFit
  <1>5. CASE Quiet /\ UNCHANGED runs
    BY <1>3, <1>4, <1>5 DEF Quiet, UserStep, StartGateway
  <1>6. CASE UNCHANGED runnerVars
    BY <1>4, <1>6 DEF runnerVars, vars
  <1> QED
    BY <1>1, <1>2, <1>5, <1>6 DEF RunnerNext

(* Every reachable state of scheduler and runner satisfies it. *)
THEOREM RunnerInvariance == RunnerSpec => []RunnerInv
PROOF
  <1>1. RunnerInit => RunnerInv
    BY OverlapInit DEF RunnerInit, Init, RunnerInv, RunsTyped, RunsMatch, AllFit
  <1>2. RunnerInv /\ [RunnerNext]_runnerVars => RunnerInv'
    BY RunnerStep
  <1> QED
    BY <1>1, <1>2, PTL DEF RunnerSpec

(* What the record says of a firing is what its events told. *)
THEOREM RecordsAreTold == RunnerSpec => []RecordedIsTold
PROOF
  <1>1. RunnerInv => RecordedIsTold
    BY DEF RunnerInv, AllFit, Fits, RecordedIsTold
  <1> QED
    BY <1>1, RunnerInvariance, PTL

(* The scheduler under its runner is the scheduler of CronScheduler: what is *)
(* proved of that holds of this.                                             *)
THEOREM RunnerIsScheduler == RunnerSpec => Init /\ [][Next]_vars
  BY RunnerStepMapped, PTL DEF RunnerSpec, RunnerInit
=============================================================================
