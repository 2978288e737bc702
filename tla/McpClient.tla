----------------------------- MODULE McpClient -----------------------------
(* The MCP client of the gateway (gateway/mcp.py): for one configured       *)
(* server, MCPManager's start_all and restart, the MCPClient objects they   *)
(* make, the child processes those spawn and supervise, and the tool calls  *)
(* that go to them as JSON-RPC requests.                                    *)
(*                                                                          *)
(* A client object is named after the handler that made it (start_all, or a *)
(* restart request), its processes are numbered in the order of spawning: a *)
(* server is a pair <<client, n>>.  The two requests of the handshake take  *)
(* ids 1 and 2 of every server and nothing else uses them, so ids here count*)
(* the tool calls.  All tools of a server register and unregister together, *)
(* under the same names for every client object: they are one name here.    *)
(*                                                                          *)
(* A server that dies takes its stdout with it: its reader finds EOF, after *)
(* what the pipe still holds, within the second the supervisor sleeps.      *)
EXTENDS Naturals

CONSTANTS
  Boot,         \* the start_all at the gateway's startup
  Restarts,     \* POST /v1/mcp/{name}/restart requests
  Calls,        \* calls of the server's tool by agent loops
  GiveUpAfter,  \* 5: consecutive failures after which the supervisor gives up
  MaxServers,   \* bound: processes one client object spawns
  MaxId         \* bound: tool calls one process is sent

Handlers == {Boot} \union Restarts
NoClient == "no client"
NoCall   == "no call"

ASSUME McpAssumption ==
  /\ Boot \notin Restarts
  /\ NoClient \notin Handlers
  /\ NoCall \notin Calls
  /\ GiveUpAfter \in Nat \ {0}
  /\ MaxServers \in [Handlers -> Nat \ {0}]
  /\ MaxId \in Nat \ {0}

Ids     == 1..MaxId
Servers == UNION {{k} \X (1..MaxServers[k]) : k \in Handlers}

VARIABLES
  current,   \* MCPManager.clients[name]
  registry,  \* the client whose invoker is registered under the tool's name
  job,       \* where each handler is
  victim,    \* the client object a restart found and stops
  \* each client object:
  proc,      \* _proc, 0 for None
  spawned,   \* how many processes it has spawned
  sup,       \* its supervisor: none, watching, backoff, probing, over, cancelled
  failures,  \* consecutive_failures
  ready,     \* _ready
  listed,    \* _registered_names is not empty
  nextId,    \* _next_id
  pending,   \* _pending: the call whose future is under each id
  \* the servers:
  alive,     \* processes that have not exited
  readers,   \* servers whose stdout a _read_loop reads
  probed,    \* servers that completed the handshake (history)
  inbox,     \* requests a server has got, whose answers its reader has not read
  \* each call:
  call       \* [at, client, id, answer]: where it is, and whose answer it was given

managerVars == <<current, registry, job, victim>>
supVars     == <<sup, failures>>
rpcVars     == <<nextId, pending, inbox, call>>
vars == <<managerVars, supVars, rpcVars, proc, spawned, ready, listed, alive, readers, probed>>

Server(k) == <<k, proc[k]>>   \* the process of _proc, if there is one
Running(k) == proc[k] # 0 /\ Server(k) \in alive

(* A call that is not in call_tool, before or after. *)
Outside(at, answer) == [at |-> at, client |-> NoClient, id |-> 0, answer |-> answer]

Init ==
  /\ current = NoClient /\ registry = NoClient
  /\ job = [h \in Handlers |-> IF h = Boot THEN "starting" ELSE "idle"]
  /\ victim = [h \in Handlers |-> NoClient]
  /\ proc = [k \in Handlers |-> 0] /\ spawned = [k \in Handlers |-> 0]
  /\ sup = [k \in Handlers |-> "none"] /\ failures = [k \in Handlers |-> 0]
  /\ ready = [k \in Handlers |-> FALSE] /\ listed = [k \in Handlers |-> FALSE]
  /\ nextId = [k \in Handlers |-> 0]
  /\ pending = [k \in Handlers |-> [i \in Ids |-> NoCall]]
  /\ alive = {} /\ readers = {} /\ probed = {} /\ inbox = {}
  /\ call = [c \in Calls |-> Outside("idle", NoCall)]

-----------------------------------------------------------------------------
(* What several handlers share.                                             *)

(* _spawn_once up to the handshake: a new process, its reader, a clean slate. *)
Spawn(k) ==
  /\ spawned[k] < MaxServers[k]
  /\ spawned' = [spawned EXCEPT ![k] = @ + 1]
  /\ proc' = [proc EXCEPT ![k] = spawned[k] + 1]
  /\ alive' = alive \union {<<k, spawned[k] + 1>>}
  /\ readers' = readers \union {<<k, spawned[k] + 1>>}
  /\ nextId' = [nextId EXCEPT ![k] = 0]
  /\ pending' = [pending EXCEPT ![k] = [i \in Ids |-> NoCall]]
  /\ UNCHANGED <<current, registry, probed, inbox, call, ready, listed>>

(* _register_tools: registry.register raises DuplicateTool for a name that  *)
(* is taken, which is logged and passed over.                               *)
RegisterTools(k) ==
  /\ registry' = IF registry = NoClient THEN k ELSE registry
  /\ listed' = [listed EXCEPT ![k] = @ \/ registry = NoClient]

(* _unregister_tools: whatever tool has a name of ours is removed. *)
UnregisterTools(k) ==
  /\ registry' = IF listed[k] THEN NoClient ELSE registry
  /\ listed' = [listed EXCEPT ![k] = FALSE]

(* The handshake succeeds: _register_tools, then _ready.set(). *)
Probed(k) ==
  /\ Running(k) /\ Server(k) \in readers
  /\ probed' = probed \union {Server(k)}
  /\ RegisterTools(k)
  /\ ready' = [ready EXCEPT ![k] = TRUE]
  /\ UNCHANGED <<proc, spawned, alive, readers, rpcVars>>

(* A _read_loop ends: what its server still says is said to nobody. *)
StopReading(s) ==
  /\ readers' = readers \ {s}
  /\ inbox' = {r \in inbox : r.server # s}

(* _shutdown_proc, its waits included. *)
Shutdown(k) ==
  /\ StopReading(Server(k))
  /\ alive' = alive \ {Server(k)}
  /\ proc' = [proc EXCEPT ![k] = 0]

(* The handshake passes startup_timeout_s. *)
ProbeTimesOut(k) ==
  /\ Shutdown(k)
  /\ UNCHANGED <<current, registry, spawned, ready, listed, probed, nextId, pending, call>>

(* An error response, or a write to a dead process: the exception leaves     *)
(* _spawn_once, which has a handler for TimeoutError only.                  *)
ProbeFails ==
  UNCHANGED <<current, registry, proc, spawned, ready, listed, alive, readers, probed, rpcVars>>

-----------------------------------------------------------------------------
(* MCPManager.start_all (for one server) and restart.                       *)

StopKeepsSupervisor(h) ==   \* the supervisor is not cancelled
  /\ job[h] = "idle" /\ job[Boot] = "done" /\ h \in Restarts
  /\ victim' = [victim EXCEPT ![h] = current]
  /\ job' = [job EXCEPT ![h] = IF current = NoClient THEN "starting" ELSE "stopping"]
  /\ IF current = NoClient THEN UNCHANGED <<readers, inbox>> ELSE StopReading(Server(current))
  /\ UNCHANGED <<current, registry, supVars, proc, spawned, ready, listed, alive,
                 probed, nextId, pending, call>>

(* restart up to the wait in stop: the supervisor and the reader are gone.  *)
Stop(h) ==
  /\ job[h] = "idle" /\ job[Boot] = "done" /\ h \in Restarts
  /\ victim' = [victim EXCEPT ![h] = current]
  /\ job' = [job EXCEPT ![h] = IF current = NoClient THEN "starting" ELSE "stopping"]
  /\ IF current = NoClient THEN UNCHANGED <<readers, inbox, sup>>
     ELSE /\ StopReading(Server(current))
          /\ sup' = [sup EXCEPT ![current] = "cancelled"]
  /\ UNCHANGED <<current, registry, failures, proc, spawned, ready, listed, alive,
                 probed, nextId, pending, call>>

(* The process has been waited for: stop unregisters, restart pops the name. *)
Stopped(h) ==
  LET k == victim[h] IN
  /\ job[h] = "stopping"
  /\ Shutdown(k)
  /\ UnregisterTools(k)
  /\ current' = NoClient
  /\ job' = [job EXCEPT ![h] = "starting"]
  /\ UNCHANGED <<victim, supVars, spawned, ready, probed, nextId, pending, call>>

Start(h) ==
  /\ job[h] = "starting"
  /\ Spawn(h)
  /\ job' = [job EXCEPT ![h] = "probing"]
  /\ UNCHANGED <<victim, supVars>>

(* start succeeds: the supervisor is created, the manager keeps the client. *)
Started(h) ==
  /\ job[h] = "probing"
  /\ Probed(h)
  /\ sup' = [sup EXCEPT ![h] = "watching"]
  /\ current' = h
  /\ job' = [job EXCEPT ![h] = "done"]
  /\ UNCHANGED <<victim, failures>>

(* start raises: there is no command to run, the handshake fails or takes   *)
(* too long.  The manager does not keep the client.                         *)
StartFails(h) ==
  /\ \/ job[h] = "starting" /\ ProbeFails
     \/ job[h] = "probing" /\ (ProbeFails \/ ProbeTimesOut(h))
  /\ job' = [job EXCEPT ![h] = "done"]
  /\ UNCHANGED <<victim, supVars>>

-----------------------------------------------------------------------------
(* _supervise.                                                              *)

ExitKeepsTools(k) ==   \* the tools stay until the respawn registers them again
  /\ sup[k] = "watching" /\ proc[k] # 0 /\ Server(k) \notin alive
  /\ sup' = [sup EXCEPT ![k] = "backoff"]
  /\ ready' = [ready EXCEPT ![k] = FALSE]
  /\ UNCHANGED <<managerVars, failures, proc, spawned, listed, alive, readers, probed, rpcVars>>

(* The process exits: its tools go, then the backoff. *)
Exit(k) ==
  /\ sup[k] = "watching" /\ proc[k] # 0 /\ Server(k) \notin alive
  /\ sup' = [sup EXCEPT ![k] = "backoff"]
  /\ ready' = [ready EXCEPT ![k] = FALSE]
  /\ UnregisterTools(k)
  /\ UNCHANGED <<current, job, victim, failures, proc, spawned, alive, readers, probed, rpcVars>>

(* `if proc is None: return`: what a handshake that timed out leaves. *)
NothingToWatch(k) ==
  /\ sup[k] = "watching" /\ proc[k] = 0
  /\ sup' = [sup EXCEPT ![k] = "over"]
  /\ UNCHANGED <<managerVars, failures, proc, spawned, ready, listed, alive, readers,
                 probed, rpcVars>>

Respawn(k) ==
  /\ sup[k] = "backoff" /\ Server(k) \notin readers
  /\ Spawn(k)
  /\ sup' = [sup EXCEPT ![k] = "probing"]
  /\ UNCHANGED <<job, victim, failures>>

RespawnedOnce(k) ==   \* the loop ends with the first respawn
  /\ sup[k] = "probing"
  /\ Probed(k)
  /\ sup' = [sup EXCEPT ![k] = "over"]
  /\ failures' = [failures EXCEPT ![k] = 0]
  /\ UNCHANGED <<current, job, victim>>

Respawned(k) ==
  /\ sup[k] = "probing"
  /\ Probed(k)
  /\ sup' = [sup EXCEPT ![k] = "watching"]
  /\ failures' = [failures EXCEPT ![k] = 0]
  /\ UNCHANGED <<current, job, victim>>

(* `except Exception`: counted, and the loop goes on with whatever _proc is. *)
RespawnFails(k) ==
  /\ \/ sup[k] = "backoff" /\ Server(k) \notin readers /\ ProbeFails
     \/ sup[k] = "probing" /\ (ProbeFails \/ ProbeTimesOut(k))
  /\ failures' = [failures EXCEPT ![k] = @ + 1]
  /\ sup' = [sup EXCEPT ![k] = IF failures[k] + 1 >= GiveUpAfter THEN "over" ELSE "watching"]
  /\ UNCHANGED <<job, victim>>

-----------------------------------------------------------------------------
(* Tool calls.                                                              *)

rest == <<managerVars, supVars, proc, spawned, ready, listed, alive, readers, probed>>

(* The loop looks the tool up, and may wait for a human before it runs it.  *)
Resolve(c) ==
  /\ call[c].at = "idle" /\ registry # NoClient
  /\ call' = [call EXCEPT ![c].at = "resolved", ![c].client = registry]
  /\ UNCHANGED <<rest, nextId, pending, inbox>>

LowestFreeId(k) ==   \* an id comes back when its call ends
  CHOOSE i \in Ids: pending[k][i] = NoCall /\ \A j \in Ids: j < i => pending[k][j] # NoCall

FreshId(k) == nextId[k] + 1

(* call_tool up to the wait in _rpc.  Without a process to write to, or with *)
(* a broken pipe, _send_raw raises before the `try`: the entry stays.       *)
Invoke(c) ==
  LET k == call[c].client
      i == FreshId(k) IN
  /\ call[c].at = "resolved"
  /\ IF ~ready[k]
     THEN /\ call' = [call EXCEPT ![c] = Outside("failed", NoCall)]
          /\ UNCHANGED <<nextId, pending, inbox>>
     ELSE /\ nextId[k] < MaxId
          /\ nextId' = [nextId EXCEPT ![k] = @ + 1]
          /\ pending' = [pending EXCEPT ![k][i] = c]
          /\ \/ /\ proc[k] # 0
                /\ call' = [call EXCEPT ![c].at = "awaiting", ![c].id = i]
                /\ inbox' = IF Running(k) /\ Server(k) \in readers
                            THEN inbox \union {[server |-> Server(k), id |-> i, by |-> c]}
                            ELSE inbox
             \/ /\ ~Running(k)
                /\ call' = [call EXCEPT ![c] = Outside("failed", NoCall)]
                /\ UNCHANGED inbox
  /\ UNCHANGED rest

(* _read_loop takes an answer off a server's stdout and looks its id up.    *)
Dispatch(r) ==
  LET k == r.server[1]
      c == pending[k][r.id] IN
  /\ r \in inbox
  /\ inbox' = inbox \ {r}
  /\ call' = IF c # NoCall /\ call[c].answer = NoCall
             THEN [call EXCEPT ![c].answer = r.by] ELSE call
  /\ UNCHANGED <<rest, nextId, pending>>

(* _rpc resumes, with an answer or cancelled by wait_for: `finally` pops the *)
(* id, whoever has it by now.                                               *)
Return(c, outcome) ==
  /\ call[c].at = "awaiting"
  /\ call' = [call EXCEPT ![c] = Outside(outcome, call[c].answer)]
  /\ pending' = [pending EXCEPT ![call[c].client][call[c].id] = NoCall]
  /\ UNCHANGED <<rest, nextId, inbox>>

Answered(c) == call[c].answer # NoCall /\ Return(c, "answered")
TimesOutIfServed(c) == Return(c, "failed") /\ Running(call[c].client)   \* no timer once the server is gone
TimesOut(c) == Return(c, "failed")

-----------------------------------------------------------------------------
(* A process exits by itself; its reader then comes to the end of stdout.  A *)
(* reader also ends, its server alive, on a line that is too long for it.   *)
Crash(s) ==
  /\ s \in alive
  /\ alive' = alive \ {s}
  /\ UNCHANGED <<managerVars, supVars, rpcVars, proc, spawned, ready, listed, readers, probed>>

ReaderEnds(s) ==
  /\ s \in readers
  /\ StopReading(s)
  /\ UNCHANGED <<managerVars, supVars, nextId, pending, call, proc, spawned, ready, listed,
                 alive, probed>>

Eof(s) == s \notin alive /\ ReaderEnds(s)

Next ==
  \/ \E h \in Handlers: Stop(h) \/ Stopped(h) \/ Start(h) \/ Started(h) \/ StartFails(h)
  \/ \E k \in Handlers: \/ Exit(k) \/ NothingToWatch(k) \/ Respawn(k) \/ Respawned(k)
                        \/ RespawnFails(k)
  \/ \E c \in Calls: Resolve(c) \/ Invoke(c) \/ Answered(c) \/ TimesOut(c)
  \/ \E r \in inbox: Dispatch(r)
  \/ \E s \in Servers: Crash(s) \/ ReaderEnds(s)

(* Every wait of the program has a timeout or ends with a process; nothing  *)
(* is assumed of users, of servers that answer or of calls being made.      *)
Fairness ==
  /\ \A h \in Handlers: /\ WF_vars(Stopped(h)) /\ WF_vars(Start(h))
                        /\ WF_vars(job[h] = "probing" /\ (Started(h) \/ StartFails(h)))
                        /\ WF_vars(Exit(h)) /\ WF_vars(NothingToWatch(h)) /\ WF_vars(Respawn(h))
                        /\ WF_vars(sup[h] = "probing" /\ (Respawned(h) \/ RespawnFails(h)))
  /\ \A c \in Calls: WF_vars(Invoke(c)) /\ WF_vars(TimesOut(c) \/ Answered(c))
  /\ \A s \in Servers: WF_vars(Eof(s))

Spec == Init /\ [][Next]_vars /\ Fairness

-----------------------------------------------------------------------------
ManagerTypeOK ==
  /\ current \in Handlers \union {NoClient} /\ registry \in Handlers \union {NoClient}
  /\ job \in [Handlers -> {"idle", "stopping", "starting", "probing", "done"}]
  /\ victim \in [Handlers -> Handlers \union {NoClient}]

ClientTypeOK ==
  /\ proc \in [Handlers -> Nat] /\ spawned \in [Handlers -> Nat]
  /\ \A k \in Handlers: proc[k] \in 0..MaxServers[k] /\ spawned[k] \in 0..MaxServers[k]
  /\ sup \in [Handlers -> {"none", "watching", "backoff", "probing", "over", "cancelled"}]
  /\ failures \in [Handlers -> 0..GiveUpAfter]
  /\ ready \in [Handlers -> BOOLEAN] /\ listed \in [Handlers -> BOOLEAN]
  /\ alive \subseteq Servers /\ readers \subseteq Servers /\ probed \subseteq Servers

RequestTypeOK ==
  /\ nextId \in [Handlers -> 0..MaxId]
  /\ pending \in [Handlers -> [Ids -> Calls \union {NoCall}]]
  /\ inbox \subseteq [server: Servers, id: Ids, by: Calls]
  /\ call \in [Calls -> [at: {"idle", "resolved", "awaiting", "answered", "failed"},
                         client: Handlers \union {NoClient}, id: 0..MaxId,
                         answer: Calls \union {NoCall}]]

(* The types of the variables, and what they may count to: ids and spawned   *)
(* processes stay in their bounds, failures never pass GiveUpAfter.         *)
TypeOK == ManagerTypeOK /\ ClientTypeOK /\ RequestTypeOK

(* A call is given the answer to its own request, whatever was late, timed  *)
(* out or answered out of order before it, and however often ids restart.   *)
AnswerIsOwn == \A c \in Calls: call[c].answer \in {NoCall, c}

(* The tool in the registry is the one its client believes it has there, and *)
(* comes from that client's present process, whose handshake was completed: *)
(* no client removes another's tool or leaves its own behind.               *)
RegisteredIsServed ==
  \A k \in Handlers: /\ listed[k] <=> registry = k
                     /\ registry = k => Server(k) \in probed

(* No tool call is sent to a server before its handshake is over, though     *)
(* calls looked up before a crash or a restart are made during it.          *)
CallsAfterHandshake == \A r \in inbox: r.server \in probed

(* A client object has one process at most, the one it can still terminate: *)
(* respawns, failed handshakes and restarts leave no second one behind.     *)
ProcessHeld == \A s \in alive: proc[s[1]] = s[2]

(* The client a restart stopped is over: it has no process, no tool, and    *)
(* its supervisor brings neither back.                                      *)
StopIsFinal ==
  \A h \in Handlers, k \in Handlers:
    victim[h] = k /\ job[h] \in {"starting", "probing", "done"} =>
      /\ registry # k
      /\ \A n \in 1..MaxServers[k]: <<k, n>> \notin alive

(* The tools of a server that died leave the registry, after any number of  *)
(* respawns and whether or not the manager still knows the client.          *)
DeadToolsGo ==
  \A k \in Handlers: (registry = k /\ ~Running(k)) ~> (registry # k)

(* Every call and every restart ends, also when its server dies under it.   *)
EveryWaitEnds ==
  /\ \A c \in Calls: (call[c].at = "awaiting") ~> (call[c].at \in {"answered", "failed"})
  /\ \A h \in Handlers: (job[h] \in {"stopping", "probing"}) ~> (job[h] \in {"starting", "done"})
=============================================================================
