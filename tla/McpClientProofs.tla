-------------------------- MODULE McpClientProofs --------------------------
(* What the MCP client keeps true for any number of restarts, respawns and   *)
(* tool calls, whatever dies or times out meanwhile.                        *)
EXTENDS McpClient, TLAPS

(* A client object before, during and after its start, and under its        *)
(* supervisor: a client without a completed handshake offers nothing.       *)
ClientInv(k) ==
  /\ job[k] # "done" => sup[k] = "none" /\ ~listed[k] /\ ~ready[k]
  /\ job[k] \in {"idle", "stopping", "starting"} => proc[k] = 0
  /\ sup[k] = "none" => failures[k] = 0
  /\ sup[k] \in {"watching", "backoff", "probing"} => failures[k] < GiveUpAfter
  /\ sup[k] \in {"backoff", "probing"} => ~listed[k] /\ ~ready[k]
  /\ sup[k] = "backoff" => Server(k) \notin alive
  /\ ready[k] /\ proc[k] # 0 => Server(k) \in probed

(* What a restart may count on about the client it stops. *)
ManagerInv(h) ==
  /\ current = h => job[h] = "done"
  /\ job[h] = "stopping" => victim[h] # NoClient
  /\ victim[h] # NoClient =>
       /\ sup[victim[h]] = "cancelled" /\ job[victim[h]] = "done"
       /\ job[h] \in {"starting", "probing", "done"} =>
            proc[victim[h]] = 0 /\ ~listed[victim[h]]

(* A reader reads its client's present process, and an answer on its way     *)
(* finds its own call under its id, or nobody.                              *)
RequestInv ==
  /\ \A s \in readers: proc[s[1]] = s[2]
  /\ \A r \in inbox: /\ r.server \in readers
                     /\ r.id <= nextId[r.server[1]]
                     /\ pending[r.server[1]][r.id] \in {NoCall, r.by}
  /\ \A c \in Calls: /\ call[c].at \in {"resolved", "awaiting"} => call[c].client \in Handlers
                     /\ call[c].at = "awaiting" => call[c].id \in Ids

IInv ==
  /\ TypeOK
  /\ \A k \in Handlers: ClientInv(k) /\ ManagerInv(k)
  /\ RequestInv
  /\ AnswerIsOwn /\ RegisteredIsServed /\ CallsAfterHandshake /\ ProcessHeld

(* A server is its client and its number, and the client's present one has it. *)
LEMMA ServerPairs ==
  /\ \A k \in Handlers, n \in Nat: <<k, n>> \in Servers <=> n \in 1..MaxServers[k]
  /\ \A s \in Servers: /\ s[1] \in Handlers /\ s[2] \in Nat \ {0} /\ s = <<s[1], s[2]>>
PROOF
  <1>1. \A k \in Handlers: MaxServers[k] \in Nat \ {0}
    BY McpAssumption
  <1> QED
    BY <1>1 DEF Servers

(* What the types say of the parts of requests and of a client's process. *)
LEMMA Parts ==
  ASSUME ClientTypeOK, RequestTypeOK
  PROVE  /\ \A r \in inbox: /\ r.server \in Servers /\ r.server[1] \in Handlers
                            /\ r.id \in Ids /\ r.by \in Calls
         /\ \A k \in Handlers: Server(k)[1] = k /\ Server(k)[2] = proc[k] /\ proc[k] \in Nat
         /\ \A c \in Calls: /\ call[c].client \in Handlers \union {NoClient}
                            /\ call[c].id \in 0..MaxId
                            /\ call[c].answer \in Calls \union {NoCall}
PROOF
  BY ServerPairs DEF ClientTypeOK, RequestTypeOK, Server

(* Nothing is spawned, registered or asked for at first. *)
LEMMA InitInv == Init => IInv
PROOF
  <1> SUFFICES ASSUME Init PROVE IInv
    OBVIOUS
  <1> USE McpAssumption
  <1>1. TypeOK
    BY DEF Init, TypeOK, ManagerTypeOK, ClientTypeOK, RequestTypeOK, Handlers, Outside, Ids
  <1>2. \A k \in Handlers: ClientInv(k) /\ ManagerInv(k)
    BY DEF Init, ClientInv, ManagerInv, Handlers, Server
  <1>3. RequestInv
    BY DEF Init, RequestInv, Outside
  <1>4. AnswerIsOwn /\ RegisteredIsServed /\ CallsAfterHandshake /\ ProcessHeld
    BY DEF Init, AnswerIsOwn, RegisteredIsServed, CallsAfterHandshake, ProcessHeld,
       Outside, Handlers
  <1> QED
    BY <1>1, <1>2, <1>3, <1>4 DEF IInv

(* A new process of a client that has none: nobody reads the old one, and no *)
(* answer is on its way, so the ids may start again.                        *)
LEMMA SpawnKeeps ==
  ASSUME IInv, NEW k \in Handlers, Spawn(k), ~ready[k], ~listed[k],
         Server(k) \notin alive, Server(k) \notin readers
  PROVE  /\ RequestTypeOK' /\ RequestInv' /\ ProcessHeld'
         /\ AnswerIsOwn' /\ RegisteredIsServed' /\ CallsAfterHandshake'
         /\ proc' \in [Handlers -> Nat] /\ spawned' \in [Handlers -> Nat]
         /\ \A j \in Handlers: proc'[j] \in 0..MaxServers[j] /\ spawned'[j] \in 0..MaxServers[j]
         /\ alive' \subseteq Servers /\ readers' \subseteq Servers
         /\ \A j \in Handlers: j # k => proc'[j] = proc[j] /\ Server(j)' = Server(j)
                                        /\ (Server(j) \in alive' => Server(j) \in alive)
PROOF
  <1> DEFINE n == spawned[k] + 1
  <1>0. ManagerTypeOK /\ ClientTypeOK /\ RequestTypeOK /\ RequestInv
    BY DEF IInv, TypeOK
  <1>1. n \in 1..MaxServers[k] /\ <<k, n>> \in Servers /\ n \in Nat
    BY <1>0, McpAssumption, ServerPairs DEF Spawn, ClientTypeOK
  <1>2. proc' = [proc EXCEPT ![k] = n] /\ spawned' = [spawned EXCEPT ![k] = n]
        /\ alive' = alive \union {<<k, n>>} /\ readers' = readers \union {<<k, n>>}
    BY DEF Spawn
  <1>3. ASSUME NEW s \in readers PROVE s[1] # k
    BY <1>0, ServerPairs DEF RequestInv, ClientTypeOK, Server
  <1>4. ASSUME NEW s \in alive PROVE s[1] # k
    BY <1>0, ServerPairs DEF ProcessHeld, IInv, ClientTypeOK, Server
  <1>5. ASSUME NEW r \in inbox
        PROVE  /\ r.server[1] # k /\ r.server[1] \in Handlers /\ r.id \in Ids
               /\ r.server \in readers
    BY <1>0, <1>3, Parts DEF RequestInv
  <1>6. /\ proc' \in [Handlers -> Nat] /\ spawned' \in [Handlers -> Nat]
        /\ \A j \in Handlers: proc'[j] \in 0..MaxServers[j] /\ spawned'[j] \in 0..MaxServers[j]
        /\ alive' \subseteq Servers /\ readers' \subseteq Servers
    <2>1. \A j \in Handlers: MaxServers[j] \in Nat \ {0}
      BY McpAssumption
    <2>2. proc' \in [Handlers -> Nat] /\ spawned' \in [Handlers -> Nat]
      BY <1>0, <1>1, <1>2 DEF ClientTypeOK
    <2>3. ASSUME NEW j \in Handlers
          PROVE  proc'[j] \in 0..MaxServers[j] /\ spawned'[j] \in 0..MaxServers[j]
      BY <1>0, <1>1, <1>2, <2>1 DEF ClientTypeOK
    <2> QED
      BY <1>0, <1>1, <1>2, <2>2, <2>3 DEF ClientTypeOK
  <1>7. /\ nextId' = [nextId EXCEPT ![k] = 0]
        /\ pending' = [pending EXCEPT ![k] = [i \in Ids |-> NoCall]]
        /\ UNCHANGED <<current, registry, probed, inbox, call, ready, listed>>
    BY DEF Spawn
  <1>8. RequestTypeOK'
    <2>1. nextId' \in [Handlers -> 0..MaxId]
      BY <1>0, <1>7, McpAssumption DEF RequestTypeOK
    <2>2. pending' \in [Handlers -> [Ids -> Calls \union {NoCall}]]
      BY <1>0, <1>7 DEF RequestTypeOK
    <2> QED
      BY <1>0, <1>7, <2>1, <2>2 DEF RequestTypeOK
  <1>9. \A j \in Handlers: j # k => proc'[j] = proc[j] /\ Server(j)' = Server(j)
                                        /\ (Server(j) \in alive' => Server(j) \in alive)
    BY <1>0, <1>2 DEF ClientTypeOK, Server
  <1>10. RequestInv'
    <2>1. ASSUME NEW s \in readers' PROVE proc'[s[1]] = s[2]
      BY <1>0, <1>1, <1>2, <1>3, ServerPairs DEF ClientTypeOK, RequestInv
    <2>2. ASSUME NEW r \in inbox'
          PROVE  /\ r.server \in readers' /\ r.id <= nextId'[r.server[1]]
                 /\ pending'[r.server[1]][r.id] \in {NoCall, r.by}
      BY <1>0, <1>2, <1>5, <1>7 DEF RequestInv, RequestTypeOK
    <2> QED
      BY <1>0, <1>7, <2>1, <2>2 DEF RequestInv
  <1>11. ProcessHeld'
    <2>1. ASSUME NEW s \in alive' PROVE proc'[s[1]] = s[2]
      BY <1>0, <1>1, <1>2, <1>4, ServerPairs DEF ClientTypeOK, ProcessHeld, IInv
    <2> QED
      BY <2>1 DEF ProcessHeld
  <1>12. AnswerIsOwn' /\ CallsAfterHandshake'
    BY <1>7 DEF IInv, AnswerIsOwn, CallsAfterHandshake
  <1>13. RegisteredIsServed'
    <2>1. registry # k
      BY DEF IInv, RegisteredIsServed
    <2> QED
      BY <2>1, <1>7, <1>9 DEF IInv, RegisteredIsServed
  <1> QED
    BY <1>6, <1>8, <1>9, <1>10, <1>11, <1>12, <1>13

(* A process that is terminated is read no more and held no more. *)
LEMMA ShutdownKeeps ==
  ASSUME IInv, NEW k \in Handlers, Shutdown(k), UNCHANGED <<nextId, pending, call>>
  PROVE  /\ RequestTypeOK' /\ RequestInv' /\ ProcessHeld'
         /\ proc' \in [Handlers -> Nat]
         /\ \A j \in Handlers: proc'[j] \in 0..MaxServers[j]
         /\ alive' \subseteq alive /\ readers' \subseteq readers /\ inbox' \subseteq inbox
         /\ proc'[k] = 0
         /\ \A j \in Handlers: j # k => proc'[j] = proc[j] /\ Server(j)' = Server(j)
PROOF
  <1>0. ClientTypeOK /\ RequestTypeOK /\ RequestInv /\ ProcessHeld
    BY DEF IInv, TypeOK
  <1>1. /\ proc' = [proc EXCEPT ![k] = 0] /\ alive' = alive \ {Server(k)}
        /\ readers' = readers \ {Server(k)} /\ inbox' = {r \in inbox : r.server # Server(k)}
    BY DEF Shutdown, StopReading
  <1>2. ASSUME NEW s \in Servers, s # Server(k), proc[s[1]] = s[2] PROVE s[1] # k
    BY <1>2, ServerPairs DEF Server
  <1>3. proc' \in [Handlers -> Nat] /\ proc'[k] = 0
        /\ \A j \in Handlers: j # k => proc'[j] = proc[j] /\ Server(j)' = Server(j)
    BY <1>0, <1>1 DEF ClientTypeOK, Server
  <1>4. \A j \in Handlers: proc'[j] \in 0..MaxServers[j]
    <2>1. \A j \in Handlers: MaxServers[j] \in Nat \ {0}
      BY McpAssumption
    <2> QED
      BY <1>0, <1>3, <2>1 DEF ClientTypeOK
  <1>5. RequestTypeOK'
    BY <1>0, <1>1 DEF RequestTypeOK
  <1>6. RequestInv'
    <2>1. ASSUME NEW s \in readers' PROVE proc'[s[1]] = s[2]
      BY <1>0, <1>1, <1>2, <1>3, ServerPairs DEF ClientTypeOK, RequestInv
    <2>2. ASSUME NEW r \in inbox'
          PROVE  /\ r.server \in readers' /\ r.id <= nextId'[r.server[1]]
                 /\ pending'[r.server[1]][r.id] \in {NoCall, r.by}
      BY <1>0, <1>1 DEF RequestInv
    <2> QED
      BY <1>0, <2>1, <2>2 DEF RequestInv
  <1>7. ProcessHeld'
    <2>1. ASSUME NEW s \in alive' PROVE proc'[s[1]] = s[2]
      BY <1>0, <1>1, <1>2, <1>3, ServerPairs DEF ClientTypeOK, ProcessHeld
    <2> QED
      BY <2>1 DEF ProcessHeld
  <1> QED
    BY <1>1, <1>3, <1>4, <1>5, <1>6, <1>7

(* A reader that ends takes the answers it had not read with it. *)
LEMMA StopReadingKeeps ==
  ASSUME IInv, NEW s, StopReading(s), UNCHANGED <<nextId, pending, call, proc, probed>>
  PROVE  RequestTypeOK' /\ RequestInv' /\ CallsAfterHandshake' /\ readers' \subseteq readers
PROOF
  <1>1. RequestTypeOK'
    BY DEF IInv, TypeOK, RequestTypeOK, StopReading
  <1>2. RequestInv'
    BY DEF IInv, RequestInv, StopReading
  <1> QED
    BY <1>1, <1>2 DEF StopReading, IInv, CallsAfterHandshake

(* A completed handshake registers the tools of a client that had none. *)
LEMMA ProbedKeeps ==
  ASSUME IInv, NEW k \in Handlers, Probed(k), ~listed[k]
  PROVE  /\ RegisteredIsServed' /\ CallsAfterHandshake' /\ registry' \in Handlers \union {NoClient}
         /\ probed' \subseteq Servers
PROOF
  <1>1. ManagerTypeOK /\ ClientTypeOK /\ RegisteredIsServed /\ CallsAfterHandshake
    BY DEF IInv, TypeOK
  <1>2. registry # k
    BY <1>1 DEF RegisteredIsServed
  <1>3. probed' = probed \union {Server(k)} /\ UNCHANGED <<proc, inbox>>
    BY DEF Probed, rpcVars
  <1>4. Server(k) \in Servers
    BY <1>1 DEF Probed, Running, ClientTypeOK
  <1>5. /\ registry' = IF registry = NoClient THEN k ELSE registry
        /\ listed' = [listed EXCEPT ![k] = @ \/ registry = NoClient]
    BY DEF Probed, RegisterTools
  <1>6. ASSUME NEW j \in Handlers
        PROVE  (listed'[j] <=> registry' = j) /\ (registry' = j => Server(j)' \in probed')
    <2>1. Server(j)' = Server(j) /\ j # NoClient /\ k # NoClient
      BY <1>3, McpAssumption DEF Server
    <2>2. CASE j = k
      BY <1>1, <1>2, <1>3, <1>5, <2>1, <2>2 DEF ClientTypeOK
    <2>3. CASE j # k
      BY <1>1, <1>3, <1>5, <2>1, <2>3 DEF ClientTypeOK, RegisteredIsServed
    <2> QED
      BY <2>2, <2>3
  <1>7. RegisteredIsServed'
    BY <1>6 DEF RegisteredIsServed
  <1> QED
    BY <1>1, <1>3, <1>4, <1>5, <1>7 DEF ClientTypeOK, ManagerTypeOK, CallsAfterHandshake

(* A restart stops the reader and the supervisor; the tools stay for now. *)
LEMMA StopInv == ASSUME IInv, NEW h \in Handlers, Stop(h) PROVE IInv'
PROOF
  <1> USE McpAssumption, ServerPairs, Parts
      DEF IInv, TypeOK, Stop, managerVars, supVars, rpcVars
  <1>0. RequestTypeOK' /\ RequestInv' /\ CallsAfterHandshake' /\ readers' \subseteq readers
    <2>1. CASE current = NoClient
      BY <2>1 DEF RequestTypeOK, RequestInv, CallsAfterHandshake
    <2>2. CASE current # NoClient
      BY <2>2, StopReadingKeeps
    <2> QED
      BY <2>1, <2>2
  <1>1. ManagerTypeOK'
    BY DEF ManagerTypeOK
  <1>2. ClientTypeOK'
    BY <1>0 DEF ManagerTypeOK, ClientTypeOK
  <1>3. RequestTypeOK'
    BY <1>0
  <1>4. ASSUME NEW k \in Handlers PROVE ClientInv(k)'
    BY DEF ManagerTypeOK, ClientTypeOK, ClientInv, ManagerInv, Server
  <1>5. ASSUME NEW k \in Handlers PROVE ManagerInv(k)'
    BY DEF ManagerTypeOK, ClientTypeOK, ClientInv, ManagerInv
  <1>6. RequestInv'
    BY <1>0
  <1>7. AnswerIsOwn'
    BY DEF RequestTypeOK, RequestInv, AnswerIsOwn
  <1>8. RegisteredIsServed'
    BY DEF ManagerTypeOK, ClientTypeOK, ClientInv, ManagerInv, RegisteredIsServed, Server
  <1>9. CallsAfterHandshake'
    BY <1>0
  <1>10. ProcessHeld'
    BY DEF ManagerTypeOK, ClientTypeOK, ClientInv, ManagerInv, ProcessHeld, Server
  <1> QED
    BY <1>1, <1>2, <1>3, <1>4, <1>5, <1>6, <1>7, <1>8, <1>9, <1>10

(* The stopped client's process and tools go, and only its own. *)
LEMMA StoppedInv == ASSUME IInv, NEW h \in Handlers, Stopped(h) PROVE IInv'
PROOF
  <1> USE McpAssumption
      DEF IInv, TypeOK, Stopped, UnregisterTools, managerVars, supVars, rpcVars
  <1> DEFINE v == victim[h]
  <1>a. v \in Handlers
    BY DEF ManagerTypeOK, ManagerInv
  <1>b. Shutdown(v) /\ UNCHANGED <<nextId, pending, call>>
    OBVIOUS
  <1>c. /\ RequestTypeOK' /\ RequestInv' /\ ProcessHeld' /\ proc' \in [Handlers -> Nat]
        /\ \A j \in Handlers: proc'[j] \in 0..MaxServers[j]
        /\ alive' \subseteq alive /\ readers' \subseteq readers /\ inbox' \subseteq inbox
        /\ proc'[v] = 0
        /\ \A j \in Handlers: j # v => proc'[j] = proc[j] /\ Server(j)' = Server(j)
    BY <1>a, <1>b, ShutdownKeeps
  <1>d. /\ listed' = [listed EXCEPT ![v] = FALSE]
        /\ sup[v] = "cancelled" /\ job[v] = "done" /\ v # h
        /\ registry' = IF listed[v] THEN NoClient ELSE registry
    BY <1>a DEF ManagerInv
  <1>1. ManagerTypeOK'
    BY DEF ManagerTypeOK
  <1>2. ClientTypeOK'
    BY <1>c, <1>d DEF ClientTypeOK
  <1>3. RequestTypeOK'
    BY <1>c
  <1>4. ASSUME NEW k \in Handlers PROVE ClientInv(k)'
    BY <1>a, <1>c, <1>d DEF ManagerTypeOK, ClientTypeOK, ClientInv
  <1>5. ASSUME NEW k \in Handlers PROVE ManagerInv(k)'
    BY <1>a, <1>c, <1>d DEF ManagerTypeOK, ClientTypeOK, ClientInv, ManagerInv
  <1>6. RequestInv'
    BY <1>c
  <1>7. AnswerIsOwn'
    BY DEF AnswerIsOwn
  <1>8. RegisteredIsServed'
    BY <1>a, <1>c, <1>d DEF ManagerTypeOK, ClientTypeOK, RegisteredIsServed
  <1>9. CallsAfterHandshake'
    BY <1>c DEF CallsAfterHandshake
  <1>10. ProcessHeld'
    BY <1>c
  <1> QED
    BY <1>1, <1>2, <1>3, <1>4, <1>5, <1>6, <1>7, <1>8, <1>9, <1>10

(* A fresh client spawns its first process. *)
LEMMA StartInv == ASSUME IInv, NEW h \in Handlers, Start(h) PROVE IInv'
PROOF
  <1> USE McpAssumption DEF IInv, TypeOK, Start, managerVars, supVars, rpcVars
  <1>b. /\ Spawn(h) /\ ~ready[h] /\ ~listed[h] /\ proc[h] = 0
        /\ Server(h) \notin alive /\ Server(h) \notin readers
    BY ServerPairs DEF ClientInv, ClientTypeOK, Server
  <1>c. /\ RequestTypeOK' /\ RequestInv' /\ ProcessHeld'
        /\ AnswerIsOwn' /\ RegisteredIsServed' /\ CallsAfterHandshake'
        /\ proc' \in [Handlers -> Nat] /\ spawned' \in [Handlers -> Nat]
        /\ \A j \in Handlers: proc'[j] \in 0..MaxServers[j] /\ spawned'[j] \in 0..MaxServers[j]
        /\ alive' \subseteq Servers /\ readers' \subseteq Servers
        /\ \A j \in Handlers: j # h => proc'[j] = proc[j] /\ Server(j)' = Server(j)
                                       /\ (Server(j) \in alive' => Server(j) \in alive)
    BY <1>b, SpawnKeeps
  <1>d. UNCHANGED <<current, registry, probed, ready, listed>>
    BY DEF Spawn
  <1>1. ManagerTypeOK'
    BY <1>d DEF ManagerTypeOK
  <1>2. ClientTypeOK'
    BY <1>c, <1>d DEF ClientTypeOK
  <1>3. RequestTypeOK'
    BY <1>c
  <1>4. ASSUME NEW k \in Handlers PROVE ClientInv(k)'
    BY <1>b, <1>c, <1>d DEF ManagerTypeOK, ClientTypeOK, ClientInv
  <1>5. ASSUME NEW k \in Handlers PROVE ManagerInv(k)'
    BY <1>b, <1>c, <1>d DEF ManagerTypeOK, ClientTypeOK, ClientInv, ManagerInv
  <1>6. RequestInv'
    BY <1>c
  <1>7. AnswerIsOwn'
    BY <1>c
  <1>8. RegisteredIsServed'
    BY <1>c
  <1>9. CallsAfterHandshake'
    BY <1>c
  <1>10. ProcessHeld'
    BY <1>c
  <1> QED
    BY <1>1, <1>2, <1>3, <1>4, <1>5, <1>6, <1>7, <1>8, <1>9, <1>10

(* A fresh client registers its tools after its handshake. *)
LEMMA StartedInv == ASSUME IInv, NEW h \in Handlers, Started(h) PROVE IInv'
PROOF
  <1> USE McpAssumption, ServerPairs, Parts
      DEF IInv, TypeOK, Started, managerVars, supVars, rpcVars
  <1>a. ~listed[h] /\ sup[h] = "none" /\ failures[h] = 0
    BY DEF ClientInv
  <1>b. /\ RegisteredIsServed' /\ CallsAfterHandshake' /\ registry' \in Handlers \union {NoClient}
        /\ probed' \subseteq Servers
    BY <1>a, ProbedKeeps
  <1> USE DEF Probed, RegisterTools, Running
  <1>1. ManagerTypeOK'
    BY <1>b DEF ManagerTypeOK
  <1>2. ClientTypeOK'
    BY <1>a, <1>b DEF ManagerTypeOK, ClientTypeOK
  <1>3. RequestTypeOK'
    BY DEF ManagerTypeOK, RequestTypeOK, RequestInv, ClientInv, Server, Ids
  <1>4. ASSUME NEW k \in Handlers PROVE ClientInv(k)'
    BY <1>a DEF ManagerTypeOK, ClientTypeOK, ClientInv, ManagerInv, Server
  <1>5. ASSUME NEW k \in Handlers PROVE ManagerInv(k)'
    BY DEF ManagerTypeOK, ClientTypeOK, ClientInv, ManagerInv
  <1>6. RequestInv'
    BY DEF ManagerTypeOK, ClientTypeOK, RequestTypeOK, ClientInv, ManagerInv, RequestInv,
       Server, Ids
  <1>7. AnswerIsOwn'
    BY DEF RequestTypeOK, RequestInv, AnswerIsOwn
  <1>8. RegisteredIsServed'
    BY <1>b
  <1>9. CallsAfterHandshake'
    BY <1>b
  <1>10. ProcessHeld'
    BY DEF ManagerTypeOK, ClientTypeOK, ClientInv, ManagerInv, ProcessHeld, Server
  <1> QED
    BY <1>1, <1>2, <1>3, <1>4, <1>5, <1>6, <1>7, <1>8, <1>9, <1>10

(* A start that fails leaves no tool. *)
LEMMA StartFailsInv == ASSUME IInv, NEW h \in Handlers, StartFails(h) PROVE IInv'
PROOF
  <1> USE McpAssumption DEF IInv, TypeOK, StartFails, managerVars, supVars, rpcVars
  <1>a. ~listed[h] /\ ~ready[h] /\ sup[h] = "none"
    BY DEF ClientInv
  <1>b. /\ RequestTypeOK' /\ RequestInv' /\ ProcessHeld' /\ proc' \in [Handlers -> Nat]
        /\ \A j \in Handlers: proc'[j] \in 0..MaxServers[j]
        /\ alive' \subseteq alive /\ readers' \subseteq readers /\ inbox' \subseteq inbox
        /\ \A j \in Handlers: j # h => proc'[j] = proc[j] /\ Server(j)' = Server(j)
        /\ UNCHANGED <<current, registry, spawned, ready, listed, probed, call>>
    <2>1. CASE ProbeFails
      BY <2>1 DEF ProbeFails, RequestTypeOK, RequestInv, ProcessHeld, ClientTypeOK, Server
    <2>2. CASE ProbeTimesOut(h)
      <3>1. /\ Shutdown(h)
            /\ UNCHANGED <<current, registry, spawned, ready, listed, probed, nextId,
                           pending, call>>
        BY <2>2 DEF ProbeTimesOut
      <3> QED
        BY <3>1, ShutdownKeeps
    <2> QED
      BY <2>1, <2>2
  <1>1. ManagerTypeOK'
    BY <1>b DEF ManagerTypeOK
  <1>2. ClientTypeOK'
    BY <1>b DEF ClientTypeOK
  <1>3. RequestTypeOK'
    BY <1>b
  <1>4. ASSUME NEW k \in Handlers PROVE ClientInv(k)'
    BY <1>a, <1>b DEF ManagerTypeOK, ClientTypeOK, ClientInv
  <1>5. ASSUME NEW k \in Handlers PROVE ManagerInv(k)'
    BY <1>a, <1>b DEF ManagerTypeOK, ClientTypeOK, ClientInv, ManagerInv
  <1>6. RequestInv'
    BY <1>b
  <1>7. AnswerIsOwn'
    BY <1>b DEF AnswerIsOwn
  <1>8. RegisteredIsServed'
    BY <1>a, <1>b DEF RegisteredIsServed
  <1>9. CallsAfterHandshake'
    BY <1>b DEF CallsAfterHandshake
  <1>10. ProcessHeld'
    BY <1>b
  <1> QED
    BY <1>1, <1>2, <1>3, <1>4, <1>5, <1>6, <1>7, <1>8, <1>9, <1>10

(* An exit takes the tools of its client from the registry. *)
LEMMA ExitInv == ASSUME IInv, NEW h \in Handlers, Exit(h) PROVE IInv'
PROOF
  <1> USE McpAssumption, ServerPairs, Parts
      DEF IInv, TypeOK, Exit, UnregisterTools, managerVars, supVars, rpcVars
  <1>1. ManagerTypeOK'
    BY DEF ManagerTypeOK
  <1>2. ClientTypeOK'
    BY DEF ManagerTypeOK, ClientTypeOK, ClientInv, ManagerInv, Server
  <1>3. RequestTypeOK'
    BY DEF ManagerTypeOK, RequestTypeOK, RequestInv, ClientInv, Server, Ids
  <1>4. ASSUME NEW k \in Handlers PROVE ClientInv(k)'
    BY DEF ManagerTypeOK, ClientTypeOK, ClientInv, ManagerInv, Server
  <1>5. ASSUME NEW k \in Handlers PROVE ManagerInv(k)'
    BY DEF ManagerTypeOK, ClientTypeOK, ClientInv, ManagerInv
  <1>6. RequestInv'
    BY DEF ManagerTypeOK, ClientTypeOK, RequestTypeOK, ClientInv, ManagerInv, RequestInv,
       Server, Ids
  <1>7. AnswerIsOwn'
    BY DEF RequestTypeOK, RequestInv, AnswerIsOwn
  <1>8. RegisteredIsServed'
    BY DEF ManagerTypeOK, ClientTypeOK, ClientInv, ManagerInv, RegisteredIsServed, Server
  <1>9. CallsAfterHandshake'
    BY DEF ManagerTypeOK, ClientTypeOK, RequestTypeOK, ClientInv, RequestInv,
       CallsAfterHandshake, Server
  <1>10. ProcessHeld'
    BY DEF ManagerTypeOK, ClientTypeOK, ClientInv, ManagerInv, ProcessHeld, Server
  <1> QED
    BY <1>1, <1>2, <1>3, <1>4, <1>5, <1>6, <1>7, <1>8, <1>9, <1>10

(* A supervisor without a process ends and changes nothing else. *)
LEMMA NothingToWatchInv == ASSUME IInv, NEW h \in Handlers, NothingToWatch(h) PROVE IInv'
PROOF
  <1> USE McpAssumption, ServerPairs, Parts
      DEF IInv, TypeOK, NothingToWatch, managerVars, supVars, rpcVars
  <1>1. ManagerTypeOK'
    BY DEF ManagerTypeOK
  <1>2. ClientTypeOK'
    BY DEF ManagerTypeOK, ClientTypeOK, ClientInv, ManagerInv, Server
  <1>3. RequestTypeOK'
    BY DEF ManagerTypeOK, RequestTypeOK, RequestInv, ClientInv, Server, Ids
  <1>4. ASSUME NEW k \in Handlers PROVE ClientInv(k)'
    BY DEF ManagerTypeOK, ClientTypeOK, ClientInv, ManagerInv, Server
  <1>5. ASSUME NEW k \in Handlers PROVE ManagerInv(k)'
    BY DEF ManagerTypeOK, ClientTypeOK, ClientInv, ManagerInv
  <1>6. RequestInv'
    BY DEF ManagerTypeOK, ClientTypeOK, RequestTypeOK, ClientInv, ManagerInv, RequestInv,
       Server, Ids
  <1>7. AnswerIsOwn'
    BY DEF RequestTypeOK, RequestInv, AnswerIsOwn
  <1>8. RegisteredIsServed'
    BY DEF ManagerTypeOK, ClientTypeOK, ClientInv, ManagerInv, RegisteredIsServed, Server
  <1>9. CallsAfterHandshake'
    BY DEF ManagerTypeOK, ClientTypeOK, RequestTypeOK, ClientInv, RequestInv,
       CallsAfterHandshake, Server
  <1>10. ProcessHeld'
    BY DEF ProcessHeld
  <1> QED
    BY <1>1, <1>2, <1>3, <1>4, <1>5, <1>6, <1>7, <1>8, <1>9, <1>10

(* A respawn replaces a process that is gone and no longer read. *)
LEMMA RespawnInv == ASSUME IInv, NEW h \in Handlers, Respawn(h) PROVE IInv'
PROOF
  <1> USE McpAssumption DEF IInv, TypeOK, Respawn, managerVars, supVars, rpcVars
  <1>b. /\ Spawn(h) /\ ~ready[h] /\ ~listed[h] /\ sup[h] = "backoff"
        /\ Server(h) \notin alive /\ Server(h) \notin readers
    BY DEF ClientInv
  <1>c. /\ RequestTypeOK' /\ RequestInv' /\ ProcessHeld'
        /\ AnswerIsOwn' /\ RegisteredIsServed' /\ CallsAfterHandshake'
        /\ proc' \in [Handlers -> Nat] /\ spawned' \in [Handlers -> Nat]
        /\ \A j \in Handlers: proc'[j] \in 0..MaxServers[j] /\ spawned'[j] \in 0..MaxServers[j]
        /\ alive' \subseteq Servers /\ readers' \subseteq Servers
        /\ \A j \in Handlers: j # h => proc'[j] = proc[j] /\ Server(j)' = Server(j)
                                       /\ (Server(j) \in alive' => Server(j) \in alive)
    BY <1>b, SpawnKeeps
  <1>d. UNCHANGED <<current, registry, probed, ready, listed>>
    BY DEF Spawn
  <1>1. ManagerTypeOK'
    BY <1>d DEF ManagerTypeOK
  <1>2. ClientTypeOK'
    BY <1>c, <1>d DEF ClientTypeOK
  <1>3. RequestTypeOK'
    BY <1>c
  <1>4. ASSUME NEW k \in Handlers PROVE ClientInv(k)'
    BY <1>b, <1>c, <1>d DEF ManagerTypeOK, ClientTypeOK, ClientInv
  <1>5. ASSUME NEW k \in Handlers PROVE ManagerInv(k)'
    BY <1>b, <1>c, <1>d DEF ManagerTypeOK, ClientTypeOK, ClientInv, ManagerInv
  <1>6. RequestInv'
    BY <1>c
  <1>7. AnswerIsOwn'
    BY <1>c
  <1>8. RegisteredIsServed'
    BY <1>c
  <1>9. CallsAfterHandshake'
    BY <1>c
  <1>10. ProcessHeld'
    BY <1>c
  <1> QED
    BY <1>1, <1>2, <1>3, <1>4, <1>5, <1>6, <1>7, <1>8, <1>9, <1>10

(* A respawned server registers its tools after its handshake. *)
LEMMA RespawnedInv == ASSUME IInv, NEW h \in Handlers, Respawned(h) PROVE IInv'
PROOF
  <1> USE McpAssumption, ServerPairs, Parts
      DEF IInv, TypeOK, Respawned, managerVars, supVars, rpcVars
  <1>a. ~listed[h] /\ failures[h] < GiveUpAfter
    BY DEF ClientInv
  <1>b. /\ RegisteredIsServed' /\ CallsAfterHandshake' /\ registry' \in Handlers \union {NoClient}
        /\ probed' \subseteq Servers
    BY <1>a, ProbedKeeps
  <1> USE DEF Probed, RegisterTools, Running
  <1>1. ManagerTypeOK'
    BY <1>b DEF ManagerTypeOK
  <1>2. ClientTypeOK'
    BY <1>a, <1>b DEF ManagerTypeOK, ClientTypeOK
  <1>3. RequestTypeOK'
    BY DEF ManagerTypeOK, RequestTypeOK, RequestInv, ClientInv, Server, Ids
  <1>4. ASSUME NEW k \in Handlers PROVE ClientInv(k)'
    BY <1>a DEF ManagerTypeOK, ClientTypeOK, ClientInv, ManagerInv, Server
  <1>5. ASSUME NEW k \in Handlers PROVE ManagerInv(k)'
    BY DEF ManagerTypeOK, ClientTypeOK, ClientInv, ManagerInv
  <1>6. RequestInv'
    BY DEF ManagerTypeOK, ClientTypeOK, RequestTypeOK, ClientInv, ManagerInv, RequestInv,
       Server, Ids
  <1>7. AnswerIsOwn'
    BY DEF RequestTypeOK, RequestInv, AnswerIsOwn
  <1>8. RegisteredIsServed'
    BY <1>b
  <1>9. CallsAfterHandshake'
    BY <1>b
  <1>10. ProcessHeld'
    BY DEF ManagerTypeOK, ClientTypeOK, ClientInv, ManagerInv, ProcessHeld, Server
  <1> QED
    BY <1>1, <1>2, <1>3, <1>4, <1>5, <1>6, <1>7, <1>8, <1>9, <1>10

(* A failed respawn counts a failure; a timed-out one holds no process. *)
LEMMA RespawnFailsInv == ASSUME IInv, NEW h \in Handlers, RespawnFails(h) PROVE IInv'
PROOF
  <1> USE McpAssumption DEF IInv, TypeOK, RespawnFails, managerVars, supVars, rpcVars
  <1>a. ~listed[h] /\ ~ready[h] /\ failures[h] < GiveUpAfter /\ sup[h] \in {"backoff", "probing"}
    BY DEF ClientInv
  <1>b. /\ RequestTypeOK' /\ RequestInv' /\ ProcessHeld' /\ proc' \in [Handlers -> Nat]
        /\ \A j \in Handlers: proc'[j] \in 0..MaxServers[j]
        /\ alive' \subseteq alive /\ readers' \subseteq readers /\ inbox' \subseteq inbox
        /\ \A j \in Handlers: j # h => proc'[j] = proc[j] /\ Server(j)' = Server(j)
        /\ UNCHANGED <<current, registry, spawned, ready, listed, probed, call>>
    <2>1. CASE ProbeFails
      BY <2>1 DEF ProbeFails, RequestTypeOK, RequestInv, ProcessHeld, ClientTypeOK, Server
    <2>2. CASE ProbeTimesOut(h)
      <3>1. /\ Shutdown(h)
            /\ UNCHANGED <<current, registry, spawned, ready, listed, probed, nextId,
                           pending, call>>
        BY <2>2 DEF ProbeTimesOut
      <3> QED
        BY <3>1, ShutdownKeeps
    <2> QED
      BY <2>1, <2>2
  <1>1. ManagerTypeOK'
    BY <1>b DEF ManagerTypeOK
  <1>2. ClientTypeOK'
    <2>1. failures[h] + 1 \in 0..GiveUpAfter
      BY <1>a DEF ClientTypeOK
    <2>2. failures' \in [Handlers -> 0..GiveUpAfter]
      BY <2>1 DEF ClientTypeOK
    <2>3. sup' \in [Handlers -> {"none", "watching", "backoff", "probing", "over", "cancelled"}]
      BY DEF ClientTypeOK
    <2> QED
      BY <1>b, <2>2, <2>3 DEF ClientTypeOK
  <1>3. RequestTypeOK'
    BY <1>b
  <1>4. ASSUME NEW k \in Handlers PROVE ClientInv(k)'
    BY <1>a, <1>b DEF ManagerTypeOK, ClientTypeOK, ClientInv
  <1>5. ASSUME NEW k \in Handlers PROVE ManagerInv(k)'
    BY <1>a, <1>b DEF ManagerTypeOK, ClientTypeOK, ClientInv, ManagerInv
  <1>6. RequestInv'
    BY <1>b
  <1>7. AnswerIsOwn'
    BY <1>b DEF AnswerIsOwn
  <1>8. RegisteredIsServed'
    BY <1>a, <1>b DEF RegisteredIsServed
  <1>9. CallsAfterHandshake'
    BY <1>b DEF CallsAfterHandshake
  <1>10. ProcessHeld'
    BY <1>b
  <1> QED
    BY <1>1, <1>2, <1>3, <1>4, <1>5, <1>6, <1>7, <1>8, <1>9, <1>10

(* The id a call takes is above every id an answer on its way has. *)
LEMMA InvokeInv == ASSUME IInv, NEW c \in Calls, Invoke(c) PROVE IInv'
PROOF
  <1> DEFINE k == call[c].client
             i == nextId[k] + 1
             CallType == [at: {"idle", "resolved", "awaiting", "answered", "failed"},
                          client: Handlers \union {NoClient}, id: 0..MaxId,
                          answer: Calls \union {NoCall}]
  <1>0. /\ ManagerTypeOK /\ ClientTypeOK /\ RequestTypeOK /\ RequestInv /\ AnswerIsOwn
        /\ CallsAfterHandshake /\ UNCHANGED rest
    BY DEF IInv, TypeOK, Invoke
  <1>1. k \in Handlers /\ nextId[k] \in 0..MaxId /\ call[c] \in CallType
    BY <1>0 DEF RequestInv, RequestTypeOK, Invoke
  <1>2. /\ UNCHANGED <<current, registry, job, victim, sup, failures, proc, spawned, ready, listed,
                       alive, readers, probed>>
    BY <1>0 DEF rest, managerVars, supVars
  <1>3. ManagerTypeOK' /\ ClientTypeOK'
    BY <1>0, <1>2 DEF ManagerTypeOK, ClientTypeOK
  <1>4. \A j \in Handlers: ClientInv(j)' /\ ManagerInv(j)'
    BY <1>2 DEF IInv, ClientInv, ManagerInv, Server
  <1>5. RegisteredIsServed' /\ ProcessHeld'
    BY <1>2 DEF IInv, RegisteredIsServed, ProcessHeld, Server
  <1>6. CASE ~ready[k]
    <2>1. /\ call' = [call EXCEPT ![c] = Outside("failed", NoCall)]
          /\ UNCHANGED <<nextId, pending, inbox>>
      BY <1>6 DEF Invoke
    <2>2. call'[c].at = "failed" /\ call'[c].answer = NoCall /\ call'[c] \in CallType
      BY <1>0, <2>1, McpAssumption DEF RequestTypeOK, Outside
    <2>3. call' \in [Calls -> CallType] /\ \A d \in Calls: d # c => call'[d] = call[d]
      BY <1>0, <2>1, <2>2 DEF RequestTypeOK
    <2>4. RequestTypeOK'
      BY <1>0, <2>1, <2>3 DEF RequestTypeOK
    <2>5. RequestInv'
      BY <1>0, <1>2, <2>1, <2>2, <2>3 DEF RequestInv
    <2>6. AnswerIsOwn' /\ CallsAfterHandshake'
      BY <1>0, <1>2, <2>1, <2>2, <2>3 DEF AnswerIsOwn, CallsAfterHandshake
    <2> QED
      BY <1>3, <1>4, <1>5, <2>4, <2>5, <2>6 DEF IInv, TypeOK
  <1>7. CASE ready[k]
    <2>1. /\ nextId[k] < MaxId /\ nextId' = [nextId EXCEPT ![k] = i]
          /\ pending' = [pending EXCEPT ![k][i] = c]
      BY <1>7 DEF Invoke, FreshId
    <2>2. i \in Ids /\ i \in 0..MaxId
      BY <1>1, <2>1, McpAssumption DEF Ids
    <2>3. /\ nextId' \in [Handlers -> 0..MaxId]
          /\ pending' \in [Handlers -> [Ids -> Calls \union {NoCall}]]
      BY <1>0, <1>1, <2>1, <2>2 DEF RequestTypeOK
    <2>4. ASSUME NEW r \in inbox
          PROVE  /\ r.server \in readers /\ r.id <= nextId'[r.server[1]]
                 /\ pending'[r.server[1]][r.id] \in {NoCall, r.by}
      <3>1. r.server[1] \in Handlers /\ r.id \in Ids
        BY <1>0, Parts
      <3>2. r.server \in readers /\ r.id <= nextId[r.server[1]]
            /\ pending[r.server[1]][r.id] \in {NoCall, r.by}
        BY <1>0 DEF RequestInv
      <3>3. CASE r.server[1] = k
        <4>1. r.id # i /\ r.id <= i
          BY <3>1, <3>2, <3>3, <1>1 DEF Ids
        <4> QED
          BY <1>0, <1>1, <2>1, <3>1, <3>2, <3>3, <4>1 DEF RequestTypeOK
      <3>4. CASE r.server[1] # k
        BY <1>0, <1>1, <2>1, <3>1, <3>2, <3>4 DEF RequestTypeOK
      <3> QED
        BY <3>3, <3>4
    <2>5. CASE /\ proc[k] # 0 /\ call' = [call EXCEPT ![c].at = "awaiting", ![c].id = i]
               /\ inbox' = IF Running(k) /\ Server(k) \in readers
                           THEN inbox \union {[server |-> Server(k), id |-> i, by |-> c]}
                           ELSE inbox
      <3>1. /\ call'[c].at = "awaiting" /\ call'[c].id = i /\ call'[c].client = k
            /\ call'[c].answer = call[c].answer /\ call'[c] \in CallType
        BY <1>0, <1>1, <2>2, <2>5 DEF RequestTypeOK
      <3>2. call' \in [Calls -> CallType] /\ \A d \in Calls: d # c => call'[d] = call[d]
        BY <1>0, <2>5, <3>1 DEF RequestTypeOK
      <3>3. ASSUME NEW r \in inbox', r \notin inbox
            PROVE  /\ r = [server |-> Server(k), id |-> i, by |-> c]
                   /\ Server(k) \in readers
        BY <2>5, <3>3
      <3>4. pending'[k][i] = c /\ nextId'[k] = i /\ Server(k)[1] = k
        BY <1>0, <1>1, <2>1, <2>2 DEF RequestTypeOK, Server
      <3>5. ASSUME NEW r \in inbox'
            PROVE  /\ r \in [server: Servers, id: Ids, by: Calls]
                   /\ r.server \in readers' /\ r.id <= nextId'[r.server[1]]
                   /\ pending'[r.server[1]][r.id] \in {NoCall, r.by}
                   /\ r.server \in probed'
        <4>1. CASE r \in inbox
          BY <4>1, <1>0, <1>2, <2>4 DEF RequestTypeOK, CallsAfterHandshake
        <4>2. CASE r \notin inbox
          <5>1. /\ r = [server |-> Server(k), id |-> i, by |-> c] /\ Server(k) \in readers
            BY <3>3, <4>2
          <5>2. Server(k) \in Servers /\ i <= i
            BY <5>1, <1>0, <1>1 DEF ClientTypeOK
          <5>3. Server(k) \in probed
            BY <1>1, <1>7, <2>5 DEF IInv, ClientInv
          <5>4. r.server = Server(k) /\ r.id = i /\ r.by = c
            BY <5>1
          <5> QED
            BY <5>1, <5>2, <5>3, <5>4, <3>4, <2>2, <1>2
        <4> QED
          BY <4>1, <4>2
      <3>6. RequestTypeOK'
        BY <2>3, <3>2, <3>5 DEF RequestTypeOK
      <3>7. RequestInv'
        <4>1. ASSUME NEW d \in Calls
              PROVE  /\ call'[d].at \in {"resolved", "awaiting"} => call'[d].client \in Handlers
                     /\ call'[d].at = "awaiting" => call'[d].id \in Ids
          BY <1>0, <1>1, <2>2, <3>1, <3>2 DEF RequestInv
        <4>2. \A s \in readers': proc'[s[1]] = s[2]
          BY <1>0, <1>2 DEF RequestInv
        <4> QED
          BY <3>5, <4>1, <4>2 DEF RequestInv
      <3>8. AnswerIsOwn' /\ CallsAfterHandshake'
        BY <1>0, <3>1, <3>2, <3>5 DEF AnswerIsOwn, CallsAfterHandshake
      <3> QED
        BY <1>3, <1>4, <1>5, <3>6, <3>7, <3>8 DEF IInv, TypeOK
    <2>6. CASE call' = [call EXCEPT ![c] = Outside("failed", NoCall)] /\ inbox' = inbox
      <3>1. call'[c].at = "failed" /\ call'[c].answer = NoCall /\ call'[c] \in CallType
        BY <1>0, <2>6, McpAssumption DEF RequestTypeOK, Outside
      <3>2. call' \in [Calls -> CallType] /\ \A d \in Calls: d # c => call'[d] = call[d]
        BY <1>0, <2>6, <3>1 DEF RequestTypeOK
      <3>3. RequestTypeOK'
        BY <1>0, <2>3, <2>6, <3>2 DEF RequestTypeOK
      <3>4. RequestInv'
        BY <1>0, <1>2, <2>4, <2>6, <3>1, <3>2 DEF RequestInv
      <3>5. AnswerIsOwn' /\ CallsAfterHandshake'
        BY <1>0, <1>2, <2>6, <3>1, <3>2 DEF AnswerIsOwn, CallsAfterHandshake
      <3> QED
        BY <1>3, <1>4, <1>5, <3>3, <3>4, <3>5 DEF IInv, TypeOK
    <2> QED
      BY <1>7, <2>5, <2>6 DEF Invoke, FreshId
  <1> QED
    BY <1>6, <1>7

(* Looking a tool up sends nothing. *)
LEMMA ResolveInv == ASSUME IInv, NEW c \in Calls, Resolve(c) PROVE IInv'
PROOF
  <1> DEFINE CallType == [at: {"idle", "resolved", "awaiting", "answered", "failed"},
                          client: Handlers \union {NoClient}, id: 0..MaxId,
                          answer: Calls \union {NoCall}]
  <1>0. /\ ManagerTypeOK /\ ClientTypeOK /\ RequestTypeOK /\ RequestInv /\ AnswerIsOwn
        /\ CallsAfterHandshake
    BY DEF IInv, TypeOK
  <1>1. /\ call' = [call EXCEPT ![c].at = "resolved", ![c].client = registry]
        /\ registry \in Handlers /\ UNCHANGED <<nextId, pending, inbox>>
    BY <1>0 DEF Resolve, ManagerTypeOK
  <1>2. UNCHANGED <<current, registry, job, victim, sup, failures, proc, spawned, ready, listed,
                    alive, readers, probed>>
    BY DEF Resolve, rest, managerVars, supVars
  <1>3. ManagerTypeOK' /\ ClientTypeOK'
    BY <1>0, <1>2 DEF ManagerTypeOK, ClientTypeOK
  <1>4. \A j \in Handlers: ClientInv(j)' /\ ManagerInv(j)'
    BY <1>2 DEF IInv, ClientInv, ManagerInv, Server
  <1>5. RegisteredIsServed' /\ ProcessHeld'
    BY <1>2 DEF IInv, RegisteredIsServed, ProcessHeld, Server
  <1>6. /\ call'[c].at = "resolved" /\ call'[c].client = registry
        /\ call'[c].answer = call[c].answer /\ call'[c] \in CallType
    BY <1>0, <1>1 DEF RequestTypeOK
  <1>7. call' \in [Calls -> CallType] /\ \A d \in Calls: d # c => call'[d] = call[d]
    BY <1>0, <1>1, <1>6 DEF RequestTypeOK
  <1>8. RequestTypeOK'
    BY <1>0, <1>1, <1>7 DEF RequestTypeOK
  <1>9. RequestInv'
    BY <1>0, <1>1, <1>2, <1>6, <1>7 DEF RequestInv
  <1>10. AnswerIsOwn' /\ CallsAfterHandshake'
    BY <1>0, <1>1, <1>2, <1>6, <1>7 DEF AnswerIsOwn, CallsAfterHandshake
  <1> QED
    BY <1>3, <1>4, <1>5, <1>8, <1>9, <1>10 DEF IInv, TypeOK

(* An answer goes to the call its id names, and that is the one that asked. *)
LEMMA DispatchInv == ASSUME IInv, NEW r \in inbox, Dispatch(r) PROVE IInv'
PROOF
  <1> DEFINE c == pending[r.server[1]][r.id]
             CallType == [at: {"idle", "resolved", "awaiting", "answered", "failed"},
                          client: Handlers \union {NoClient}, id: 0..MaxId,
                          answer: Calls \union {NoCall}]
  <1>0. /\ ManagerTypeOK /\ ClientTypeOK /\ RequestTypeOK /\ RequestInv /\ AnswerIsOwn
        /\ CallsAfterHandshake
    BY DEF IInv, TypeOK
  <1>1. /\ r.by \in Calls /\ c \in {NoCall, r.by} /\ inbox' = inbox \ {r}
        /\ UNCHANGED <<nextId, pending>>
        /\ call' = IF c # NoCall /\ call[c].answer = NoCall
                   THEN [call EXCEPT ![c].answer = r.by] ELSE call
    BY <1>0, Parts DEF RequestInv, Dispatch
  <1>2. UNCHANGED <<current, registry, job, victim, sup, failures, proc, spawned, ready, listed,
                    alive, readers, probed>>
    BY DEF Dispatch, rest, managerVars, supVars
  <1>3. ManagerTypeOK' /\ ClientTypeOK'
    BY <1>0, <1>2 DEF ManagerTypeOK, ClientTypeOK
  <1>4. \A j \in Handlers: ClientInv(j)' /\ ManagerInv(j)'
    BY <1>2 DEF IInv, ClientInv, ManagerInv, Server
  <1>5. RegisteredIsServed' /\ ProcessHeld'
    BY <1>2 DEF IInv, RegisteredIsServed, ProcessHeld, Server
  <1>6. ASSUME NEW d \in Calls
        PROVE  /\ call'[d] \in CallType /\ call'[d].at = call[d].at
               /\ call'[d].client = call[d].client /\ call'[d].id = call[d].id
               /\ call'[d].answer \in {call[d].answer, d}
    BY <1>0, <1>1 DEF RequestTypeOK
  <1>7. call' \in [Calls -> CallType]
    BY <1>0, <1>1, <1>6 DEF RequestTypeOK
  <1>8. RequestTypeOK'
    BY <1>0, <1>1, <1>7 DEF RequestTypeOK
  <1>9. RequestInv'
    BY <1>0, <1>1, <1>2, <1>6 DEF RequestInv
  <1>10. AnswerIsOwn' /\ CallsAfterHandshake'
    BY <1>0, <1>1, <1>2, <1>6 DEF AnswerIsOwn, CallsAfterHandshake
  <1> QED
    BY <1>3, <1>4, <1>5, <1>8, <1>9, <1>10 DEF IInv, TypeOK

(* A call that ends removes the entry of its id, which can only lose answers. *)
LEMMA ReturnInv ==
  ASSUME IInv, NEW c \in Calls, NEW outcome \in {"answered", "failed"}, Return(c, outcome)
  PROVE  IInv'
PROOF
  <1> DEFINE k == call[c].client
             i == call[c].id
             CallType == [at: {"idle", "resolved", "awaiting", "answered", "failed"},
                          client: Handlers \union {NoClient}, id: 0..MaxId,
                          answer: Calls \union {NoCall}]
  <1>0. /\ ManagerTypeOK /\ ClientTypeOK /\ RequestTypeOK /\ RequestInv /\ AnswerIsOwn
        /\ CallsAfterHandshake
    BY DEF IInv, TypeOK
  <1>1. /\ k \in Handlers /\ i \in Ids /\ UNCHANGED <<nextId, inbox>>
        /\ call' = [call EXCEPT ![c] = Outside(outcome, call[c].answer)]
        /\ pending' = [pending EXCEPT ![k][i] = NoCall]
    BY <1>0 DEF RequestInv, Return
  <1>2. UNCHANGED <<current, registry, job, victim, sup, failures, proc, spawned, ready, listed,
                    alive, readers, probed>>
    BY DEF Return, rest, managerVars, supVars
  <1>3. ManagerTypeOK' /\ ClientTypeOK'
    BY <1>0, <1>2 DEF ManagerTypeOK, ClientTypeOK
  <1>4. \A j \in Handlers: ClientInv(j)' /\ ManagerInv(j)'
    BY <1>2 DEF IInv, ClientInv, ManagerInv, Server
  <1>5. RegisteredIsServed' /\ ProcessHeld'
    BY <1>2 DEF IInv, RegisteredIsServed, ProcessHeld, Server
  <1>6. /\ call'[c].at = outcome /\ call'[c].answer = call[c].answer /\ call'[c] \in CallType
        /\ \A d \in Calls: d # c => call'[d] = call[d]
    <2>2. call'[c] = [at |-> outcome, client |-> NoClient, id |-> 0, answer |-> call[c].answer]
      BY <1>0, <1>1 DEF RequestTypeOK, Outside
    <2>3. call'[c] \in CallType
      BY <1>0, <2>2, Parts, McpAssumption
    <2> QED
      BY <1>0, <1>1, <2>2, <2>3 DEF RequestTypeOK
  <1>7. call' \in [Calls -> CallType]
    BY <1>0, <1>1, <1>6 DEF RequestTypeOK
  <1>8. pending' \in [Handlers -> [Ids -> Calls \union {NoCall}]]
    BY <1>0, <1>1 DEF RequestTypeOK
  <1>9. RequestTypeOK'
    BY <1>0, <1>1, <1>7, <1>8 DEF RequestTypeOK
  <1>10. ASSUME NEW r \in inbox PROVE pending'[r.server[1]][r.id] \in {NoCall, r.by}
    BY <1>0, <1>1, Parts DEF RequestInv, RequestTypeOK
  <1>11. RequestInv'
    BY <1>0, <1>1, <1>2, <1>6, <1>10 DEF RequestInv
  <1>12. AnswerIsOwn' /\ CallsAfterHandshake'
    BY <1>0, <1>1, <1>2, <1>6 DEF AnswerIsOwn, CallsAfterHandshake
  <1> QED
    BY <1>3, <1>4, <1>5, <1>9, <1>11, <1>12 DEF IInv, TypeOK

(* A process that exits by itself is one less to hold. *)
LEMMA CrashInv == ASSUME IInv, NEW s \in Servers, Crash(s) PROVE IInv'
PROOF
  <1> USE McpAssumption, ServerPairs, Parts
      DEF IInv, TypeOK, Crash, managerVars, supVars, rpcVars
  <1>1. ManagerTypeOK'
    BY DEF ManagerTypeOK
  <1>2. ClientTypeOK'
    BY DEF ManagerTypeOK, ClientTypeOK, ClientInv, ManagerInv, Server
  <1>3. RequestTypeOK'
    BY DEF ManagerTypeOK, RequestTypeOK, RequestInv, ClientInv, Server, Ids
  <1>4. ASSUME NEW k \in Handlers PROVE ClientInv(k)'
    BY DEF ManagerTypeOK, ClientTypeOK, ClientInv, ManagerInv, Server
  <1>5. ASSUME NEW k \in Handlers PROVE ManagerInv(k)'
    BY DEF ManagerTypeOK, ClientTypeOK, ClientInv, ManagerInv
  <1>6. RequestInv'
    BY DEF ManagerTypeOK, ClientTypeOK, RequestTypeOK, ClientInv, ManagerInv, RequestInv,
       Server, Ids
  <1>7. AnswerIsOwn'
    BY DEF RequestTypeOK, RequestInv, AnswerIsOwn
  <1>8. RegisteredIsServed'
    BY DEF ManagerTypeOK, ClientTypeOK, ClientInv, ManagerInv, RegisteredIsServed, Server
  <1>9. CallsAfterHandshake'
    BY DEF ManagerTypeOK, ClientTypeOK, RequestTypeOK, ClientInv, RequestInv,
       CallsAfterHandshake, Server
  <1>10. ProcessHeld'
    BY DEF ManagerTypeOK, ClientTypeOK, ClientInv, ManagerInv, ProcessHeld, Server
  <1> QED
    BY <1>1, <1>2, <1>3, <1>4, <1>5, <1>6, <1>7, <1>8, <1>9, <1>10

(* A reader ends: at the end of stdout, or on a line that is too long. *)
LEMMA ReaderEndsInv == ASSUME IInv, NEW s \in Servers, ReaderEnds(s) PROVE IInv'
PROOF
  <1> USE McpAssumption, ServerPairs, Parts
      DEF IInv, TypeOK, ReaderEnds, StopReading, managerVars, supVars, rpcVars
  <1>1. ManagerTypeOK'
    BY DEF ManagerTypeOK
  <1>2. ClientTypeOK'
    BY DEF ManagerTypeOK, ClientTypeOK, ClientInv, ManagerInv, Server
  <1>3. RequestTypeOK'
    BY DEF ManagerTypeOK, RequestTypeOK, RequestInv, ClientInv, Server, Ids
  <1>4. ASSUME NEW k \in Handlers PROVE ClientInv(k)'
    BY DEF ManagerTypeOK, ClientTypeOK, ClientInv, ManagerInv, Server
  <1>5. ASSUME NEW k \in Handlers PROVE ManagerInv(k)'
    BY DEF ManagerTypeOK, ClientTypeOK, ClientInv, ManagerInv
  <1>6. RequestInv'
    BY DEF ManagerTypeOK, ClientTypeOK, RequestTypeOK, ClientInv, ManagerInv, RequestInv,
       Server, Ids
  <1>7. AnswerIsOwn'
    BY DEF RequestTypeOK, RequestInv, AnswerIsOwn
  <1>8. RegisteredIsServed'
    BY DEF ManagerTypeOK, ClientTypeOK, ClientInv, ManagerInv, RegisteredIsServed, Server
  <1>9. CallsAfterHandshake'
    BY DEF ManagerTypeOK, ClientTypeOK, RequestTypeOK, ClientInv, RequestInv,
       CallsAfterHandshake, Server
  <1>10. ProcessHeld'
    BY DEF ManagerTypeOK, ClientTypeOK, ClientInv, ManagerInv, ProcessHeld, Server
  <1> QED
    BY <1>1, <1>2, <1>3, <1>4, <1>5, <1>6, <1>7, <1>8, <1>9, <1>10

(* Every step, by the lemma of its action. *)
LEMMA NextInv == IInv /\ [Next]_vars => IInv'
PROOF
  <1> SUFFICES ASSUME IInv, [Next]_vars PROVE IInv'
    OBVIOUS
  <1>1. ASSUME NEW h \in Handlers, Stop(h) \/ Stopped(h) \/ Start(h) \/ Started(h) \/ StartFails(h)
        PROVE  IInv'
    BY <1>1, StopInv, StoppedInv, StartInv, StartedInv, StartFailsInv
  <1>2. ASSUME NEW k \in Handlers,
               Exit(k) \/ NothingToWatch(k) \/ Respawn(k) \/ Respawned(k) \/ RespawnFails(k)
        PROVE  IInv'
    BY <1>2, ExitInv, NothingToWatchInv, RespawnInv, RespawnedInv, RespawnFailsInv
  <1>3. ASSUME NEW c \in Calls, Resolve(c) \/ Invoke(c) \/ Answered(c) \/ TimesOut(c)
        PROVE  IInv'
    BY <1>3, ResolveInv, InvokeInv, ReturnInv DEF Answered, TimesOut
  <1>4. ASSUME NEW r \in inbox, Dispatch(r) PROVE IInv'
    BY <1>4, DispatchInv
  <1>5. ASSUME NEW s \in Servers, Crash(s) \/ ReaderEnds(s) PROVE IInv'
    BY <1>5, CrashInv, ReaderEndsInv
  <1>6. ASSUME UNCHANGED vars PROVE IInv'
    BY <1>6 DEF vars, managerVars, supVars, rpcVars, IInv, TypeOK, ManagerTypeOK,
       ClientTypeOK,
                RequestTypeOK, ClientInv, ManagerInv, RequestInv, AnswerIsOwn,
                RegisteredIsServed, CallsAfterHandshake, ProcessHeld, Server
  <1> QED
    BY <1>1, <1>2, <1>3, <1>4, <1>5, <1>6 DEF Next

(* The invariant holds in every behaviour; the theorems below are its parts. *)
LEMMA Invariance == Spec => []IInv
PROOF
  <1>1. Init => IInv
    BY InitInv
  <1>2. IInv /\ [Next]_vars => IInv'
    BY NextInv
  <1> QED
    BY <1>1, <1>2, PTL DEF Spec

(* The variables keep their types and stay in their bounds: the supervisor   *)
(* never counts past GiveUpAfter (mcp.py _supervise).                        *)
THEOREM Types == Spec => []TypeOK
PROOF
  <1>1. IInv => TypeOK
    BY DEF IInv
  <1> QED
    BY <1>1, Invariance, PTL

(* No call is ever given another call's answer (mcp.py _rpc, _read_loop).    *)
THEOREM OwnAnswers == Spec => []AnswerIsOwn
PROOF
  <1>1. IInv => AnswerIsOwn
    BY DEF IInv
  <1> QED
    BY <1>1, Invariance, PTL

(* The registry and the clients agree on whose tool is registered, and it is *)
(* one of a server that completed its handshake (mcp.py _register_tools,    *)
(* _unregister_tools), also when restarts overlap.                          *)
THEOREM ServedTools == Spec => [](RegisteredIsServed /\ CallsAfterHandshake)
PROOF
  <1>1. IInv => RegisteredIsServed /\ CallsAfterHandshake
    BY DEF IInv
  <1> QED
    BY <1>1, Invariance, PTL

(* A client object never has two processes, and a stopped one never has one *)
(* again (mcp.py stop, _supervise).                                          *)
THEOREM StoppedForGood == Spec => [](ProcessHeld /\ StopIsFinal)
PROOF
  <1>1. IInv => StopIsFinal
    <2> SUFFICES ASSUME IInv, NEW h \in Handlers, NEW k \in Handlers, victim[h] = k,
                        job[h] \in {"starting", "probing", "done"}
                 PROVE  registry # k /\ \A n \in 1..MaxServers[k]: <<k, n>> \notin alive
      BY DEF StopIsFinal
    <2>1. proc[k] = 0 /\ ~listed[k]
      BY McpAssumption DEF IInv, ManagerInv
    <2>2. ASSUME NEW n \in 1..MaxServers[k], <<k, n>> \in alive PROVE FALSE
      BY <2>1, <2>2 DEF IInv, ProcessHeld
    <2> QED
      BY <2>1, <2>2 DEF IInv, RegisteredIsServed
  <1>2. IInv => ProcessHeld
    BY DEF IInv
  <1> QED
    BY <1>1, <1>2, Invariance, PTL
=============================================================================
