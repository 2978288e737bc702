------------------------------ MODULE Approval ------------------------------
(* The approval middleware of the gateway (gateway/approval.py) and the     *)
(* endpoint through which a client answers (gateway/approvals_endpoint.py). *)
(*                                                                          *)
(* Every tool call the model makes passes through ApprovalMiddleware.check. *)
(* A call whose bucket needs a human is parked in the in-memory _pending    *)
(* dict with a future; POST /v1/approvals/{id}/decide resolves the future,  *)
(* or the deadline of asyncio.wait_for passes first.                        *)
(*                                                                          *)
(* The gateway is one asyncio loop, so a step of this module is what runs   *)
(* between two suspension points.  The bodies under ApprovalMiddleware._lock*)
(* never suspend, so the lock is never contended and both check-to-wait and *)
(* the whole decide handler are single steps.  The interesting suspension   *)
(* points are inside asyncio.wait_for (CPython 3.11, the image's version):  *)
(*                                                                          *)
(*   waiting    awaiting the waiter of wait_for                             *)
(*   expired    the timer released the waiter; the task has not run yet, so *)
(*              an answer that arrives now is still the one returned        *)
(*   unwinding  the task ran, saw no answer and cancelled the future; the   *)
(*              TimeoutError reaches `except TimeoutError` a tick later, and*)
(*              only there is the entry removed from _pending               *)
(*                                                                          *)
(* A call is known by its approval id (uuid4, never reused), so a call and  *)
(* its approval share one name.                                             *)
EXTENDS Naturals, FiniteSets

CONSTANTS
  Calls,          \* tool-call attempts, each with the id its approval would get
  Tools, Sessions, Clients,
  Requests,       \* the requests the model may make: [tool, session, client, listed]
  Policy,         \* [Tools \X Clients -> Buckets]: what ToolRegistry.resolve_bucket answers
  McpTools,       \* tools an MCP supervisor registers and unregisters at run time
  FiringSessions, \* sessions of cron firings, whose task the scheduler may cancel
  MaxBoot,        \* bound: gateway boots
  MaxIncarnation  \* bound: times one tool name is registered

Buckets   == {"auto", "ask", "block", "trust_session", "yolo"}
Decisions == {"approve", "reject", "trust_session"}
Verdicts  == {"auto", "blocked", "denied_deny_list", "rejected", "approved",
              "trust_session", "timeout"}

ASSUME ApprovalAssumption ==
  /\ Requests \subseteq [tool: Tools, session: Sessions, client: Clients, listed: BOOLEAN]
  /\ Policy \in [Tools \X Clients -> Buckets]
  /\ McpTools \subseteq Tools
  /\ FiringSessions \subseteq Sessions
  /\ MaxBoot \in Nat \ {0}
  /\ MaxIncarnation \in Nat \ {0}

NoRequest ==    \* a call that has not reached check yet
  [tool |-> "none", session |-> "none", client |-> "none", listed |-> FALSE]
NoVerdict == "none"

VARIABLES
  boot,         \* which boot of the gateway process is running
  registered,   \* tool names present in ToolRegistry._tools
  incarnation,  \* how many times each name has been registered (history)
  phase,        \* where each call's task is
  request,      \* what each call asked for
  origin,       \* boot and tool incarnation a call started under (history)
  future,       \* PendingApproval.future
  pending,      \* keys of ApprovalMiddleware._pending
  trusted,      \* ApprovalMiddleware._trusted, as pairs
  verdict,      \* the ApprovalDecision check returned
  answers       \* decisions the endpoint accepted with resolved=true (history)

vars == <<boot, registered, incarnation, phase, request, origin, future,
          pending, trusted, verdict, answers>>

Live      == {"waiting", "expired", "unwinding"}
Executing == {"auto", "approved", "trust_session"}   \* ApprovalDecision.execute

-----------------------------------------------------------------------------
Init ==
  /\ boot = 1
  /\ registered = Tools
  /\ incarnation = [t \in Tools |-> 1]
  /\ phase = [k \in Calls |-> "idle"]
  /\ request = [k \in Calls |-> NoRequest]
  /\ origin = [k \in Calls |-> [boot |-> 0, inc |-> 0]]
  /\ future = [k \in Calls |-> "none"]
  /\ pending = {}
  /\ trusted = {}
  /\ verdict = [k \in Calls |-> NoVerdict]
  /\ answers = {}

(* Mutants.  Each is the operator its name begins with, with a mistake a     *)
(* change to the code could make; no specification uses them.               *)
ImmediateTrustFirst(r) ==   \* session trust looked up before the deny list
  LET bucket == Policy[r.tool, r.client]
  IN IF bucket \in {"ask", "trust_session"} /\ <<r.session, r.tool>> \in trusted
     THEN "trust_session"
     ELSE IF r.listed THEN "denied_deny_list"
     ELSE IF bucket = "auto" THEN "auto"
     ELSE IF bucket = "block" THEN "blocked"
     ELSE IF bucket = "yolo" THEN "rejected" ELSE NoVerdict

(* What check answers without asking anybody, or NoVerdict when it has to ask. *)
Immediate(r) ==
  LET bucket == Policy[r.tool, r.client]
  IN CASE r.listed -> "denied_deny_list"
       [] ~r.listed /\ bucket = "auto"  -> "auto"
       [] ~r.listed /\ bucket = "block" -> "blocked"
       [] ~r.listed /\ bucket = "yolo"  -> "rejected"
       [] ~r.listed /\ bucket \in {"ask", "trust_session"}
            /\ <<r.session, r.tool>> \in trusted -> "trust_session"
       [] OTHER -> NoVerdict

(* A call reaches check: it begins, with nothing else changed. *)
Begin(k, r) ==
  /\ phase[k] = "idle"
  /\ r.tool \in registered
  /\ request' = [request EXCEPT ![k] = r]
  /\ origin' = [origin EXCEPT ![k] = [boot |-> boot, inc |-> incarnation[r.tool]]]
  /\ UNCHANGED <<boot, registered, incarnation, trusted, answers>>

CheckImmediate(k, r) ==
  /\ Immediate(r) # NoVerdict
  /\ Begin(k, r)
  /\ phase' = [phase EXCEPT ![k] = "done"]
  /\ verdict' = [verdict EXCEPT ![k] = Immediate(r)]
  /\ UNCHANGED <<future, pending>>

(* request_approval, up to the first suspension in wait_for. *)
CheckAsks(k, r) ==
  /\ Immediate(r) = NoVerdict
  /\ Begin(k, r)
  /\ phase' = [phase EXCEPT ![k] = "waiting"]
  /\ future' = [future EXCEPT ![k] = "open"]
  /\ pending' = pending \union {k}
  /\ UNCHANGED verdict

DeadlineOnlyForChats(k) ==   \* a firing asks without a timeout
  /\ phase[k] = "waiting" /\ request[k].session \notin FiringSessions
  /\ phase' = [phase EXCEPT ![k] = "expired"]
  /\ UNCHANGED <<boot, registered, incarnation, request, origin, future,
                 pending, trusted, verdict, answers>>

(* The timer of wait_for fires. *)
Deadline(k) ==
  /\ phase[k] = "waiting"
  /\ phase' = [phase EXCEPT ![k] = "expired"]
  /\ UNCHANGED <<boot, registered, incarnation, request, origin, future,
                 pending, trusted, verdict, answers>>

(* The task runs and finds an answer, whether or not the timer fired. *)
Answered(k) ==
  /\ phase[k] \in {"waiting", "expired"}
  /\ future[k] \in Decisions
  /\ phase' = [phase EXCEPT ![k] = "done"]
  /\ verdict' = [verdict EXCEPT ![k] =
                   CASE future[k] = "approve"       -> "approved"
                     [] future[k] = "trust_session" -> "trust_session"
                     [] OTHER                       -> "rejected"]
  /\ trusted' = IF future[k] = "trust_session"
                THEN trusted \union {<<request[k].session, request[k].tool>>}
                ELSE trusted
  /\ UNCHANGED <<boot, registered, incarnation, request, origin, future,
                 pending, answers>>

(* The task runs after the timer and finds no answer: it cancels the future. *)
CancelFuture(k) ==
  /\ phase[k] = "expired"
  /\ future[k] = "open"
  /\ phase' = [phase EXCEPT ![k] = "unwinding"]
  /\ future' = [future EXCEPT ![k] = "cancelled"]
  /\ UNCHANGED <<boot, registered, incarnation, request, origin, pending,
                 trusted, verdict, answers>>

TimedOutAtTimer(k) ==   \* the timer alone decides, whatever was answered
  /\ phase[k] \in {"expired", "unwinding"}
  /\ phase' = [phase EXCEPT ![k] = "done"]
  /\ pending' = pending \ {k}
  /\ verdict' = [verdict EXCEPT ![k] = "timeout"]
  /\ UNCHANGED <<boot, registered, incarnation, request, origin, future,
                 trusted, answers>>

(* `except TimeoutError`: the entry leaves _pending, check returns timeout. *)
TimedOut(k) ==
  /\ phase[k] = "unwinding"
  /\ phase' = [phase EXCEPT ![k] = "done"]
  /\ pending' = pending \ {k}
  /\ verdict' = [verdict EXCEPT ![k] = "timeout"]
  /\ UNCHANGED <<boot, registered, incarnation, request, origin, future,
                 trusted, answers>>

(* The scheduler cancels a firing (its own timeout, or stop).  wait_for      *)
(* returns an answer that is already there; otherwise CancelledError leaves  *)
(* _request_and_wait, which has no handler for it: _pending keeps the entry. *)
CancelTask(k) ==
  /\ phase[k] \in Live
  /\ request[k].session \in FiringSessions
  /\ future[k] \notin Decisions
  /\ phase' = [phase EXCEPT ![k] = "abandoned"]
  /\ future' = [future EXCEPT ![k] = "cancelled"]
  /\ UNCHANGED <<boot, registered, incarnation, request, origin, pending,
                 trusted, verdict, answers>>

DecideKeepsEntry(k, c, d) ==   \* resolve_approval reads the entry without popping it
  /\ k \in pending
  /\ request[k].client = c
  /\ future' = [future EXCEPT ![k] = IF @ = "open" THEN d ELSE @]
  /\ answers' = answers \union {[call |-> k, client |-> c, decision |-> d]}
  /\ UNCHANGED <<boot, registered, incarnation, phase, request, origin, pending,
                 trusted, verdict>>

(* POST /v1/approvals/{id}/decide: get_pending, the client check, then      *)
(* resolve_approval, with no suspension in between.  The refusals (404 for  *)
(* an id that is not in _pending, 403 for another client's) change nothing. *)
Decide(k, c, d) ==
  /\ k \in pending
  /\ request[k].client = c
  /\ pending' = pending \ {k}
  /\ future' = [future EXCEPT ![k] = IF @ = "open" THEN d ELSE @]
  /\ answers' = answers \union {[call |-> k, client |-> c, decision |-> d]}
  /\ UNCHANGED <<boot, registered, incarnation, phase, request, origin,
                 trusted, verdict>>

(* MCPClient._unregister_tools and _register_tools.  The registry's own     *)
(* _session_trust is cleared by unregister but nothing ever fills it, so it *)
(* is not a variable here; the middleware's _trusted is left alone.         *)
Unregister(t) ==
  /\ t \in McpTools \intersect registered
  /\ registered' = registered \ {t}
  /\ UNCHANGED <<boot, incarnation, phase, request, origin, future, pending,
                 trusted, verdict, answers>>

Register(t) ==
  /\ t \in McpTools \ registered
  /\ incarnation[t] < MaxIncarnation
  /\ registered' = registered \union {t}
  /\ incarnation' = [incarnation EXCEPT ![t] = @ + 1]
  /\ UNCHANGED <<boot, phase, request, origin, future, pending, trusted,
                 verdict, answers>>

(* The process stops and starts again: tasks, _pending and _trusted are gone. *)
Restart ==
  /\ boot < MaxBoot
  /\ boot' = boot + 1
  /\ phase' = [k \in Calls |-> IF phase[k] \in Live THEN "abandoned" ELSE phase[k]]
  /\ future' = [k \in Calls |-> IF phase[k] \in Live THEN "cancelled" ELSE future[k]]
  /\ pending' = {}
  /\ trusted' = {}
  /\ UNCHANGED <<registered, incarnation, request, origin, verdict, answers>>

Next ==
  \/ \E k \in Calls, r \in Requests: CheckImmediate(k, r) \/ CheckAsks(k, r)
  \/ \E k \in Calls: \/ Deadline(k) \/ Answered(k) \/ CancelFuture(k)
                     \/ TimedOut(k) \/ CancelTask(k)
  \/ \E k \in Calls, c \in Clients, d \in Decisions: Decide(k, c, d)
  \/ \E t \in McpTools: Unregister(t) \/ Register(t)
  \/ Restart

(* The loop's timers fire and its ready tasks run; nobody is obliged to answer. *)
Fairness == \A k \in Calls: /\ WF_vars(Deadline(k))
                            /\ WF_vars(Answered(k))
                            /\ WF_vars(CancelFuture(k))
                            /\ WF_vars(TimedOut(k))

Spec == Init /\ [][Next]_vars /\ Fairness

-----------------------------------------------------------------------------
(* The types of the variables. *)
TypeOK ==
  /\ boot \in 1..MaxBoot
  /\ registered \subseteq Tools
  /\ incarnation \in [Tools -> 1..MaxIncarnation]
  /\ phase \in [Calls -> Live \union {"idle", "done", "abandoned"}]
  /\ request \in [Calls -> Requests \union {NoRequest}]
  /\ origin \in [Calls -> [boot: 0..MaxBoot, inc: 0..MaxIncarnation]]
  /\ future \in [Calls -> Decisions \union {"none", "open", "cancelled"}]
  /\ pending \subseteq Calls
  /\ trusted \subseteq Sessions \X Tools
  /\ verdict \in [Calls -> Verdicts \union {NoVerdict}]
  /\ answers \subseteq [call: Calls, client: Clients, decision: Decisions]

(* An answer the endpoint accepted for a call, from the client it was routed to. *)
Accepted(k, d) ==
  [call |-> k, client |-> request[k].client, decision |-> d] \in answers

(* In the boot of call k its session's user tapped "Trust session" for its tool. *)
TrustGiven(k) ==
  \E j \in Calls: /\ Accepted(j, "trust_session")
                  /\ request[j].session = request[k].session
                  /\ request[j].tool = request[k].tool
                  /\ origin[j].boot = origin[k].boot

(* No tool runs without authority: a call check lets execute is not on the   *)
(* deny list, and either policy makes it auto, or the client it was routed to*)
(* approved that very call, or a "Trust session" tap of the same session,    *)
(* tool and gateway boot covers it (approval.py check, decide's 403).        *)
Authorised(k) ==
  /\ ~request[k].listed
  /\ \/ verdict[k] = "auto"          /\ Policy[request[k].tool, request[k].client] = "auto"
     \/ verdict[k] = "approved"      /\ Accepted(k, "approve")
     \/ verdict[k] = "trust_session" /\ TrustGiven(k)

ExecutionAuthorised == \A k \in Calls: verdict[k] \in Executing => Authorised(k)

(* One approval takes at most one decision: two taps, two clients or a tap   *)
(* racing the deadline never both get "resolved" (resolve_approval pops).   *)
OneDecisionPerApproval ==
  \A a, b \in answers: a.call = b.call => a = b

(* A call that can still be answered is listed, so a client polling          *)
(* /v1/approvals/pending can see it: no task waits on an unreachable future. *)
WaiterIsListed ==
  \A k \in Calls: phase[k] \in {"waiting", "expired"} /\ future[k] = "open" => k \in pending

(* An answer that reached the future is the one check returns, even when the *)
(* timer fired first or the scheduler cancels the task: it is never dropped  *)
(* for a timeout.                                                            *)
AnswerNotDropped ==
  \A k \in Calls: future[k] \in Decisions =>
    \/ phase[k] \in {"waiting", "expired"}
    \/ phase[k] = "done" /\ verdict[k] =
         CASE future[k] = "approve" -> "approved"
           [] future[k] = "trust_session" -> "trust_session"
           [] OTHER -> "rejected"

(* A step of the program never takes trust away or gives it except by the   *)
(* tap's own task, and a restart forgets it all ("a fresh start").          *)
TrustGrants ==
  [][trusted' # trusted =>
       \/ boot' # boot /\ trusted' = {}
       \/ \E k \in Calls: /\ Accepted(k, "trust_session")
                          /\ phase[k] # "done" /\ phase'[k] = "done"
                          /\ trusted' = trusted \union
                               {<<request[k].session, request[k].tool>>}]_vars

(* Every check ends, answered or not: nothing waits for a human forever. *)
CheckEnds == \A k \in Calls: (phase[k] \in Live) ~> (phase[k] \in {"done", "abandoned"})

(* tools/registry.py:339 "so a replacement can't inherit stale approval": a  *)
(* tool run on session trust is the registration the user trusted.           *)
TrustNotInherited ==
  \A k \in Calls: verdict[k] = "trust_session" =>
    \E j \in Calls: /\ Accepted(j, "trust_session")
                    /\ request[j].session = request[k].session
                    /\ request[j].tool = request[k].tool
                    /\ origin[j] = origin[k]
=============================================================================
