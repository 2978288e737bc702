------------------------------- MODULE Router -------------------------------
(* One dispatch of a model request, gateway/router.py AliasRouter.dispatch:  *)
(* the candidates of the alias's chain are tried in order, each for at most  *)
(* Timeout, the next one only after a transport failure.  The upstream call  *)
(* is a task behind a shield: when the router's timer fires first it is left *)
(* running, and what becomes of it reaches nobody.                           *)
EXTENDS Naturals

CONSTANTS
  Candidates,  \* length of the chain: the primary and its fallback, if it has one
  Timeout      \* upstream_timeout_secs, in ticks of the clock

ASSUME RouterAssumption == Candidates \in Nat \ {0} /\ Timeout \in Nat \ {0}

VARIABLES
  clock,    \* time since the dispatch began
  trying,   \* the candidate being tried
  since,    \* when its call began
  calls,    \* the upstream call of each candidate
  failure,  \* last_transport_exc: none, unreachable, silent (a Timeout)
  routed    \* how dispatch ended: pending, served, refused, no_backend

routerVars == <<clock, trying, since, calls, failure, routed>>

Chain == 1..Candidates
CallStates == {"unused", "running", "answered", "unreachable", "refused"}

InitRouter ==
  /\ clock = 0 /\ trying = 1 /\ since = 0
  /\ calls = [c \in Chain |-> IF c = 1 THEN "running" ELSE "unused"]
  /\ failure = "none" /\ routed = "pending"

Pending == routed = "pending"

(* Mutants.  Each is the operator its name begins with, with a mistake a     *)
(* change to the code could make; no specification uses them.               *)
CallDuePrimaryOnly ==   \* no wait_for around the fallback's call
  Pending /\ trying = 1 /\ clock >= since + Timeout

(* The timer of the wait_for around the current call. *)
CallDue == Pending /\ clock >= since + Timeout

(* A call, awaited or not, is answered, cannot reach its backend, or is told *)
(* no by it (4xx, 5xx).                                                      *)
CallEnds(c) ==
  /\ calls[c] = "running"
  /\ \E end \in {"answered", "unreachable", "refused"}: calls' = [calls EXCEPT ![c] = end]
  /\ UNCHANGED <<clock, trying, since, failure, routed>>

(* dispatch resumes with the result of the current call. *)
Served ==
  /\ Pending /\ calls[trying] = "answered"
  /\ routed' = "served"
  /\ UNCHANGED <<clock, trying, since, calls, failure>>

Refused ==
  /\ Pending /\ calls[trying] = "refused"
  /\ routed' = "refused"
  /\ UNCHANGED <<clock, trying, since, calls, failure>>

(* `continue`: the next candidate's call begins, or there is none. *)
NextCandidate(why) ==
  /\ failure' = why
  /\ IF trying < Candidates
     THEN /\ trying' = trying + 1 /\ since' = clock
          /\ calls' = [calls EXCEPT ![trying + 1] = "running"]
          /\ UNCHANGED routed
     ELSE /\ routed' = "no_backend"
          /\ UNCHANGED <<trying, since, calls>>
  /\ UNCHANGED clock

Unreachable == Pending /\ calls[trying] = "unreachable" /\ NextCandidate("unreachable")

(* The timer fires, maybe on a call that has ended and was not yet taken.    *)
Silent == CallDue /\ NextCandidate("silent")

RouterStep == Served \/ Refused \/ Unreachable \/ Silent

-----------------------------------------------------------------------------
(* The types of the router's variables. *)
RouterTypeOK ==
  /\ clock \in Nat /\ trying \in Chain /\ since \in 0..clock
  /\ calls \in [Chain -> CallStates]
  /\ failure \in {"none", "unreachable", "silent"}
  /\ routed \in {"pending", "served", "refused", "no_backend"}
=============================================================================
