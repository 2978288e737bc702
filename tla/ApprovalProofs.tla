--------------------------- MODULE ApprovalProofs ---------------------------
(* What Approval promises for every set of calls, tools, sessions, clients   *)
(* and requests, and for every policy; and, in the second part, what the     *)
(* Telegram bot and the middleware promise together.                         *)
EXTENDS BotApprovals, FiniteSetTheorems, SequenceTheorems, TLAPS

(* Nothing has happened to a call that has not reached check. *)
IdleIsFresh ==
  \A k \in Calls: phase[k] = "idle" =>
    /\ verdict[k] = NoVerdict /\ future[k] = "none" /\ k \notin pending
    /\ \A a \in answers: a.call # k

(* A call in the middle of check is of this boot, had to ask, and has no    *)
(* verdict yet; its future has not been set aside unless it is unwinding.   *)
LiveIsAsking ==
  \A k \in Calls: phase[k] \in Live =>
    /\ request[k] \in Requests
    /\ origin[k].boot = boot /\ ~request[k].listed /\ verdict[k] = NoVerdict
    /\ future[k] \in (IF phase[k] = "unwinding" THEN {"cancelled"}
                      ELSE Decisions \union {"open"})

(* An answer in a future is one the endpoint accepted from the right client. *)
AnswersAreAccepted ==
  \A k \in Calls: future[k] \in Decisions => Accepted(k, future[k])

(* A future somebody may still set is awaited: its task is alive. *)
OpenIsAwaited ==
  \A k \in Calls: future[k] = "open" => phase[k] \in {"waiting", "expired"}

(* An answered call is off the list, and stays off. *)
AnsweredIsUnlisted == \A a \in answers: a.call \notin pending

(* Every pair the middleware trusts was tapped in this boot. *)
TrustIsTapped ==
  \A s \in Sessions, t \in Tools: <<s, t>> \in trusted =>
    \E j \in Calls: /\ Accepted(j, "trust_session")
                    /\ request[j].session = s /\ request[j].tool = t
                    /\ origin[j].boot = boot

IInv ==
  /\ TypeOK
  /\ IdleIsFresh
  /\ LiveIsAsking
  /\ AnswersAreAccepted
  /\ OpenIsAwaited
  /\ AnsweredIsUnlisted
  /\ TrustIsTapped
  /\ ExecutionAuthorised
  /\ OneDecisionPerApproval
  /\ WaiterIsListed
  /\ AnswerNotDropped

(* The invariant holds initially. *)
LEMMA InitInv == Init => IInv
PROOF
  <1> SUFFICES ASSUME Init PROVE IInv
    OBVIOUS
  <1> USE ApprovalAssumption
  <1>1. TypeOK
    BY DEF Init, TypeOK, NoRequest, NoVerdict, Live
  <1>2. /\ IdleIsFresh /\ LiveIsAsking /\ AnswersAreAccepted
        /\ OpenIsAwaited /\ AnsweredIsUnlisted /\ TrustIsTapped
    BY DEF Init, OpenIsAwaited, IdleIsFresh, LiveIsAsking, AnswersAreAccepted, AnsweredIsUnlisted,
           TrustIsTapped, Live, Decisions
  <1>3. ExecutionAuthorised /\ OneDecisionPerApproval /\ WaiterIsListed /\ AnswerNotDropped
    BY DEF Init, ExecutionAuthorised, OneDecisionPerApproval, WaiterIsListed,
           AnswerNotDropped, Executing, NoVerdict, Decisions
  <1> QED
    BY <1>1, <1>2, <1>3 DEF IInv

(* Every step keeps the types. *)
LEMMA TypeStep == ASSUME TypeOK, LiveIsAsking, [Next]_vars PROVE TypeOK'
PROOF
  <1> USE ApprovalAssumption DEF TypeOK
  <1>1. ASSUME NEW k \in Calls, NEW r \in Requests, CheckImmediate(k, r) PROVE TypeOK'
    <2>1. Immediate(r) \in Verdicts \union {NoVerdict}
      BY DEF Immediate, Verdicts
    <2> QED
      BY <1>1, <2>1 DEF CheckImmediate, Begin
  <1>2. ASSUME NEW k \in Calls, NEW r \in Requests, CheckAsks(k, r) PROVE TypeOK'
    BY <1>2 DEF CheckAsks, Begin, Live
  <1>3. ASSUME NEW k \in Calls, Deadline(k) PROVE TypeOK'
    BY <1>3 DEF Deadline, Live
  <1>4. ASSUME NEW k \in Calls, Answered(k) PROVE TypeOK'
    <2>1. request[k].session \in Sessions /\ request[k].tool \in Tools
      BY <1>4 DEF Answered, LiveIsAsking, Live, ApprovalAssumption
    <2> QED
      BY <1>4, <2>1 DEF Answered, Live, Decisions, Verdicts
  <1>5. ASSUME NEW k \in Calls, CancelFuture(k) PROVE TypeOK'
    BY <1>5 DEF CancelFuture, Live
  <1>6. ASSUME NEW k \in Calls, TimedOut(k) PROVE TypeOK'
    BY <1>6 DEF TimedOut, Live, Verdicts
  <1>7. ASSUME NEW k \in Calls, CancelTask(k) PROVE TypeOK'
    BY <1>7 DEF CancelTask, Live
  <1>8. ASSUME NEW k \in Calls, NEW c \in Clients, NEW d \in Decisions, Decide(k, c, d)
        PROVE TypeOK'
    BY <1>8 DEF Decide
  <1>9. ASSUME NEW t \in McpTools, Unregister(t) \/ Register(t) PROVE TypeOK'
    BY <1>9 DEF Unregister, Register
  <1>10. CASE Restart
    BY <1>10 DEF Restart, Live
  <1>11. CASE UNCHANGED vars
    BY <1>11 DEF vars
  <1> QED
    BY <1>1, <1>2, <1>3, <1>4, <1>5, <1>6, <1>7, <1>8, <1>9, <1>10, <1>11 DEF Next

(* The parts of the invariant besides the types. *)
Rest ==
  /\ IdleIsFresh /\ LiveIsAsking /\ AnswersAreAccepted /\ OpenIsAwaited
  /\ AnsweredIsUnlisted /\ TrustIsTapped /\ ExecutionAuthorised /\ OneDecisionPerApproval
  /\ WaiterIsListed /\ AnswerNotDropped

(* A call that begins was fresh: no answer names it, so what was accepted   *)
(* and tapped before is unchanged by giving it a request.                   *)
LEMMA BeginKeepsAccepted ==
  ASSUME IInv, NEW k \in Calls, NEW r \in Requests, Begin(k, r)
  PROVE  /\ \A j \in Calls, d \in Decisions: Accepted(j, d) => Accepted(j, d)' /\ j # k
         /\ \A j \in Calls: j # k => request'[j] = request[j] /\ origin'[j] = origin[j]
         /\ request'[k] = r /\ origin'[k].boot = boot
PROOF
  <1>1. \A a \in answers: a.call # k
    BY DEF IInv, IdleIsFresh, Begin
  <1>2. \A j \in Calls: j # k => request'[j] = request[j] /\ origin'[j] = origin[j]
    BY DEF IInv, TypeOK, Begin
  <1>3. request'[k] = r /\ origin'[k].boot = boot
    BY DEF IInv, TypeOK, Begin
  <1>4. ASSUME NEW j \in Calls, NEW d \in Decisions, Accepted(j, d)
        PROVE  Accepted(j, d)' /\ j # k
    BY <1>1, <1>2, <1>4 DEF Accepted, Begin
  <1> QED
    BY <1>2, <1>3, <1>4

(* A call is answered without asking: trust it relies on was tapped. *)
LEMMA CheckImmediateStep ==
  ASSUME IInv, NEW k \in Calls, NEW r \in Requests, CheckImmediate(k, r) PROVE Rest'
PROOF
  <1> USE DEF IInv
  <1>1. Begin(k, r) /\ phase[k] = "idle"
    BY DEF CheckImmediate, Begin
  <1>2. /\ phase' = [phase EXCEPT ![k] = "done"]
        /\ verdict' = [verdict EXCEPT ![k] = Immediate(r)]
        /\ UNCHANGED <<future, pending, answers, trusted, boot>>
    BY DEF CheckImmediate, Begin
  <1>3. \A j \in Calls, d \in Decisions: Accepted(j, d) => Accepted(j, d)' /\ j # k
    BY <1>1, BeginKeepsAccepted
  <1>4. /\ \A j \in Calls: j # k => request'[j] = request[j] /\ origin'[j] = origin[j]
        /\ request'[k] = r /\ origin'[k].boot = boot
    BY <1>1, BeginKeepsAccepted
  <1>5. /\ r \in [tool: Tools, session: Sessions, client: Clients, listed: BOOLEAN]
        /\ verdict'[k] = Immediate(r) /\ phase'[k] = "done"
        /\ \A j \in Calls \ {k}: verdict'[j] = verdict[j] /\ phase'[j] = phase[j]
    BY <1>2, ApprovalAssumption DEF TypeOK
  <1>6. IdleIsFresh'
    BY <1>2, <1>5 DEF IdleIsFresh, TypeOK
  <1>7. LiveIsAsking'
    BY <1>2, <1>4, <1>5 DEF LiveIsAsking, Live
  <1>8. future[k] = "none"
    BY <1>1 DEF IdleIsFresh
  <1>9. AnswersAreAccepted'
    BY <1>2, <1>3, <1>8 DEF AnswersAreAccepted, Decisions
  <1>10. TrustIsTapped'
    <2> SUFFICES ASSUME NEW s \in Sessions, NEW t \in Tools, <<s, t>> \in trusted
                 PROVE  \E j \in Calls: /\ Accepted(j, "trust_session")'
                                        /\ request'[j].session = s /\ request'[j].tool = t
                                        /\ origin'[j].boot = boot'
      BY <1>2 DEF TrustIsTapped
    <2> PICK j \in Calls: /\ Accepted(j, "trust_session")
                          /\ request[j].session = s /\ request[j].tool = t
                          /\ origin[j].boot = boot
      BY DEF TrustIsTapped
    <2> QED
      BY <1>2, <1>3, <1>4 DEF Decisions
  <1>11. ExecutionAuthorised'
    <2> SUFFICES ASSUME NEW j \in Calls, verdict'[j] \in Executing PROVE Authorised(j)'
      BY DEF ExecutionAuthorised
    <2>1. CASE j # k
      <3>1. Authorised(j)
        BY <2>1, <1>5 DEF ExecutionAuthorised
      <3>2. TrustGiven(j) => TrustGiven(j)'
        BY <2>1, <1>3, <1>4 DEF TrustGiven, Decisions
      <3> QED
        BY <2>1, <3>1, <3>2, <1>3, <1>4, <1>5 DEF Authorised, Decisions
    <2>2. CASE j = k
      <3>1. /\ ~r.listed
            /\ \/ Immediate(r) = "auto" /\ Policy[r.tool, r.client] = "auto"
               \/ Immediate(r) = "trust_session" /\ <<r.session, r.tool>> \in trusted
        BY <1>5, <2>2 DEF Immediate, Executing, NoVerdict
      <3>2. CASE Immediate(r) = "auto" /\ Policy[r.tool, r.client] = "auto"
        BY <3>1, <3>2, <2>2, <1>4, <1>5 DEF Authorised
      <3>3. CASE Immediate(r) = "trust_session" /\ <<r.session, r.tool>> \in trusted
        <4> PICK i \in Calls: /\ Accepted(i, "trust_session")'
                              /\ request'[i].session = r.session /\ request'[i].tool = r.tool
                              /\ origin'[i].boot = boot'
          BY <1>2, <1>5, <1>10, <3>3 DEF TrustIsTapped
        <4> QED
          BY <3>1, <3>3, <2>2, <1>2, <1>4, <1>5 DEF Authorised, TrustGiven
      <3> QED
        BY <3>1, <3>2, <3>3
    <2> QED
      BY <2>1, <2>2
  <1>12. AnsweredIsUnlisted' /\ OneDecisionPerApproval'
    BY <1>2 DEF AnsweredIsUnlisted, OneDecisionPerApproval
  <1>13. OpenIsAwaited' /\ WaiterIsListed' /\ AnswerNotDropped'
    BY <1>2, <1>5, <1>8 DEF OpenIsAwaited, WaiterIsListed, AnswerNotDropped, Decisions
  <1> QED
    BY <1>6, <1>7, <1>9, <1>10, <1>11, <1>12, <1>13 DEF Rest

(* A call starts to wait for a human. *)
LEMMA CheckAsksStep ==
  ASSUME IInv, NEW k \in Calls, NEW r \in Requests, CheckAsks(k, r) PROVE Rest'
PROOF
  <1> USE DEF IInv
  <1>1. Begin(k, r) /\ phase[k] = "idle"
    BY DEF CheckAsks, Begin
  <1>2. /\ phase' = [phase EXCEPT ![k] = "waiting"]
        /\ future' = [future EXCEPT ![k] = "open"]
        /\ pending' = pending \union {k}
        /\ UNCHANGED <<verdict, answers, trusted, boot>>
    BY DEF CheckAsks, Begin
  <1>3. \A j \in Calls, d \in Decisions: Accepted(j, d) => Accepted(j, d)' /\ j # k
    BY <1>1, BeginKeepsAccepted
  <1>4. /\ \A j \in Calls: j # k => request'[j] = request[j] /\ origin'[j] = origin[j]
        /\ request'[k] = r /\ origin'[k].boot = boot
    BY <1>1, BeginKeepsAccepted
  <1>5. /\ future'[k] = "open" /\ phase'[k] = "waiting"
        /\ \A j \in Calls \ {k}: future'[j] = future[j] /\ phase'[j] = phase[j]
    BY <1>2 DEF TypeOK
  <1>6. verdict[k] = NoVerdict /\ \A a \in answers: a.call # k
    BY <1>1 DEF IdleIsFresh
  <1>7. ~r.listed
    BY DEF CheckAsks, Immediate, NoVerdict
  <1>8. IdleIsFresh'
    BY <1>2, <1>5 DEF IdleIsFresh
  <1>9. LiveIsAsking'
    BY <1>2, <1>4, <1>5, <1>6, <1>7 DEF LiveIsAsking, Live
  <1>10. AnswersAreAccepted'
    BY <1>3, <1>5 DEF AnswersAreAccepted, Decisions
  <1>11. TrustIsTapped'
    <2> SUFFICES ASSUME NEW s \in Sessions, NEW t \in Tools, <<s, t>> \in trusted
                 PROVE  \E j \in Calls: /\ Accepted(j, "trust_session")'
                                        /\ request'[j].session = s /\ request'[j].tool = t
                                        /\ origin'[j].boot = boot'
      BY <1>2 DEF TrustIsTapped
    <2> PICK j \in Calls: /\ Accepted(j, "trust_session")
                          /\ request[j].session = s /\ request[j].tool = t
                          /\ origin[j].boot = boot
      BY DEF TrustIsTapped
    <2> QED
      BY <1>2, <1>3, <1>4 DEF Decisions
  <1>12. ExecutionAuthorised'
    <2> SUFFICES ASSUME NEW j \in Calls, verdict[j] \in Executing PROVE Authorised(j)'
      BY <1>2 DEF ExecutionAuthorised
    <2>1. j # k
      BY <1>6 DEF Executing, NoVerdict
    <2>2. Authorised(j)
      BY DEF ExecutionAuthorised
    <2>3. TrustGiven(j) => TrustGiven(j)'
      BY <2>1, <1>3, <1>4 DEF TrustGiven, Decisions
    <2> QED
      BY <2>1, <2>2, <2>3, <1>2, <1>3, <1>4 DEF Authorised, Decisions
  <1>13. AnsweredIsUnlisted' /\ OneDecisionPerApproval'
    BY <1>2, <1>6 DEF AnsweredIsUnlisted, OneDecisionPerApproval
  <1>14. OpenIsAwaited' /\ WaiterIsListed' /\ AnswerNotDropped'
    BY <1>2, <1>5 DEF OpenIsAwaited, WaiterIsListed, AnswerNotDropped, Decisions
  <1> QED
    BY <1>8, <1>9, <1>10, <1>11, <1>12, <1>13, <1>14 DEF Rest

(* The steps that leave requests, answers and trust alone keep whatever was *)
(* accepted, tapped and authorised.                                         *)
LEMMA QuietStep ==
  ASSUME IInv, UNCHANGED <<boot, request, origin, answers, trusted>>,
         \A k \in Calls: verdict'[k] = verdict[k] \/ verdict'[k] \notin Executing
  PROVE  TrustIsTapped' /\ ExecutionAuthorised' /\ OneDecisionPerApproval'
PROOF
  <1> USE DEF IInv
  <1>1. TrustIsTapped'
    BY DEF TrustIsTapped, Accepted
  <1>2. ASSUME NEW k \in Calls, verdict'[k] \in Executing PROVE Authorised(k)'
    <2>1. verdict'[k] = verdict[k] /\ Authorised(k)
      BY <1>2 DEF ExecutionAuthorised
    <2>2. TrustGiven(k)' <=> TrustGiven(k)
      BY DEF TrustGiven, Accepted
    <2> QED
      BY <2>1, <2>2 DEF Authorised, Accepted
  <1> QED
    BY <1>1, <1>2 DEF ExecutionAuthorised, OneDecisionPerApproval

(* The timer of wait_for disturbs no conjunct: the entry stays in _pending. *)
LEMMA DeadlineStep == ASSUME IInv, NEW k \in Calls, Deadline(k) PROVE Rest'
PROOF
  <1> USE DEF IInv
  <1>1. TrustIsTapped' /\ ExecutionAuthorised' /\ OneDecisionPerApproval'
    BY QuietStep DEF Deadline
  <1>2. IdleIsFresh' /\ LiveIsAsking' /\ AnswersAreAccepted' /\ AnsweredIsUnlisted'
    BY DEF Deadline, TypeOK, IdleIsFresh, LiveIsAsking, Live, AnswersAreAccepted,
           Accepted, AnsweredIsUnlisted
  <1>3. OpenIsAwaited' /\ WaiterIsListed' /\ AnswerNotDropped'
    BY DEF Deadline, TypeOK, OpenIsAwaited, WaiterIsListed, AnswerNotDropped
  <1> QED
    BY <1>1, <1>2, <1>3 DEF Rest

(* The task that finds no answer cancels its future: no answer is lost by it. *)
LEMMA CancelFutureStep == ASSUME IInv, NEW k \in Calls, CancelFuture(k) PROVE Rest'
PROOF
  <1> USE DEF IInv
  <1>1. TrustIsTapped' /\ ExecutionAuthorised' /\ OneDecisionPerApproval'
    BY QuietStep DEF CancelFuture
  <1>2. IdleIsFresh' /\ LiveIsAsking' /\ AnswersAreAccepted' /\ AnsweredIsUnlisted'
    BY DEF CancelFuture, TypeOK, IdleIsFresh, LiveIsAsking, Live, AnswersAreAccepted,
           Accepted, AnsweredIsUnlisted, Decisions
  <1>3. OpenIsAwaited' /\ WaiterIsListed' /\ AnswerNotDropped'
    BY DEF CancelFuture, TypeOK, OpenIsAwaited, WaiterIsListed, AnswerNotDropped, Decisions
  <1> QED
    BY <1>1, <1>2, <1>3 DEF Rest

(* The except clause removes the entry of a call that is no longer live. *)
LEMMA TimedOutStep == ASSUME IInv, NEW k \in Calls, TimedOut(k) PROVE Rest'
PROOF
  <1> USE DEF IInv
  <1>1. TrustIsTapped' /\ ExecutionAuthorised' /\ OneDecisionPerApproval'
    BY QuietStep DEF TimedOut, TypeOK, Executing
  <1>2. IdleIsFresh' /\ LiveIsAsking' /\ AnswersAreAccepted' /\ AnsweredIsUnlisted'
    BY DEF TimedOut, TypeOK, IdleIsFresh, LiveIsAsking, Live, AnswersAreAccepted,
           Accepted, AnsweredIsUnlisted
  <1>3. OpenIsAwaited' /\ WaiterIsListed' /\ AnswerNotDropped'
    BY DEF TimedOut, TypeOK, OpenIsAwaited, WaiterIsListed, AnswerNotDropped, LiveIsAsking, Live, Decisions
  <1> QED
    BY <1>1, <1>2, <1>3 DEF Rest

(* A cancelled firing held no answer, so none is dropped. *)
LEMMA CancelTaskStep == ASSUME IInv, NEW k \in Calls, CancelTask(k) PROVE Rest'
PROOF
  <1> USE DEF IInv
  <1>1. TrustIsTapped' /\ ExecutionAuthorised' /\ OneDecisionPerApproval'
    BY QuietStep DEF CancelTask
  <1>2. IdleIsFresh' /\ LiveIsAsking' /\ AnswersAreAccepted' /\ AnsweredIsUnlisted'
    BY DEF CancelTask, TypeOK, IdleIsFresh, LiveIsAsking, Live, AnswersAreAccepted,
           Accepted, AnsweredIsUnlisted, Decisions
  <1>3. OpenIsAwaited' /\ WaiterIsListed' /\ AnswerNotDropped'
    BY DEF CancelTask, TypeOK, OpenIsAwaited, WaiterIsListed, AnswerNotDropped, Decisions
  <1> QED
    BY <1>1, <1>2, <1>3 DEF Rest

(* The task of an answered call runs: its verdict rests on the answer. *)
LEMMA AnsweredStep == ASSUME IInv, NEW k \in Calls, Answered(k) PROVE Rest'
PROOF
  <1> USE DEF IInv
  <1>1. /\ phase[k] \in {"waiting", "expired"} /\ future[k] \in Decisions
        /\ phase' = [phase EXCEPT ![k] = "done"]
        /\ UNCHANGED <<boot, request, origin, future, pending, answers>>
    BY DEF Answered
  <1>2. /\ phase'[k] = "done"
        /\ \A j \in Calls \ {k}: phase'[j] = phase[j] /\ verdict'[j] = verdict[j]
    BY <1>1 DEF Answered, TypeOK
  <1>3. verdict'[k] = CASE future[k] = "approve"       -> "approved"
                        [] future[k] = "trust_session" -> "trust_session"
                        [] OTHER                       -> "rejected"
    BY DEF Answered, TypeOK
  <1>4. Accepted(k, future[k]) /\ origin[k].boot = boot /\ ~request[k].listed
    BY <1>1 DEF AnswersAreAccepted, LiveIsAsking, Live
  <1>5. \A j \in Calls, d \in Decisions: Accepted(j, d)' <=> Accepted(j, d)
    BY <1>1 DEF Accepted
  <1>6. \A j \in Calls: TrustGiven(j)' <=> TrustGiven(j)
    BY <1>1, <1>5 DEF TrustGiven, Decisions
  <1>7. IdleIsFresh' /\ LiveIsAsking' /\ AnswersAreAccepted' /\ AnsweredIsUnlisted'
    BY <1>1, <1>2, <1>5 DEF IdleIsFresh, LiveIsAsking, Live, AnswersAreAccepted, AnsweredIsUnlisted
  <1>8. TrustIsTapped'
    <2> SUFFICES ASSUME NEW s \in Sessions, NEW t \in Tools, <<s, t>> \in trusted'
                 PROVE  \E j \in Calls: /\ Accepted(j, "trust_session")
                                        /\ request[j].session = s /\ request[j].tool = t
                                        /\ origin[j].boot = boot
      BY <1>1, <1>5 DEF TrustIsTapped, Decisions
    <2>1. CASE <<s, t>> \in trusted
      BY <2>1 DEF TrustIsTapped
    <2>2. CASE <<s, t>> \notin trusted
      <3>1. future[k] = "trust_session" /\ s = request[k].session /\ t = request[k].tool
        BY <2>2 DEF Answered
      <3> QED
        BY <3>1, <1>4
    <2> QED
      BY <2>1, <2>2
  <1>9. ExecutionAuthorised'
    <2> SUFFICES ASSUME NEW j \in Calls, verdict'[j] \in Executing PROVE Authorised(j)'
      BY DEF ExecutionAuthorised
    <2>1. CASE j # k
      <3>1. Authorised(j)
        BY <2>1, <1>2 DEF ExecutionAuthorised
      <3> QED
        BY <2>1, <3>1, <1>1, <1>2, <1>5, <1>6 DEF Authorised, Decisions
    <2>2. CASE j = k
      <3>1. \/ verdict'[k] = "approved" /\ Accepted(k, "approve")
            \/ verdict'[k] = "trust_session" /\ Accepted(k, "trust_session")
        BY <2>2, <1>3, <1>4 DEF Executing
      <3>2. Accepted(k, "trust_session") => TrustGiven(k)
        BY DEF TrustGiven
      <3> QED
        BY <2>2, <3>1, <3>2, <1>1, <1>4, <1>5, <1>6 DEF Authorised, Decisions
    <2> QED
      BY <2>1, <2>2
  <1>10. OneDecisionPerApproval' /\ OpenIsAwaited' /\ WaiterIsListed'
    BY <1>1, <1>2 DEF OneDecisionPerApproval, OpenIsAwaited, WaiterIsListed, Decisions
  <1>11. AnswerNotDropped'
    BY <1>1, <1>2, <1>3 DEF AnswerNotDropped
  <1> QED
    BY <1>7, <1>8, <1>9, <1>10, <1>11 DEF Rest

(* A client answers: the first answer to this approval, and the last. *)
LEMMA DecideStep ==
  ASSUME IInv, NEW k \in Calls, NEW c \in Clients, NEW d \in Decisions, Decide(k, c, d)
  PROVE  Rest'
PROOF
  <1> USE DEF IInv
  <1>1. /\ k \in pending /\ request[k].client = c /\ pending' = pending \ {k}
        /\ future' = [future EXCEPT ![k] = IF @ = "open" THEN d ELSE @]
        /\ answers' = answers \union {[call |-> k, client |-> c, decision |-> d]}
        /\ UNCHANGED <<boot, phase, request, origin, trusted, verdict>>
    BY DEF Decide
  <1>2. /\ future'[k] = IF future[k] = "open" THEN d ELSE future[k]
        /\ \A j \in Calls \ {k}: future'[j] = future[j]
    BY <1>1 DEF TypeOK
  <1>3. \A j \in Calls, e \in Decisions: Accepted(j, e) => Accepted(j, e)'
    BY <1>1 DEF Accepted
  <1>4. Accepted(k, d)'
    BY <1>1 DEF Accepted
  <1>5. phase[k] # "idle" /\ \A a \in answers: a.call # k
    BY <1>1 DEF IdleIsFresh, AnsweredIsUnlisted
  <1>6. IdleIsFresh'
    BY <1>1, <1>2, <1>5 DEF IdleIsFresh
  <1>7. LiveIsAsking'
    BY <1>1, <1>2 DEF LiveIsAsking, Live, Decisions
  <1>8. AnswersAreAccepted'
    BY <1>2, <1>3, <1>4 DEF AnswersAreAccepted
  <1>9. AnsweredIsUnlisted' /\ OneDecisionPerApproval'
    BY <1>1, <1>5 DEF AnsweredIsUnlisted, OneDecisionPerApproval
  <1>10. TrustIsTapped'
    BY <1>1, <1>3 DEF TrustIsTapped, Decisions
  <1>11. ExecutionAuthorised'
    <2> SUFFICES ASSUME NEW j \in Calls, verdict[j] \in Executing PROVE Authorised(j)'
      BY <1>1 DEF ExecutionAuthorised
    <2>1. Authorised(j)
      BY DEF ExecutionAuthorised
    <2>2. TrustGiven(j) => TrustGiven(j)'
      BY <1>1, <1>3 DEF TrustGiven, Decisions
    <2> QED
      BY <2>1, <2>2, <1>1, <1>3 DEF Authorised, Decisions
  <1>12. OpenIsAwaited' /\ WaiterIsListed'
    BY <1>1, <1>2 DEF OpenIsAwaited, WaiterIsListed, Decisions
  <1>13. AnswerNotDropped'
    BY <1>1, <1>2 DEF AnswerNotDropped, OpenIsAwaited
  <1> QED
    BY <1>6, <1>7, <1>8, <1>9, <1>10, <1>11, <1>12, <1>13 DEF Rest

(* MCP registration touches neither the calls nor the trust. *)
LEMMA RegistryStep ==
  ASSUME IInv, NEW t \in McpTools, Unregister(t) \/ Register(t) PROVE Rest'
PROOF
  <1> USE DEF IInv
  <1>1. UNCHANGED <<boot, phase, request, origin, future, pending, trusted, verdict, answers>>
    BY DEF Unregister, Register
  <1>2. TrustIsTapped' /\ ExecutionAuthorised' /\ OneDecisionPerApproval'
    BY <1>1, QuietStep
  <1> QED
    BY <1>1, <1>2 DEF Rest, IdleIsFresh, LiveIsAsking, AnswersAreAccepted, Accepted,
                      OpenIsAwaited, AnsweredIsUnlisted, WaiterIsListed, AnswerNotDropped

(* Everything in memory is gone, so nothing is asked, listed or trusted. *)
LEMMA RestartStep == ASSUME IInv, Restart PROVE Rest'
PROOF
  <1> USE DEF IInv
  <1>1. /\ pending' = {} /\ trusted' = {}
        /\ UNCHANGED <<request, origin, verdict, answers>>
        /\ \A k \in Calls:
             /\ phase'[k] = IF phase[k] \in Live THEN "abandoned" ELSE phase[k]
             /\ future'[k] = IF phase[k] \in Live THEN "cancelled" ELSE future[k]
    BY DEF Restart
  <1>2. \A k \in Calls: phase'[k] \notin Live
    BY <1>1 DEF Live
  <1>3. IdleIsFresh' /\ LiveIsAsking' /\ AnsweredIsUnlisted' /\ TrustIsTapped'
    BY <1>1, <1>2 DEF IdleIsFresh, LiveIsAsking, Live, AnsweredIsUnlisted, TrustIsTapped
  <1>4. AnswersAreAccepted' /\ OpenIsAwaited'
    BY <1>1 DEF AnswersAreAccepted, Accepted, OpenIsAwaited, Live, Decisions
  <1>5. ExecutionAuthorised' /\ OneDecisionPerApproval'
    BY <1>1 DEF ExecutionAuthorised, Authorised, TrustGiven, Accepted, OneDecisionPerApproval
  <1>6. WaiterIsListed' /\ AnswerNotDropped'
    BY <1>1, <1>2 DEF WaiterIsListed, AnswerNotDropped, Live, Decisions
  <1> QED
    BY <1>3, <1>4, <1>5, <1>6 DEF Rest

(* A stuttering step keeps the invariant. *)
LEMMA StutterStep == ASSUME IInv, UNCHANGED vars PROVE Rest'
PROOF
  <1> USE DEF IInv, vars
  <1>1. TrustIsTapped' /\ ExecutionAuthorised' /\ OneDecisionPerApproval'
    BY QuietStep
  <1> QED
    BY <1>1 DEF Rest, IdleIsFresh, LiveIsAsking, AnswersAreAccepted, Accepted,
                OpenIsAwaited, AnsweredIsUnlisted, WaiterIsListed, AnswerNotDropped

(* Every step keeps the invariant. *)
LEMMA InvStep == ASSUME IInv, [Next]_vars PROVE IInv'
PROOF
  <1>1. TypeOK'
    BY TypeStep DEF IInv
  <1>2. Rest'
    BY CheckImmediateStep, CheckAsksStep, DeadlineStep, AnsweredStep, CancelFutureStep,
       TimedOutStep, CancelTaskStep, DecideStep, RegistryStep, RestartStep, StutterStep
       DEF Next
  <1> QED
    BY <1>1, <1>2 DEF IInv, Rest

(* Every reachable state satisfies the inductive invariant: the step lemmas joined. *)
THEOREM Invariance == Spec => []IInv
PROOF
  <1>1. Init => IInv
    BY InitInv
  <1>2. IInv /\ [Next]_vars => IInv'
    BY InvStep
  <1> QED
    BY <1>1, <1>2, PTL DEF Spec

(* The variables keep their types. *)
THEOREM TypeCorrect == Spec => []TypeOK
  BY Invariance, PTL DEF IInv

(* No tool call runs without the policy's, the user's or a live trust's     *)
(* authority (ApprovalMiddleware.check and the decide endpoint), for any    *)
(* number of calls, sessions and clients in flight.                         *)
THEOREM AuthorisedExecution == Spec => []ExecutionAuthorised
  BY Invariance, PTL DEF IInv

(* An approval takes at most one decision (resolve_approval). *)
THEOREM SingleDecision == Spec => []OneDecisionPerApproval
  BY Invariance, PTL DEF IInv

(* A call that can still be answered is on the list clients poll. *)
THEOREM WaitersAreListed == Spec => []WaiterIsListed
  BY Invariance, PTL DEF IInv

(* An accepted answer that reached the future decides the call, whatever    *)
(* timer or cancellation races with it (request_approval's wait_for).       *)
THEOREM AnswersHold == Spec => []AnswerNotDropped
  BY Invariance, PTL DEF IInv

(* Trust changes only by the task of a call whose user tapped it, and by a  *)
(* restart, which forgets it.                                               *)
THEOREM TrustOnlyByTap == Spec => TrustGrants
PROOF
  <1> DEFINE Tapped ==
        \/ boot' # boot /\ trusted' = {}
        \/ \E k \in Calls: /\ Accepted(k, "trust_session")
                           /\ phase[k] # "done" /\ phase'[k] = "done"
                           /\ trusted' = trusted \union
                                {<<request[k].session, request[k].tool>>}
  <1>1. ASSUME IInv, [Next]_vars PROVE [trusted' # trusted => Tapped]_vars
    <2> SUFFICES ASSUME Next, trusted' # trusted PROVE Tapped
      BY <1>1 DEF vars
    <2>1. CASE Restart
      BY <2>1, <1>1 DEF Restart, IInv, TypeOK, ApprovalAssumption
    <2>2. ASSUME NEW k \in Calls, Answered(k)
          PROVE  /\ Accepted(k, "trust_session")
                 /\ phase[k] # "done" /\ phase'[k] = "done"
                 /\ trusted' = trusted \union {<<request[k].session, request[k].tool>>}
      BY <2>2, <1>1 DEF Answered, IInv, TypeOK, AnswersAreAccepted
    <2> QED
      BY <2>1, <2>2 DEF Next, CheckImmediate, CheckAsks, Begin, Deadline,
         CancelFuture, TimedOut, CancelTask, Decide, Unregister, Register
  <1>2. Spec => [][trusted' # trusted => Tapped]_vars
    <2> HIDE DEF Tapped
    <2> QED
      BY <1>1, Invariance, PTL DEF Spec
  <1> QED
    BY <1>2 DEF TrustGrants

-----------------------------------------------------------------------------
(* The Telegram bot and the approval middleware, for any calls, faults, taps *)
(* and prompts.  The bot's steps are steps of the middleware's environment   *)
(* or leave it alone, so what is shown above of the gateway holds behind the *)
(* bot, too.                                                                 *)

Prompts == [call: Calls, shows: Decisions \union {"buttons", "failed"}]
Taps == [prompt: 1..MaxPrompts, decision: Decisions, at: {"asking", "told", "done"},
         told: {"nothing", "resolved", "refused", "lost"}]

(* The bot's state is well typed, and a tap is on a prompt of the chat. *)
BotTyped ==
  /\ surfaced \subseteq Calls /\ queue \subseteq Calls /\ unsent \subseteq Calls
  /\ prompts \in Seq(Prompts) /\ taps \in Seq(Taps)
  /\ \A i \in DOMAIN taps: taps[i].prompt \in DOMAIN prompts
  /\ lapses \in Nat /\ faults \in Nat

Known(k) == phase[k] # "idle" /\ request[k].client = Bot

(* The bot only knows calls that have reached check and are routed to it. *)
BotKnows ==
  /\ \A k \in surfaced \union queue: Known(k)
  /\ \A p \in DOMAIN prompts: Known(prompts[p].call)

Asked(i) == prompts[taps[i].prompt].call

(* What a tap was told is what the gateway did with it: a decision it took, *)
(* or a call that is no longer listed.                                      *)
TapsAreTrue ==
  \A i \in DOMAIN taps:
    /\ taps[i].at = "told" => taps[i].told # "nothing"
    /\ taps[i].told = "resolved" =>
         [call |-> Asked(i), client |-> Bot, decision |-> taps[i].decision] \in answers
    /\ taps[i].told = "refused" => Asked(i) \notin pending

BotInv == IInv /\ BotTyped /\ BotKnows /\ TapsAreTrue /\ ShownIsDecided /\ AskedIsAnswerable

(* Nothing happened yet: the bot's part of the invariant holds. *)
LEMMA BotInitInv == BotInit => BotInv
PROOF
  <1> SUFFICES ASSUME BotInit PROVE BotInv
    OBVIOUS
  <1>1. IInv
    BY InitInv DEF BotInit
  <1>2. BotTyped /\ BotKnows /\ TapsAreTrue
    BY DEF BotInit, BotTyped, BotKnows, TapsAreTrue
  <1>3. ShownIsDecided /\ AskedIsAnswerable
    BY DEF BotInit, ShownIsDecided, AskedIsAnswerable
  <1> QED
    BY <1>1, <1>2, <1>3 DEF BotInv

-----------------------------------------------------------------------------
(* Refinement.                                                               *)

(* A step of the composed system is a step of the middleware, or none of it. *)
LEMMA GatewaySimulates ==
  ASSUME BotTyped, [GatewayStep \/ BotStep]_allVars PROVE [Next]_vars
PROOF
  <1>1. CASE GatewayStep
    BY <1>1 DEF GatewayStep, Next
  <1>2. ASSUME NEW i \in DOMAIN taps, TapDecides(i) PROVE Next
    <2>1. taps[i] \in Taps /\ taps[i].prompt \in DOMAIN prompts
      BY DEF BotTyped
    <2>2. prompts[taps[i].prompt] \in Prompts
      BY <2>1 DEF BotTyped
    <2>3. /\ prompts[taps[i].prompt].call \in Calls
          /\ Bot \in Clients /\ taps[i].decision \in Decisions
      BY <2>1, <2>2, BotAssumption DEF Prompts, Taps
    <2>4. Decide(prompts[taps[i].prompt].call, Bot, taps[i].decision)
      BY <1>2 DEF TapDecides
    <2> QED
      BY <2>3, <2>4 DEF Next
  <1>3. CASE \/ Poll \/ PollFails \/ BotRestart
             \/ \E k \in queue: Prompt(k)
             \/ \E p \in 1..MaxPrompts, d \in Decisions: Tap(p, d)
             \/ \E i \in DOMAIN taps: TapTooLate(i) \/ TapLost(i) \/ Show(i)
    BY <1>3 DEF Poll, PollFails, BotRestart, Prompt, Tap, TapTooLate, TapLost, Show
  <1>4. CASE UNCHANGED allVars
    BY <1>4 DEF allVars
  <1> QED
    BY <1>1, <1>2, <1>3, <1>4 DEF BotStep

-----------------------------------------------------------------------------
(* The gateway's steps, as the bot sees them.                                *)

(* A gateway step may list a call only when that call begins, changes no     *)
(* request of a call that has begun, and takes no answer back.               *)
LEMMA GatewayKeeps ==
  ASSUME IInv, GatewayStep
  PROVE  /\ \A k \in Calls: phase[k] # "idle" => phase'[k] # "idle" /\ request'[k] = request[k]
         /\ \A k \in Calls: phase[k] # "idle" /\ k \in pending' => k \in pending
         /\ answers \subseteq answers'
         /\ UNCHANGED bot
PROOF
  <1>1. TypeOK
    BY DEF IInv
  <1>2. ASSUME NEW k \in Calls, NEW r \in Requests, CheckImmediate(k, r) \/ CheckAsks(k, r)
        PROVE  /\ \A j \in Calls: phase[j] # "idle" =>
                    phase'[j] # "idle" /\ request'[j] = request[j]
               /\ \A j \in Calls: phase[j] # "idle" /\ j \in pending' => j \in pending
               /\ answers \subseteq answers'
    BY <1>1, <1>2 DEF CheckImmediate, CheckAsks, Begin, TypeOK
  <1>3. ASSUME NEW k \in Calls,
               Deadline(k) \/ Answered(k) \/ CancelFuture(k) \/ TimedOut(k) \/ CancelTask(k)
        PROVE  /\ \A j \in Calls: phase[j] # "idle" =>
                    phase'[j] # "idle" /\ request'[j] = request[j]
               /\ \A j \in Calls: phase[j] # "idle" /\ j \in pending' => j \in pending
               /\ answers \subseteq answers'
    BY <1>1, <1>3 DEF Deadline, Answered, CancelFuture, TimedOut, CancelTask, TypeOK
  <1>4. CASE Restart
    BY <1>1, <1>4 DEF Restart, GatewayStep, TypeOK
  <1> QED
    BY <1>2, <1>3, <1>4 DEF GatewayStep

(* The bot's part of the invariant survives a step of the gateway. *)
LEMMA GatewayPart ==
  ASSUME BotInv, GatewayStep
  PROVE  BotTyped' /\ BotKnows' /\ TapsAreTrue' /\ ShownIsDecided' /\ AskedIsAnswerable'
PROOF
  <1> USE DEF BotInv
  <1>1. /\ \A k \in Calls: phase[k] # "idle" => phase'[k] # "idle" /\ request'[k] = request[k]
        /\ \A k \in Calls: phase[k] # "idle" /\ k \in pending' => k \in pending
        /\ answers \subseteq answers'
    BY GatewayKeeps
  <1>2. UNCHANGED <<surfaced, queue, prompts, taps, unsent, lapses, faults>>
    BY GatewayKeeps DEF bot
  <1>3. BotTyped'
    BY <1>2 DEF BotTyped
  <1>4. \A p \in DOMAIN prompts: prompts[p].call \in Calls /\ Known(prompts[p].call)
    <2>1. \A p \in DOMAIN prompts: prompts[p] \in Prompts
      BY DEF BotTyped
    <2> QED
      BY <2>1 DEF BotKnows, Prompts
  <1>5. \A k \in surfaced \union queue: k \in Calls /\ Known(k)
    BY DEF BotTyped, BotKnows
  <1>6. BotKnows'
    BY <1>1, <1>2, <1>4, <1>5 DEF BotKnows, Known
  <1>7. TapsAreTrue'
    <2>1. \A i \in DOMAIN taps: Asked(i) \in Calls /\ phase[Asked(i)] # "idle"
      BY <1>4 DEF BotTyped, Asked, Known
    <2>2. \A i \in DOMAIN taps: Asked(i)' = Asked(i)
      BY <1>2 DEF Asked
    <2> QED
      BY <1>1, <1>2, <2>1, <2>2 DEF TapsAreTrue
  <1>8. ShownIsDecided'
    BY <1>1, <1>2 DEF ShownIsDecided
  <1>9. AskedIsAnswerable'
    BY <1>1, <1>2, <1>5 DEF AskedIsAnswerable, Known
  <1> QED
    BY <1>3, <1>6, <1>7, <1>8, <1>9

-----------------------------------------------------------------------------
(* The poller's steps.                                                       *)

(* Polls, prompts and a restart of the bot keep its part of the invariant. *)
LEMMA PollPart ==
  ASSUME BotInv, Poll \/ PollFails
  PROVE  BotTyped' /\ BotKnows' /\ TapsAreTrue' /\ ShownIsDecided' /\ AskedIsAnswerable'
PROOF
  <1> USE DEF BotInv
  <1>1. UNCHANGED vars /\ UNCHANGED <<prompts, taps, unsent>>
    BY DEF Poll, PollFails
  <1>2. surfaced' \subseteq surfaced /\ queue' \subseteq Pending(Bot)
    BY DEF Poll, PollFails
  <1>3. \A k \in Pending(Bot): k \in Calls /\ Known(k)
    <2>1. pending \subseteq Calls /\ \A k \in pending: phase[k] # "idle"
      BY DEF IInv, TypeOK, IdleIsFresh
    <2> QED
      BY <2>1 DEF Pending, Known
  <1>4. lapses' \in Nat /\ faults' \in Nat
    BY DEF Poll, PollFails, Fails, BotTyped
  <1>5. BotTyped'
    BY <1>1, <1>2, <1>3, <1>4 DEF BotTyped
  <1>6. BotKnows'
    BY <1>1, <1>2, <1>3 DEF BotKnows, Known, vars
  <1>7. TapsAreTrue'
    BY <1>1 DEF TapsAreTrue, Asked, vars
  <1>8. ShownIsDecided' /\ AskedIsAnswerable'
    BY <1>1, <1>2 DEF ShownIsDecided, AskedIsAnswerable, vars
  <1> QED
    BY <1>5, <1>6, <1>7, <1>8

(* Appending a prompt keeps those that are there where they are. *)
LEMMA PromptAppended ==
  ASSUME BotTyped, NEW k \in Calls,
         prompts' = Append(prompts, [call |-> k, shows |-> "buttons"])
  PROVE  /\ prompts' \in Seq(Prompts)
         /\ DOMAIN prompts' = DOMAIN prompts \union {Len(prompts) + 1}
         /\ \A p \in DOMAIN prompts: prompts'[p] = prompts[p]
         /\ prompts'[Len(prompts) + 1] = [call |-> k, shows |-> "buttons"]
PROOF
  <1>1. [call |-> k, shows |-> "buttons"] \in Prompts
    BY DEF Prompts
  <1>2. prompts \in Seq(Prompts) /\ Len(prompts) \in Nat
    BY DEF BotTyped
  <1>3. /\ prompts' \in Seq(Prompts) /\ Len(prompts') = Len(prompts) + 1
        /\ \A p \in 1..Len(prompts): prompts'[p] = prompts[p]
        /\ prompts'[Len(prompts) + 1] = [call |-> k, shows |-> "buttons"]
    BY <1>1, <1>2, AppendProperties
  <1>4. DOMAIN prompts' = 1..(Len(prompts) + 1) /\ DOMAIN prompts = 1..Len(prompts)
    BY <1>2, <1>3
  <1> QED
    BY <1>2, <1>3, <1>4

(* A prompt is posted, or refused by Telegram. *)
LEMMA PromptPart ==
  ASSUME BotInv, NEW k \in queue, Prompt(k)
  PROVE  BotTyped' /\ BotKnows' /\ TapsAreTrue' /\ ShownIsDecided' /\ AskedIsAnswerable'
PROOF
  <1> USE DEF BotInv
  <1>1. UNCHANGED vars /\ UNCHANGED taps /\ UNCHANGED lapses
    BY DEF Prompt
  <1>2. queue' = queue \ {k} /\ surfaced' = surfaced \union {k} /\ k \in Calls
    BY DEF Prompt, BotTyped
  <1>3. Known(k)
    BY DEF BotKnows
  <1>4. /\ prompts' \in Seq(Prompts)
        /\ DOMAIN prompts \subseteq DOMAIN prompts'
        /\ \A p \in DOMAIN prompts: prompts'[p] = prompts[p]
        /\ \A p \in DOMAIN prompts' \ DOMAIN prompts:
             prompts'[p] = [call |-> k, shows |-> "buttons"]
    <2>1. CASE prompts' = Append(prompts, [call |-> k, shows |-> "buttons"])
      BY <1>2, <2>1, PromptAppended
    <2>2. CASE UNCHANGED prompts
      BY <2>2 DEF BotTyped
    <2> QED
      BY <2>1, <2>2 DEF Prompt
  <1>5. \/ \E p \in DOMAIN prompts': prompts'[p] = [call |-> k, shows |-> "buttons"]
        \/ k \in unsent'
    <2>1. CASE prompts' = Append(prompts, [call |-> k, shows |-> "buttons"])
      BY <1>2, <2>1, PromptAppended
    <2>2. CASE unsent' = unsent \union {k}
      BY <2>2
    <2> QED
      BY <2>1, <2>2 DEF Prompt
  <1>6. unsent \subseteq unsent' /\ unsent' \subseteq Calls /\ faults' \in Nat
    BY <1>2 DEF Prompt, Fails, BotTyped
  <1>7. BotTyped'
    BY <1>1, <1>2, <1>4, <1>6 DEF BotTyped
  <1>8. BotKnows'
    BY <1>1, <1>2, <1>3, <1>4 DEF BotKnows, Known, vars
  <1>9. \A i \in DOMAIN taps: taps[i].prompt \in DOMAIN prompts /\ Asked(i)' = Asked(i)
    BY <1>1, <1>4 DEF BotTyped, Asked
  <1>10. TapsAreTrue'
    BY <1>1, <1>9 DEF TapsAreTrue, vars
  <1>11. ShownIsDecided'
    <2> SUFFICES ASSUME NEW p \in DOMAIN prompts', prompts'[p].shows \in Decisions
                 PROVE  [call |-> prompts'[p].call, client |-> Bot,
                         decision |-> prompts'[p].shows] \in answers'
      BY DEF ShownIsDecided
    <2>1. p \in DOMAIN prompts
      BY <1>4 DEF Decisions
    <2> QED
      BY <1>1, <1>4, <2>1 DEF ShownIsDecided, vars
  <1>12. AskedIsAnswerable'
    <2> SUFFICES ASSUME NEW j \in surfaced' \intersect pending'
                 PROVE  /\ request'[j].client = Bot
                        /\ \/ \E p \in DOMAIN prompts': /\ prompts'[p].call = j
                                                        /\ prompts'[p].shows = "buttons"
                           \/ \E i \in DOMAIN taps': /\ prompts'[taps'[i].prompt].call = j
                                                     /\ taps'[i].at = "asking" \/ taps'[i].told = "lost"
                           \/ j \in unsent'
      BY DEF AskedIsAnswerable
    <2>1. CASE j = k
      BY <1>1, <1>3, <1>5, <2>1 DEF Known, vars
    <2>2. CASE j # k
      BY <1>1, <1>2, <1>4, <1>6, <1>9, <2>2 DEF AskedIsAnswerable, BotTyped, vars
    <2> QED
      BY <2>1, <2>2
  <1> QED
    BY <1>7, <1>8, <1>10, <1>11, <1>12
-----------------------------------------------------------------------------
(* The taps' steps.                                                          *)

(* A tap that moves on leaves the others, and its own prompt, as they are. *)
LEMMA TapMoves ==
  ASSUME BotTyped, NEW i \in DOMAIN taps,
         NEW at \in {"asking", "told", "done"},
         NEW told \in {"nothing", "resolved", "refused", "lost"},
         taps' = [taps EXCEPT ![i].at = at, ![i].told = told]
  PROVE  /\ taps' \in Seq(Taps) /\ DOMAIN taps' = DOMAIN taps
         /\ \A j \in DOMAIN taps: j # i => taps'[j] = taps[j]
         /\ taps'[i].prompt = taps[i].prompt /\ taps'[i].decision = taps[i].decision
         /\ taps'[i].at = at /\ taps'[i].told = told
PROOF
  <1> DEFINE tap == [taps[i] EXCEPT !.at = at, !.told = told]
  <1>1. taps \in Seq(Taps) /\ i \in 1..Len(taps) /\ taps[i] \in Taps
    BY DEF BotTyped
  <1>2. tap \in Taps
    BY <1>1 DEF Taps
  <1>3. taps' = [taps EXCEPT ![i] = tap]
    BY <1>1
  <1>4. /\ tap.prompt = taps[i].prompt /\ tap.decision = taps[i].decision
        /\ tap.at = at /\ tap.told = told
    BY <1>1 DEF Taps
  <1> HIDE DEF tap
  <1>5. /\ taps' \in Seq(Taps) /\ Len(taps') = Len(taps)
        /\ \A j \in 1..Len(taps): taps'[j] = IF j = i THEN tap ELSE taps[j]
    <2>1. /\ [taps EXCEPT ![i] = tap] \in Seq(Taps) /\ Len([taps EXCEPT ![i] = tap]) = Len(taps)
          /\ \A j \in 1..Len(taps): [taps EXCEPT ![i] = tap][j] = IF j = i THEN tap ELSE taps[j]
      BY <1>1, <1>2, ExceptSeq
    <2> QED
      BY <1>3, <2>1
  <1> QED
    BY <1>1, <1>4, <1>5

(* A new tap asks the gateway; it has been told nothing. *)
LEMMA TapPart ==
  ASSUME BotInv, NEW p \in 1..MaxPrompts, NEW d \in Decisions, Tap(p, d)
  PROVE  BotTyped' /\ BotKnows' /\ TapsAreTrue' /\ ShownIsDecided' /\ AskedIsAnswerable'
PROOF
  <1> USE DEF BotInv
  <1> DEFINE tap == [prompt |-> p, decision |-> d, at |-> "asking", told |-> "nothing"]
  <1>1. UNCHANGED <<vars, surfaced, queue, prompts, unsent, lapses, faults>>
    BY DEF Tap
  <1>2. tap \in Taps /\ p \in DOMAIN prompts
    BY DEF Tap, Taps
  <1>3. taps \in Seq(Taps) /\ Len(taps) \in Nat
    BY DEF BotTyped
  <1>4. /\ tap.prompt = p /\ tap.at = "asking" /\ tap.told = "nothing"
        /\ taps' = Append(taps, tap)
    BY DEF Tap
  <1> HIDE DEF tap
  <1>5. /\ taps' \in Seq(Taps) /\ DOMAIN taps' = DOMAIN taps \union {Len(taps) + 1}
        /\ \A i \in DOMAIN taps: taps'[i] = taps[i]
        /\ taps'[Len(taps) + 1] = tap
    <2>1. /\ taps' \in Seq(Taps) /\ Len(taps') = Len(taps) + 1
          /\ \A i \in 1..Len(taps): taps'[i] = taps[i]
          /\ taps'[Len(taps) + 1] = tap
      BY <1>2, <1>3, <1>4, AppendProperties
    <2>2. DOMAIN taps' = 1..(Len(taps) + 1) /\ DOMAIN taps = 1..Len(taps)
      BY <1>3, <2>1
    <2> QED
      BY <1>3, <2>1, <2>2
  <1>6. BotTyped'
    BY <1>1, <1>2, <1>4, <1>5 DEF BotTyped
  <1>7. BotKnows'
    BY <1>1 DEF BotKnows, Known, vars
  <1>8. TapsAreTrue'
    <2>1. ASSUME NEW i \in DOMAIN taps'
          PROVE  /\ taps'[i].at = "told" => taps'[i].told # "nothing"
                 /\ taps'[i].told = "resolved" =>
                      [call |-> prompts[taps'[i].prompt].call, client |-> Bot,
                       decision |-> taps'[i].decision] \in answers
                 /\ taps'[i].told = "refused" => prompts[taps'[i].prompt].call \notin pending
      <3>1. CASE i \in DOMAIN taps
        BY <1>5, <3>1 DEF TapsAreTrue, Asked
      <3>2. CASE i = Len(taps) + 1
        BY <1>4, <1>5, <3>2
      <3> QED
        BY <1>5, <3>1, <3>2
    <2> QED
      BY <1>1, <2>1 DEF TapsAreTrue, Asked, vars
  <1>9. ShownIsDecided'
    BY <1>1 DEF ShownIsDecided, vars
  <1>10. AskedIsAnswerable'
    BY <1>1, <1>5 DEF AskedIsAnswerable, vars
  <1> QED
    BY <1>6, <1>7, <1>8, <1>9, <1>10

(* The gateway has taken a tap's decision, refused it, or never seen it. *)
LEMMA ToldPart ==
  ASSUME BotInv, NEW i \in DOMAIN taps, TapDecides(i) \/ TapTooLate(i) \/ TapLost(i), IInv'
  PROVE  BotTyped' /\ BotKnows' /\ TapsAreTrue' /\ ShownIsDecided' /\ AskedIsAnswerable'
PROOF
  <1> USE DEF BotInv
  <1>1. UNCHANGED <<surfaced, queue, prompts, unsent, lapses, phase, request>>
    BY DEF TapDecides, TapTooLate, TapLost, Decide, vars
  <1>2. taps[i].at = "asking" /\ faults' \in Nat
    BY DEF TapDecides, TapTooLate, TapLost, Fails, BotTyped
  <1>3. PICK told \in {"resolved", "refused", "lost"}:
          /\ taps' = [taps EXCEPT ![i].at = "told", ![i].told = told]
          /\ told = "refused" => Asked(i) \notin pending
          /\ told = "resolved" =>
               [call |-> Asked(i), client |-> Bot, decision |-> taps[i].decision] \in answers'
    BY DEF TapDecides, TapTooLate, TapLost, Told, Decide, Asked
  <1>4. /\ taps' \in Seq(Taps) /\ DOMAIN taps' = DOMAIN taps
        /\ \A j \in DOMAIN taps: j # i => taps'[j] = taps[j]
        /\ taps'[i].prompt = taps[i].prompt /\ taps'[i].decision = taps[i].decision
        /\ taps'[i].at = "told" /\ taps'[i].told = told
    BY <1>3, TapMoves
  <1>5. /\ pending' \subseteq pending /\ answers \subseteq answers'
        /\ Asked(i) \in pending' => told = "lost"
    <2>1. CASE TapDecides(i)
      <3>1. pending' = pending \ {Asked(i)} /\ answers \subseteq answers'
        BY <2>1 DEF TapDecides, Decide, Asked
      <3> QED
        BY <3>1
    <2>2. CASE TapTooLate(i)
      BY <2>2 DEF TapTooLate, Asked, vars
    <2>3. CASE TapLost(i)
      <3>1. taps'[i].told = "lost"
        <4>1. taps' = [taps EXCEPT ![i].at = "told", ![i].told = "lost"]
          BY <2>3 DEF TapLost, Told
        <4> QED
          BY <4>1, TapMoves
      <3> QED
        BY <1>4, <2>3, <3>1 DEF TapLost, vars
    <2> QED
      BY <2>1, <2>2, <2>3
  <1>6. BotTyped'
    BY <1>1, <1>2, <1>4 DEF BotTyped
  <1>7. BotKnows'
    BY <1>1 DEF BotKnows, Known
  <1>8. \A j \in DOMAIN taps: Asked(j)' = Asked(j)
    BY <1>1, <1>4 DEF Asked
  <1>9. TapsAreTrue'
    BY <1>3, <1>4, <1>5, <1>8 DEF TapsAreTrue
  <1>10. ShownIsDecided'
    BY <1>1, <1>5 DEF ShownIsDecided
  <1>11. AskedIsAnswerable'
    <2> SUFFICES ASSUME NEW k \in surfaced \intersect pending'
                 PROVE  /\ request[k].client = Bot
                        /\ \/ \E p \in DOMAIN prompts: /\ prompts[p].call = k
                                                       /\ prompts[p].shows = "buttons"
                           \/ \E j \in DOMAIN taps': /\ Asked(j)' = k
                                                     /\ taps'[j].at = "asking" \/ taps'[j].told = "lost"
                           \/ k \in unsent
      BY <1>1 DEF AskedIsAnswerable, Asked
    <2>1. /\ request[k].client = Bot
          /\ \/ \E p \in DOMAIN prompts: prompts[p].call = k /\ prompts[p].shows = "buttons"
             \/ \E j \in DOMAIN taps: Asked(j) = k /\ (taps[j].at = "asking" \/ taps[j].told = "lost")
             \/ k \in unsent
      BY <1>5 DEF AskedIsAnswerable, Asked
    <2>2. ASSUME NEW j \in DOMAIN taps, Asked(j) = k, taps[j].at = "asking" \/ taps[j].told = "lost"
          PROVE  Asked(j)' = k /\ (taps'[j].at = "asking" \/ taps'[j].told = "lost")
      <3>1. CASE j = i
        BY <1>4, <1>5, <1>8, <2>2, <3>1
      <3>2. CASE j # i
        BY <1>4, <1>8, <2>2, <3>2
      <3> QED
        BY <3>1, <3>2
    <2> QED
      BY <1>4, <2>1, <2>2
  <1> QED
    BY <1>6, <1>7, <1>9, <1>10, <1>11
(* The outcome replaces the buttons of the prompt that was tapped. *)
LEMMA ShowPart ==
  ASSUME BotInv, NEW i \in DOMAIN taps, Show(i)
  PROVE  BotTyped' /\ BotKnows' /\ TapsAreTrue' /\ ShownIsDecided' /\ AskedIsAnswerable'
PROOF
  <1> USE DEF BotInv
  <1> DEFINE q == taps[i].prompt
  <1>1. UNCHANGED <<vars, surfaced, queue, unsent, lapses>> /\ taps[i].at = "told"
    BY DEF Show
  <1>2. taps[i] \in Taps /\ q \in DOMAIN prompts
    BY DEF BotTyped
  <1>3. /\ taps' \in Seq(Taps) /\ DOMAIN taps' = DOMAIN taps
        /\ \A j \in DOMAIN taps: j # i => taps'[j] = taps[j]
        /\ \A j \in DOMAIN taps: /\ taps'[j].prompt = taps[j].prompt
                                 /\ taps'[j].decision = taps[j].decision
                                 /\ taps'[j].told = taps[j].told
        /\ taps'[i].at = "done"
    <2>1. taps[i].told \in {"nothing", "resolved", "refused", "lost"}
      BY <1>2 DEF Taps
    <2>2. [taps[i] EXCEPT !.at = "done"] = [taps[i] EXCEPT !.at = "done", !.told = taps[i].told]
      BY <1>2 DEF Taps
    <2>3. taps' = [taps EXCEPT ![i].at = "done", ![i].told = taps[i].told]
      BY <1>2, <2>2 DEF Show, BotTyped
    <2> QED
      BY <2>1, <2>3, TapMoves
  <1>4. Outcome(i) \in Decisions \union {"failed"}
    BY <1>2 DEF Outcome, Taps
  <1>5. /\ prompts' \in Seq(Prompts) /\ DOMAIN prompts' = DOMAIN prompts
        /\ \A p \in DOMAIN prompts: /\ prompts'[p].call = prompts[p].call
                                    /\ p # q => prompts'[p] = prompts[p]
        /\ prompts'[q].shows \in {Outcome(i), prompts[q].shows}
    <2> DEFINE new == [prompts[q] EXCEPT !.shows = Outcome(i)]
    <2>1. CASE UNCHANGED prompts
      BY <2>1 DEF BotTyped
    <2>2. CASE prompts' = [prompts EXCEPT ![q].shows = Outcome(i)]
      <3>1. prompts \in Seq(Prompts) /\ q \in 1..Len(prompts) /\ prompts[q] \in Prompts
        BY <1>2 DEF BotTyped
      <3>2. new \in Prompts /\ new.call = prompts[q].call /\ new.shows = Outcome(i)
        BY <1>4, <3>1 DEF Prompts
      <3>3. prompts' = [prompts EXCEPT ![q] = new]
        BY <2>2, <3>1
      <3> HIDE DEF new
      <3>4. /\ [prompts EXCEPT ![q] = new] \in Seq(Prompts)
            /\ Len([prompts EXCEPT ![q] = new]) = Len(prompts)
            /\ \A p \in 1..Len(prompts):
                 [prompts EXCEPT ![q] = new][p] = IF p = q THEN new ELSE prompts[p]
        BY <3>1, <3>2, ExceptSeq
      <3> QED
        BY <3>1, <3>2, <3>3, <3>4
    <2> QED
      BY <2>1, <2>2 DEF Show
  <1>6. BotTyped'
    <2>1. faults' \in Nat
      BY DEF Show, Fails, BotTyped
    <2> QED
      BY <1>1, <1>3, <1>5, <2>1 DEF BotTyped
  <1>7. BotKnows'
    BY <1>1, <1>5 DEF BotKnows, Known, vars
  <1>8. \A j \in DOMAIN taps: taps[j].prompt \in DOMAIN prompts /\ Asked(j)' = Asked(j)
    BY <1>3, <1>5 DEF BotTyped, Asked
  <1>9. TapsAreTrue'
    BY <1>1, <1>3, <1>8 DEF TapsAreTrue, vars
  <1>10. ShownIsDecided'
    <2>1. Outcome(i) \in Decisions =>
            [call |-> Asked(i), client |-> Bot, decision |-> Outcome(i)] \in answers
      BY DEF Outcome, TapsAreTrue, Decisions
    <2> QED
      BY <1>1, <1>2, <1>5, <2>1 DEF ShownIsDecided, Asked, vars
  <1>11. AskedIsAnswerable'
    <2>1. Asked(i) \in pending => taps[i].told = "lost"
      <3>1. taps[i].told \in {"resolved", "refused", "lost"}
        BY <1>1, <1>2 DEF TapsAreTrue, Taps
      <3>2. \A a \in answers: a.call \notin pending
        BY DEF IInv, AnsweredIsUnlisted
      <3> QED
        BY <3>1, <3>2 DEF TapsAreTrue
    <2> SUFFICES ASSUME NEW k \in surfaced \intersect pending
                 PROVE  /\ request[k].client = Bot
                        /\ \/ \E p \in DOMAIN prompts: /\ prompts'[p].call = k
                                                       /\ prompts'[p].shows = "buttons"
                           \/ \E j \in DOMAIN taps: /\ Asked(j)' = k
                                                    /\ taps'[j].at = "asking" \/ taps'[j].told = "lost"
                           \/ k \in unsent
      BY <1>1, <1>3, <1>5 DEF AskedIsAnswerable, Asked, vars
    <2>2. /\ request[k].client = Bot
          /\ \/ \E p \in DOMAIN prompts: prompts[p].call = k /\ prompts[p].shows = "buttons"
             \/ \E j \in DOMAIN taps: Asked(j) = k /\ (taps[j].at = "asking" \/ taps[j].told = "lost")
             \/ k \in unsent
      BY DEF AskedIsAnswerable, Asked
    <2>3. CASE k = Asked(i)
      BY <1>3, <1>8, <2>1, <2>2, <2>3
    <2>4. CASE k # Asked(i)
      <3>1. ASSUME NEW p \in DOMAIN prompts, prompts[p].call = k, prompts[p].shows = "buttons"
            PROVE  prompts'[p].call = k /\ prompts'[p].shows = "buttons"
        BY <1>5, <2>4, <3>1 DEF Asked
      <3>2. ASSUME NEW j \in DOMAIN taps, Asked(j) = k, taps[j].at = "asking" \/ taps[j].told = "lost"
            PROVE  Asked(j)' = k /\ (taps'[j].at = "asking" \/ taps'[j].told = "lost")
        BY <1>3, <1>8, <2>4, <3>2
      <3> QED
        BY <2>2, <3>1, <3>2
    <2> QED
      BY <2>3, <2>4
  <1> QED
    BY <1>6, <1>7, <1>9, <1>10, <1>11

(* A restart of the bot forgets what it was doing; the chat stays. *)
LEMMA RestartPart ==
  ASSUME BotInv, BotRestart
  PROVE  BotTyped' /\ BotKnows' /\ TapsAreTrue' /\ ShownIsDecided' /\ AskedIsAnswerable'
PROOF
  <1> USE DEF BotInv
  <1>1. /\ UNCHANGED <<vars, prompts, unsent>> /\ surfaced' = {} /\ queue' = {}
        /\ taps' = [i \in DOMAIN taps |-> [taps[i] EXCEPT !.at = "done"]]
        /\ lapses' = lapses + 1 /\ faults' = faults + 1
    BY DEF BotRestart, Fails
  <1>2. taps \in Seq(Taps) /\ Len(taps) \in Nat
    BY DEF BotTyped
  <1>3. \A i \in DOMAIN taps: [taps[i] EXCEPT !.at = "done"] \in Taps
    <2>1. \A i \in DOMAIN taps: taps[i] \in Taps
      BY <1>2
    <2> QED
      BY <2>1 DEF Taps
  <1>4. /\ DOMAIN taps' = DOMAIN taps
        /\ \A i \in DOMAIN taps: /\ taps'[i].prompt = taps[i].prompt
                                 /\ taps'[i].decision = taps[i].decision
                                 /\ taps'[i].told = taps[i].told
                                 /\ taps'[i].at = "done"
    <2>1. \A i \in DOMAIN taps: taps[i] \in Taps
      BY <1>2
    <2> QED
      BY <1>1, <2>1 DEF Taps
  <1>5. taps' \in Seq(Taps)
    <2>1. taps' \in [1..Len(taps) -> Taps]
      BY <1>1, <1>2, <1>3
    <2> QED
      BY <1>2, <2>1, SeqDef
  <1>6. BotTyped'
    BY <1>1, <1>4, <1>5 DEF BotTyped
  <1>7. BotKnows'
    BY <1>1 DEF BotKnows, Known, vars
  <1>8. TapsAreTrue'
    BY <1>1, <1>4 DEF TapsAreTrue, Asked, vars
  <1>9. ShownIsDecided'
    BY <1>1 DEF ShownIsDecided, vars
  <1>10. AskedIsAnswerable'
    BY <1>1 DEF AskedIsAnswerable
  <1> QED
    BY <1>6, <1>7, <1>8, <1>9, <1>10

(* Nothing happens. *)
LEMMA IdlePart ==
  ASSUME BotInv, UNCHANGED allVars
  PROVE  BotTyped' /\ BotKnows' /\ TapsAreTrue' /\ ShownIsDecided' /\ AskedIsAnswerable'
PROOF
  <1> USE DEF BotInv
  <1>1. UNCHANGED vars /\ UNCHANGED <<surfaced, queue, prompts, taps, unsent, lapses, faults>>
    BY DEF allVars, bot
  <1>2. BotTyped' /\ BotKnows' /\ TapsAreTrue'
    BY <1>1 DEF BotTyped, BotKnows, Known, TapsAreTrue, Asked, vars
  <1>3. ShownIsDecided' /\ AskedIsAnswerable'
    BY <1>1 DEF ShownIsDecided, AskedIsAnswerable, vars
  <1> QED
    BY <1>2, <1>3

(* Every step of bot and gateway preserves the invariant. *)
LEMMA BotInvStep == ASSUME BotInv, [GatewayStep \/ BotStep]_allVars PROVE BotInv'
PROOF
  <1>1. IInv'
    <2>1. [Next]_vars
      BY GatewaySimulates DEF BotInv
    <2> QED
      BY <2>1, InvStep DEF BotInv
  <1>2. BotTyped' /\ BotKnows' /\ TapsAreTrue' /\ ShownIsDecided' /\ AskedIsAnswerable'
    <2>1. CASE GatewayStep
      BY <2>1, GatewayPart
    <2>2. CASE Poll \/ PollFails
      BY <2>2, PollPart
    <2>3. CASE \E k \in queue: Prompt(k)
      BY <2>3, PromptPart
    <2>4. CASE \E p \in 1..MaxPrompts, d \in Decisions: Tap(p, d)
      BY <2>4, TapPart
    <2>5. CASE \E i \in DOMAIN taps: TapDecides(i) \/ TapTooLate(i) \/ TapLost(i)
      BY <1>1, <2>5, ToldPart
    <2>6. CASE \E i \in DOMAIN taps: Show(i)
      BY <2>6, ShowPart
    <2>7. CASE BotRestart
      BY <2>7, RestartPart
    <2>8. CASE UNCHANGED allVars
      BY <2>8, IdlePart
    <2> QED
      BY <2>1, <2>2, <2>3, <2>4, <2>5, <2>6, <2>7, <2>8 DEF BotStep
  <1> QED
    BY <1>1, <1>2 DEF BotInv

(* The invariant holds in every state. *)
THEOREM BotInvariance == BotSpec => []BotInv
PROOF
  <1>1. BotInit => BotInv
    BY BotInitInv
  <1>2. BotInv /\ [GatewayStep \/ BotStep]_allVars => BotInv'
    BY BotInvStep
  <1> QED
    BY <1>1, <1>2, PTL DEF BotSpec

(* What a prompt shows as decided is what the gateway took from the bot for  *)
(* that call (_on_approval_callback, decide_approval), for any number of     *)
(* calls, prompts, taps, faults and restarts.                                *)
THEOREM ShownWasDecided == BotSpec => []ShownIsDecided
  BY BotInvariance, PTL DEF BotInv

(* What the poller has marked as asked can be answered, unless Telegram      *)
(* refused the prompt or the tap was lost (ApprovalPoller._tick).            *)
THEOREM AskedStaysAnswerable == BotSpec => []AskedIsAnswerable
  BY BotInvariance, PTL DEF BotInv

(* The gateway behind the bot is the approval middleware of module Approval: *)
(* its initial state, and no step that is not one of the middleware's.       *)
THEOREM GatewayRefined == BotSpec => Init /\ [][Next]_vars
PROOF
  <1>1. BotInit => Init
    BY DEF BotInit
  <1>2. BotInv /\ [GatewayStep \/ BotStep]_allVars => [Next]_vars
    BY GatewaySimulates DEF BotInv
  <1> QED
    BY <1>1, <1>2, BotInvariance, PTL DEF BotSpec
-----------------------------------------------------------------------------
(* Second prompts.                                                           *)

PromptsOf(k) == {p \in DOMAIN prompts: prompts[p].call = k}

(* A call the poller will still post, or may still find listed and unmarked, *)
(* has no more prompts than there were lapses.                               *)
RepeatsOwed ==
  /\ queue \intersect surfaced = {}
  /\ \A k \in Calls: k \in (queue \union pending) \ surfaced =>
       Cardinality(PromptsOf(k)) <= lapses

RepeatsInv == BotInv /\ RepeatsOwed /\ RepeatsExplained

(* The prompts of a call are finitely many, none before it is known. *)
LEMMA PromptsFinite ==
  ASSUME BotTyped, NEW k
  PROVE  IsFiniteSet(PromptsOf(k)) /\ Cardinality(PromptsOf(k)) \in Nat
PROOF
  <1>1. Len(prompts) \in Nat /\ DOMAIN prompts = 1..Len(prompts)
    BY DEF BotTyped
  <1>2. IsFiniteSet(1..Len(prompts))
    BY <1>1, FS_Interval
  <1>3. PromptsOf(k) \in SUBSET (1..Len(prompts))
    BY <1>1 DEF PromptsOf
  <1>4. IsFiniteSet(PromptsOf(k))
    BY <1>2, <1>3, FS_Subset
  <1> QED
    BY <1>4, FS_CardinalityType

(* Initially there is no prompt. *)
LEMMA RepeatsInit == BotInit => RepeatsOwed /\ RepeatsExplained
PROOF
  <1> SUFFICES ASSUME BotInit PROVE RepeatsOwed /\ RepeatsExplained
    OBVIOUS
  <1>1. queue = {} /\ pending = {} /\ prompts = <<>> /\ lapses = 0
    BY DEF BotInit, Init
  <1>2. \A k \in Calls: {p \in DOMAIN prompts: prompts[p].call = k} = {}
    BY <1>1
  <1>3. RepeatsExplained
    BY <1>1, <1>2, FS_EmptySet DEF RepeatsExplained
  <1> QED
    BY <1>1, <1>3 DEF RepeatsOwed

(* Steps that post nothing and lose no mark of a listed call. *)
LEMMA RepeatsQuiet ==
  ASSUME RepeatsInv, BotInv', UNCHANGED <<queue, prompts, surfaced, lapses>>,
         \A k \in Calls: phase[k] # "idle" /\ k \in pending' => k \in pending
  PROVE  RepeatsOwed' /\ RepeatsExplained'
PROOF
  <1> USE DEF RepeatsInv
  <1>1. \A k \in Calls: PromptsOf(k)' = PromptsOf(k)
    BY DEF PromptsOf
  <1>2. RepeatsExplained'
    BY DEF RepeatsExplained
  <1>3. ASSUME NEW k \in Calls, k \in (queue \union pending') \ surfaced
        PROVE  Cardinality(PromptsOf(k)) <= lapses
    <2>1. CASE phase[k] # "idle" \/ k \in queue
      BY <1>3, <2>1 DEF RepeatsOwed
    <2>2. CASE phase[k] = "idle"
      <3>1. PromptsOf(k) = {}
        BY <2>2 DEF PromptsOf, BotInv, BotKnows, Known
      <3> QED
        BY <3>1, FS_EmptySet DEF BotInv, BotTyped
    <2> QED
      BY <2>1, <2>2
  <1>4. RepeatsOwed'
    BY <1>1, <1>3 DEF RepeatsOwed
  <1> QED
    BY <1>2, <1>4

(* A poll that worked, one that failed, and a restart of the bot. *)
LEMMA RepeatsPoll ==
  ASSUME RepeatsInv, Poll \/ PollFails \/ BotRestart
  PROVE  RepeatsOwed' /\ RepeatsExplained'
PROOF
  <1> USE DEF RepeatsInv
  <1>1. UNCHANGED <<vars, prompts>>
    BY DEF Poll, PollFails, BotRestart
  <1>2. \A k \in Calls: /\ PromptsOf(k)' = PromptsOf(k)
                        /\ Cardinality(PromptsOf(k)) \in Nat
                        /\ Cardinality(PromptsOf(k)) <= 1 + lapses
    BY <1>1, PromptsFinite DEF PromptsOf, BotInv, RepeatsExplained
  <1>3. lapses \in Nat /\ lapses' \in {lapses, lapses + 1}
    BY DEF Poll, PollFails, BotRestart, BotInv, BotTyped
  <1>4. RepeatsExplained'
    <2>1. \A k \in Calls: Cardinality(PromptsOf(k)) <= 1 + lapses'
      BY <1>2, <1>3
    <2> QED
      BY <1>1, <2>1 DEF RepeatsExplained, PromptsOf
  <1>5. CASE Poll
    <2>1. /\ queue' = Pending(Bot) \ surfaced /\ lapses' = lapses
          /\ surfaced' = surfaced \intersect Pending(Bot)
      BY <1>5 DEF Poll
    <2>2. \A k \in surfaced \intersect pending: k \in Pending(Bot)
      BY DEF Pending, BotInv, BotKnows, Known
    <2>3. \A k \in Calls: k \in (queue' \union pending) \ surfaced' => k \in pending \ surfaced
      BY <2>1, <2>2 DEF Pending
    <2> QED
      BY <1>1, <1>2, <1>4, <2>1, <2>3 DEF RepeatsOwed, vars
  <1>6. CASE PollFails \/ BotRestart
    <2>1. lapses' = lapses + 1 /\ surfaced' = {}
      BY <1>6 DEF PollFails, BotRestart
    <2> QED
      BY <1>2, <1>3, <1>4, <2>1 DEF RepeatsOwed
  <1> QED
    BY <1>5, <1>6

(* A prompt: only the call that is posted gets one more. *)
LEMMA RepeatsPrompt ==
  ASSUME RepeatsInv, NEW k \in queue, Prompt(k)
  PROVE  RepeatsOwed' /\ RepeatsExplained'
PROOF
  <1> USE DEF RepeatsInv
  <1>1. /\ queue' = queue \ {k} /\ surfaced' = surfaced \union {k}
        /\ k \in Calls /\ lapses' = lapses /\ lapses \in Nat /\ pending' = pending
    BY DEF Prompt, BotInv, BotTyped, vars
  <1>2. Cardinality(PromptsOf(k)) <= lapses /\ \A j \in Calls: Cardinality(PromptsOf(j)) \in Nat
    BY <1>1, PromptsFinite DEF RepeatsOwed, BotInv
  <1> DEFINE After(j) == {p \in DOMAIN prompts': prompts'[p].call = j}
  <1>3. /\ \A j \in Calls: j # k => After(j) = PromptsOf(j)
        /\ \/ After(k) = PromptsOf(k)
           \/ After(k) = PromptsOf(k) \union {Len(prompts) + 1}
    <2>1. CASE UNCHANGED prompts
      BY <2>1 DEF PromptsOf
    <2>2. CASE prompts' = Append(prompts, [call |-> k, shows |-> "buttons"])
      <3>1. /\ DOMAIN prompts' = DOMAIN prompts \union {Len(prompts) + 1}
            /\ \A p \in DOMAIN prompts: prompts'[p] = prompts[p]
            /\ prompts'[Len(prompts) + 1] = [call |-> k, shows |-> "buttons"]
        BY <1>1, <2>2, PromptAppended DEF BotInv
      <3> QED
        BY <3>1 DEF PromptsOf
    <2> QED
      BY <2>1, <2>2 DEF Prompt
  <1>4. \A j \in Calls: PromptsOf(j)' = After(j)
    BY DEF PromptsOf
  <1> HIDE DEF After
  <1>5. Cardinality(After(k)) <= 1 + lapses
    <2>1. IsFiniteSet(PromptsOf(k)) /\ Cardinality(PromptsOf(k)) \in Nat
      BY <1>1, PromptsFinite DEF BotInv
    <2>2. Cardinality(PromptsOf(k) \union {Len(prompts) + 1}) =
            IF Len(prompts) + 1 \in PromptsOf(k) THEN Cardinality(PromptsOf(k))
            ELSE Cardinality(PromptsOf(k)) + 1
      BY <2>1, FS_AddElement
    <2>3. Cardinality(PromptsOf(k) \union {Len(prompts) + 1}) <= 1 + lapses
      BY <1>1, <1>2, <2>1, <2>2
    <2>4. Cardinality(PromptsOf(k)) <= 1 + lapses
      BY <1>1, <1>2, <2>1
    <2> QED
      BY <1>3, <2>3, <2>4
  <1>6. \A j \in Calls: Cardinality(After(j)) <= 1 + lapses
    BY <1>3, <1>5 DEF RepeatsExplained, PromptsOf
  <1>7. RepeatsExplained'
    BY <1>1, <1>6 DEF RepeatsExplained, After
  <1>8. RepeatsOwed'
    BY <1>1, <1>3, <1>4 DEF RepeatsOwed
  <1> QED
    BY <1>7, <1>8

(* An outcome replaces buttons, not the call a prompt is about. *)
LEMMA ShownCalls ==
  ASSUME BotTyped, NEW i \in DOMAIN taps, Show(i)
  PROVE  /\ DOMAIN prompts' = DOMAIN prompts
         /\ \A p \in DOMAIN prompts: prompts'[p].call = prompts[p].call
PROOF
  <1>1. \A p \in DOMAIN prompts: prompts[p] \in Prompts
    BY DEF BotTyped
  <1> QED
    BY <1>1 DEF Show, Prompts

(* A call is asked twice only after a lapse: re-polling a still-pending      *)
(* approval does not re-post it (ApprovalPoller's _surfaced), except once    *)
(* for each poll that failed and each restart of the bot.                    *)
THEOREM RepeatsNeedLapses == BotSpec => []RepeatsExplained
PROOF
  <1>1. BotInit => RepeatsInv
    BY BotInitInv, RepeatsInit DEF RepeatsInv
  <1>2. ASSUME RepeatsInv, [GatewayStep \/ BotStep]_allVars PROVE RepeatsInv'
    <2>1. BotInv'
      BY <1>2, BotInvStep DEF RepeatsInv
    <2>2. CASE GatewayStep
      <3>1. /\ UNCHANGED <<queue, prompts, surfaced, lapses>>
            /\ \A k \in Calls: phase[k] # "idle" /\ k \in pending' => k \in pending
        BY <1>2, <2>2, GatewayKeeps DEF RepeatsInv, BotInv, bot
      <3> QED
        BY <1>2, <2>1, <3>1, RepeatsQuiet DEF RepeatsInv
    <2>3. CASE Poll \/ PollFails \/ BotRestart
      BY <1>2, <2>1, <2>3, RepeatsPoll DEF RepeatsInv
    <2>4. CASE \E k \in queue: Prompt(k)
      BY <1>2, <2>1, <2>4, RepeatsPrompt DEF RepeatsInv
    <2>5. CASE \/ \E p \in 1..MaxPrompts, d \in Decisions: Tap(p, d)
               \/ \E i \in DOMAIN taps: TapDecides(i) \/ TapTooLate(i) \/ TapLost(i)
               \/ UNCHANGED allVars
      <3>1. UNCHANGED <<queue, prompts, surfaced, lapses>> /\ pending' \subseteq pending
        BY <2>5 DEF Tap, TapDecides, TapTooLate, TapLost, Decide, allVars, vars, bot
      <3> QED
        BY <1>2, <2>1, <3>1, RepeatsQuiet DEF RepeatsInv
    <2>6. ASSUME NEW i \in DOMAIN taps, Show(i) PROVE RepeatsOwed' /\ RepeatsExplained'
      <3>1. UNCHANGED <<queue, surfaced, lapses, pending>>
        BY <2>6 DEF Show, vars
      <3>2. /\ DOMAIN prompts' = DOMAIN prompts
            /\ \A p \in DOMAIN prompts: prompts'[p].call = prompts[p].call
        BY <1>2, <2>6, ShownCalls DEF RepeatsInv, BotInv
      <3>3. \A k \in Calls: PromptsOf(k)' = PromptsOf(k)
        BY <3>2 DEF PromptsOf
      <3> QED
        BY <1>2, <3>1, <3>3 DEF RepeatsInv, RepeatsOwed, RepeatsExplained, PromptsOf
    <2> QED
      BY <1>2, <2>1, <2>2, <2>3, <2>4, <2>5, <2>6 DEF RepeatsInv, BotStep
  <1> QED
    BY <1>1, <1>2, PTL DEF BotSpec, RepeatsInv
=============================================================================
