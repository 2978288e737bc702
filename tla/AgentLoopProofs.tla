-------------------------- MODULE AgentLoopProofs --------------------------
(* What a chat turn with tools promises for every set of tool calls, batch   *)
(* size and iteration budget, a chat request of either path for every chain  *)
(* of candidates and timeout as well, and an orchestrated turn for every     *)
(* pass budget, recovery cap and threshold.                                  *)
EXTENDS ChatCompletions, Orchestrator, TLAPS

(* Tool messages are owed exactly for the calls still queued, and the model *)
(* is asked only with nothing queued and budget left.                       *)
OwedIsQueued == unanswered = Len(queue)
DispatchIsClean == at = "dispatch" => queue = <<>> /\ iterations < budget

(* With the brake on, a callable that succeeded is remembered. *)
SuccessIsRemembered ==
  LoopBrake => \A s \in Sigs: effects[s] <= 1 /\ (effects[s] = 1 => s \in succeeded)

LoopShape == LoopTypeOK /\ OwedIsQueued /\ DispatchIsClean
LoopInv == LoopShape /\ SuccessIsRemembered

(* A fresh run of the loop owes the model nothing. *)
LEMMA LoopInit == ASSUME NEW n \in Nat \ {0}, InitLoop(n) PROVE LoopInv
  BY AgentLoopAssumption DEF InitLoop, LoopInv, LoopShape, LoopTypeOK, OwedIsQueued,
     DispatchIsClean, SuccessIsRemembered, Texts

(* So does one that a caller starts after another. *)
LEMMA LoopStart ==
  ASSUME LoopShape, NEW n \in Nat \ {0}, StartLoop(n)
  PROVE  LoopShape'
  BY AgentLoopAssumption DEF StartLoop, LoopShape, LoopTypeOK, OwedIsQueued, DispatchIsClean, Texts

(* The loop's own step keeps its shape. *)
LEMMA LoopShapeStep == ASSUME LoopShape, LoopStep PROVE LoopShape'
PROOF
  <1> USE AgentLoopAssumption DEF LoopShape, LoopTypeOK, OwedIsQueued, DispatchIsClean
  <1>1. CASE DispatchFails
    <2>1. LoopTypeOK'
      BY <1>1 DEF DispatchFails, End, Statuses
    <2>2. OwedIsQueued' /\ DispatchIsClean'
      BY <1>1 DEF DispatchFails, End
    <2> QED
      BY <2>1, <2>2
  <1>2. CASE FinalReply
    <2>1. LoopTypeOK'
      BY <1>2 DEF FinalReply, End, Statuses
    <2>2. OwedIsQueued' /\ DispatchIsClean'
      BY <1>2 DEF FinalReply, End
    <2> QED
      BY <2>1, <2>2
  <1>3. CASE ReplyWithCalls
    <2> PICK batch \in Batches: queue' = batch /\ unanswered' = unanswered + Len(batch)
      BY <1>3 DEF ReplyWithCalls
    <2>1. batch \in Seq(Sigs) /\ Len(batch) \in Nat
      BY DEF Batches
    <2>2. unanswered = 0
      BY <1>3 DEF ReplyWithCalls
    <2>3. LoopTypeOK'
      BY <1>3, <2>1, <2>2 DEF ReplyWithCalls
    <2>4. OwedIsQueued' /\ DispatchIsClean'
      BY <1>3, <2>1, <2>2 DEF ReplyWithCalls
    <2> QED
      BY <2>3, <2>4
  <1>4. CASE SuppressCall
    <2>1. queue \in Seq(Sigs) /\ queue # <<>> /\ queue' = Tail(queue)
      BY <1>4 DEF SuppressCall
    <2>2. queue' \in Seq(Sigs) /\ Len(queue') = Len(queue) - 1 /\ Len(queue) \in Nat \ {0}
      BY <2>1
    <2>3. LoopTypeOK'
      BY <1>4, <2>2 DEF SuppressCall
    <2>4. OwedIsQueued' /\ DispatchIsClean'
      BY <1>4, <2>2 DEF SuppressCall
    <2> QED
      BY <2>3, <2>4
  <1>5. ASSUME NEW o \in Outcomes, RunCall(o) PROVE LoopShape'
    <2>1. queue \in Seq(Sigs) /\ queue # <<>> /\ queue' = Tail(queue)
      BY <1>5 DEF RunCall
    <2>2. /\ queue' \in Seq(Sigs) /\ Len(queue') = Len(queue) - 1
          /\ Len(queue) \in Nat \ {0} /\ Head(queue) \in Sigs
      BY <2>1
    <2> DEFINE sig == Head(queue)
    <2>3. /\ record' = Append(record, [sig |-> sig, ok |-> o = "ok"])
          /\ succeeded' = IF o = "ok" THEN succeeded \union {sig} ELSE succeeded
          /\ effects' = IF o = "ok" /\ effects[sig] < EffectCap
                        THEN [effects EXCEPT ![sig] = @ + 1] ELSE effects
          /\ unanswered' = unanswered - 1
          /\ UNCHANGED <<at, budget, iterations, repeated, text, status>>
          /\ ~(LoopBrake /\ sig \in succeeded)
      BY <1>5 DEF RunCall
    <2>4. record' \in Seq([sig: Sigs, ok: BOOLEAN])
      BY <2>2, <2>3
    <2>5. effects' \in [Sigs -> 0..EffectCap]
      BY <2>2, <2>3
    <2>6. LoopTypeOK'
      BY <2>2, <2>3, <2>4, <2>5
    <2>7. OwedIsQueued' /\ DispatchIsClean'
      BY <1>5, <2>2, <2>3 DEF RunCall
    <2> QED
      BY <2>6, <2>7
  <1>6. CASE EndBatch
    <2>1. LoopTypeOK'
      BY <1>6 DEF EndBatch, End, Statuses
    <2>2. OwedIsQueued' /\ DispatchIsClean'
      BY <1>6 DEF EndBatch, End
    <2> QED
      BY <2>1, <2>2
  <1> QED
    BY <1>1, <1>2, <1>3, <1>4, <1>5, <1>6 DEF LoopStep

(* With the brake on, it remembers every success. *)
LEMMA LoopInvStep == ASSUME LoopInv, LoopStep PROVE LoopInv'
PROOF
  <1> USE AgentLoopAssumption DEF LoopInv, LoopShape, LoopTypeOK
  <1>1. LoopShape'
    BY LoopShapeStep
  <1>2. CASE UNCHANGED <<succeeded, effects>>
    BY <1>1, <1>2 DEF SuccessIsRemembered
  <1>3. ASSUME NEW o \in Outcomes, RunCall(o) PROVE SuccessIsRemembered'
    <2>1. Head(queue) \in Sigs
      BY <1>3 DEF RunCall
    <2> DEFINE sig == Head(queue)
    <2>2. /\ succeeded' = IF o = "ok" THEN succeeded \union {sig} ELSE succeeded
          /\ effects' = IF o = "ok" /\ effects[sig] < EffectCap
                        THEN [effects EXCEPT ![sig] = @ + 1] ELSE effects
          /\ ~(LoopBrake /\ sig \in succeeded)
      BY <1>3 DEF RunCall
    <2> QED
      BY <2>1, <2>2 DEF SuccessIsRemembered
  <1> QED
    BY <1>1, <1>2, <1>3 DEF LoopStep, DispatchFails, FinalReply, ReplyWithCalls, SuppressCall,
       EndBatch

(* Where the handler and the worker are, and what has been sent, remembered  *)
(* and swallowed by then.                                                    *)
Progress ==
  /\ http = "open" =>
       worker = "none" /\ late = <<>> /\ memory = <<>> /\ finished = 0 /\ swallowed = {}
  /\ http \in {"kept", "reply", "error"} =>
       /\ worker = "none" /\ late = <<>> /\ at = "ended" /\ "event" \notin swallowed
       /\ http \in {"kept", "reply"} <=> status \in Replies
  /\ http = "kept" /\ asks /\ MemoryOn /\ text # "empty" =>
       memory # <<>> \/ "memory" \in swallowed
  /\ http = "placeholder" => worker # "none"
  /\ worker = "waiting" => late = <<>> /\ memory = <<>> /\ swallowed = {}
  /\ worker = "told" => memory = <<>>
  /\ worker \in {"told", "done"} =>
       at = "ended" /\ (late = <<>> => "event" \in swallowed)
  /\ late # <<>> => worker \in {"told", "done"} /\ Last(late).text = AssistantText

TurnInv == LoopInv /\ TypeOK /\ Progress /\ MemoryMatchesDelivery /\ FinishFooter

(* A sequence that was empty and grew by one holds what was appended. *)
LEMMA AppendToEmpty ==
  ASSUME NEW S, NEW e \in S, NEW s, s = Append(<<>>, e)
  PROVE  s \in Seq(S) /\ s # <<>> /\ Len(s) = 1 /\ Last(s) = e
  BY DEF Last

Turns  == [calls: Seq([sig: Sigs, ok: BOOLEAN]), text: Texts]
Events == [kind: {"late_tool_result", "late_tool_rejected"}, text: Texts]

(* A request that has just arrived satisfies the invariant. *)
LEMMA TurnInit == Init => TurnInv
PROOF
  <1> SUFFICES ASSUME Init PROVE TurnInv
    OBVIOUS
  <1>1. LoopInv
    BY LoopInit, TurnAssumption DEF Init
  <1>2. /\ late = <<>> /\ memory = <<>> /\ http = "open" /\ worker = "none" /\ finished = 0
        /\ swallowed = {}
    BY DEF Init
  <1>3. TypeOK
    BY <1>1, <1>2 DEF Init, TypeOK, LoopInv, LoopShape
  <1>4. Delivered = "none" /\ Len(memory) = 0
    BY <1>2 DEF Delivered
  <1> QED
    BY <1>1, <1>2, <1>3, <1>4 DEF TurnInv, Progress, MemoryMatchesDelivery, FinishFooter

(* What the turn's result holds, once there is one. *)
LEMMA ResultFacts ==
  ASSUME TypeOK
  PROVE  /\ Turn \in Turns
         /\ status \in {"ok", "tool_loop_repeated"} =>
              Turn.calls = record /\ Turn.text = text /\ AssistantText = text
  BY DEF TypeOK, LoopTypeOK, Turn, Turns, ResultCalls, AssistantText, Texts

(* One append to a memory that has nothing of this request yet. *)
LEMMA Remembered ==
  ASSUME TypeOK, memory = <<>>, NEW t \in Turns, NEW b \in BOOLEAN,
         IF b THEN Remembers(t) ELSE UNCHANGED <<memory, swallowed>>
  PROVE  /\ memory' \in Seq(Turns) /\ Len(memory') <= 1
         /\ memory' # <<>> => b /\ Last(memory') = t
         /\ swallowed' \subseteq swallowed \union {"memory"} /\ swallowed \subseteq swallowed'
         /\ b /\ MemoryOn => memory' # <<>> \/ "memory" \in swallowed'
PROOF
  <1>1. Append(<<>>, t) \in Seq(Turns) /\ Append(<<>>, t) # <<>> /\ Len(Append(<<>>, t)) = 1
        /\ Last(Append(<<>>, t)) = t
    BY AppendToEmpty
  <1>2. <<>> \in Seq(Turns) /\ Len(<<>>) = 0
    BY DEF Turns
  <1>3. CASE b /\ MemoryOn /\ memory' = Append(<<>>, t) /\ UNCHANGED swallowed
    BY <1>1, <1>3
  <1>4. CASE b /\ ~MemoryOn /\ UNCHANGED <<memory, swallowed>>
    BY <1>2, <1>4
  <1>5. CASE b /\ swallowed' = swallowed \union {"memory"} /\ UNCHANGED memory
    BY <1>2, <1>5
  <1>6. CASE ~b /\ UNCHANGED <<memory, swallowed>>
    BY <1>2, <1>6
  <1> QED
    BY <1>3, <1>4, <1>5, <1>6 DEF Remembers

(* The loop works on without touching what was delivered or remembered. *)
LEMMA LoopRunsStep == ASSUME TurnInv, LoopRuns PROVE TurnInv'
PROOF
  <1> USE DEF TurnInv
  <1>1. LoopInv'
    BY LoopInvStep DEF LoopRuns
  <1>2. at # "ended"
    BY DEF LoopRuns, LoopStep, DispatchFails, FinalReply, ReplyWithCalls, SuppressCall,
           RunCall, EndBatch
  <1>3. /\ UNCHANGED <<asks, http, worker, late, memory, swallowed, finished, up>>
        /\ lastTool' \in {"none", "refused", "other"}
    BY DEF LoopRuns, TypeOK
  <1>4. TypeOK'
    BY <1>1, <1>3 DEF TypeOK, LoopInv, LoopShape
  <1>5. /\ http \in {"open", "placeholder"} /\ worker \in {"none", "waiting"}
        /\ late = <<>> /\ memory = <<>>
    BY <1>2 DEF Progress, TypeOK
  <1>6. Delivered' = "none" /\ Len(memory) = 0
    BY <1>3, <1>5 DEF Delivered
  <1>7. Progress' /\ MemoryMatchesDelivery' /\ FinishFooter'
    BY <1>2, <1>3, <1>5, <1>6 DEF Progress, MemoryMatchesDelivery, FinishFooter
  <1> QED
    BY <1>1, <1>4, <1>7

(* The handler remembers the ended run before it answers. *)
LEMMA KeepTurnStep == ASSUME TurnInv, KeepTurn PROVE TurnInv'
PROOF
  <1> USE DEF TurnInv
  <1>1. /\ http = "open" /\ at = "ended" /\ late = <<>> /\ memory = <<>> /\ finished = 0
        /\ swallowed = {} /\ status \in Replies /\ worker = "none"
        /\ UNCHANGED <<loopVars, asks, worker, lastTool, late, up>>
        /\ http' = "kept" /\ finished' = 1
    BY DEF KeepTurn, Progress
  <1>2. UNCHANGED <<at, record, status, text, AssistantText>>
    BY <1>1 DEF loopVars, AssistantText
  <1>3. LoopInv'
    BY <1>1 DEF loopVars, LoopInv, LoopShape, LoopTypeOK, OwedIsQueued, DispatchIsClean, SuccessIsRemembered
  <1>4. Turn \in Turns /\ Turn.calls = record /\ Turn.text = text /\ AssistantText = text
    BY <1>1, ResultFacts DEF Replies
  <1>5. /\ memory' \in Seq(Turns) /\ Len(memory') <= 1
        /\ memory' # <<>> => Last(memory') = Turn
        /\ swallowed' \subseteq {"memory"}
        /\ asks /\ AssistantText # "empty" /\ MemoryOn => memory' # <<>> \/ "memory" \in swallowed'
    <2>1. (asks /\ AssistantText # "empty") \in BOOLEAN
      BY DEF TypeOK
    <2> QED
      BY <1>1, <1>4, <2>1, Remembered DEF KeepTurn
  <1>6. TypeOK'
    BY <1>1, <1>3, <1>5 DEF TypeOK, LoopInv, LoopShape, Turns
  <1>7. Progress' /\ FinishFooter'
    BY <1>1, <1>2, <1>4, <1>5 DEF Progress, FinishFooter
  <1>8. MemoryMatchesDelivery'
    BY <1>1, <1>2, <1>4, <1>5 DEF MemoryMatchesDelivery
  <1> QED
    BY <1>3, <1>6, <1>7, <1>8

(* What is left of the answer: the reply goes out, or there is none. *)
LEMMA AnswerStep == ASSUME TurnInv, SendReply \/ AnswerFailure PROVE TurnInv'
PROOF
  <1> USE DEF TurnInv
  <1>1. /\ UNCHANGED <<loopVars, asks, worker, lastTool, late, memory, swallowed, up>>
        /\ \/ http = "kept" /\ http' = "reply" /\ UNCHANGED finished
           \/ /\ http = "open" /\ http' = "error" /\ at = "ended" /\ status \notin Replies
              /\ finished' = IF status = "raised" THEN finished ELSE finished + 1
    BY DEF SendReply, AnswerFailure
  <1>2. UNCHANGED <<at, record, status, text, AssistantText>>
    BY <1>1 DEF loopVars, AssistantText
  <1>3. LoopInv'
    BY <1>1 DEF loopVars, LoopInv, LoopShape, LoopTypeOK, OwedIsQueued, DispatchIsClean, SuccessIsRemembered
  <1>4. TypeOK'
    BY <1>1, <1>3 DEF TypeOK, LoopInv, LoopShape
  <1>5. Progress' /\ FinishFooter'
    BY <1>1, <1>2 DEF Progress, FinishFooter
  <1>6. CASE http = "kept"
    <2>1. late = <<>> /\ worker = "none" /\ status \in Replies
      BY <1>6 DEF Progress
    <2>2. text # "empty" /\ asks /\ MemoryOn /\ status = "ok" =>
            memory # <<>> \/ "memory" \in swallowed
      BY <1>6 DEF Progress
    <2> QED
      BY <1>1, <1>2, <1>6, <2>1, <2>2, <1>3, <1>4, <1>5 DEF MemoryMatchesDelivery
  <1>7. CASE http # "kept"
    <2>1. memory = <<>> /\ status # "ok" /\ Len(memory) = 0
      BY <1>1, <1>7 DEF Progress, Replies
    <2> QED
      BY <1>1, <1>2, <2>1, <1>3, <1>4, <1>5 DEF MemoryMatchesDelivery
  <1> QED
    BY <1>6, <1>7

(* The background worker emits the late event. *)
LEMMA EmitLateStep == ASSUME TurnInv, EmitLate PROVE TurnInv'
PROOF
  <1> USE DEF TurnInv
  <1> DEFINE Event == [kind |-> LateKind, text |-> AssistantText]
  <1>1. /\ worker = "waiting" /\ at = "ended" /\ late = <<>> /\ memory = <<>> /\ swallowed = {}
        /\ worker' = IF status = "raised" THEN "done" ELSE "told"
        /\ \/ late' = Append(<<>>, Event) /\ UNCHANGED swallowed
           \/ swallowed' = {"event"} /\ UNCHANGED late
        /\ UNCHANGED <<loopVars, asks, http, lastTool, memory, finished, up>>
        /\ http = "placeholder"
    BY DEF EmitLate, Progress, TypeOK
  <1>2. UNCHANGED <<at, record, status, text, AssistantText>>
    BY <1>1 DEF loopVars, AssistantText
  <1>3. LoopInv'
    BY <1>1 DEF loopVars, LoopInv, LoopShape, LoopTypeOK, OwedIsQueued, DispatchIsClean, SuccessIsRemembered
  <1>4. Event \in Events /\ Event.text = AssistantText
    BY DEF LateKind, AssistantText, TypeOK, LoopTypeOK, Texts, Events
  <1>5. /\ late' \in Seq(Events)
        /\ late' # <<>> => Last(late').text = AssistantText
        /\ late' = <<>> => "event" \in swallowed'
        /\ swallowed' \subseteq {"event"}
    <2>1. CASE late' = Append(<<>>, Event) /\ UNCHANGED swallowed
      <3> HIDE DEF Event
      <3>1. late' \in Seq(Events) /\ late' # <<>> /\ Last(late') = Event
        BY <1>4, <2>1, AppendToEmpty
      <3> QED
        BY <1>1, <1>4, <2>1, <3>1
    <2>2. CASE swallowed' = {"event"} /\ UNCHANGED late
      BY <1>1, <2>2 DEF TypeOK, Events
    <2> QED
      BY <1>1, <2>1, <2>2
  <1>6. TypeOK'
    BY <1>1, <1>3, <1>5 DEF TypeOK, LoopInv, LoopShape, Events
  <1>7. Progress' /\ FinishFooter'
    BY <1>1, <1>2, <1>5 DEF Progress, FinishFooter
  <1>8. MemoryMatchesDelivery'
    <2>1. Len(memory) = 0
      BY <1>1
    <2>2. status = "ok" => worker' = "told"
      BY <1>1
    <2> QED
      BY <1>1, <1>2, <2>1, <2>2 DEF MemoryMatchesDelivery
  <1> QED
    BY <1>3, <1>6, <1>7, <1>8

(* After its event the worker remembers the ended run. *)
LEMMA KeepLateStep == ASSUME TurnInv, KeepLate PROVE TurnInv'
PROOF
  <1> USE DEF TurnInv
  <1>1. /\ worker = "told" /\ worker' = "done" /\ memory = <<>> /\ at = "ended"
        /\ http = "placeholder" /\ (late = <<>> => "event" \in swallowed)
        /\ UNCHANGED <<loopVars, asks, http, lastTool, late, finished, up>>
    BY DEF KeepLate, Progress, TypeOK
  <1>2. UNCHANGED <<at, record, status, text, AssistantText>>
    BY <1>1 DEF loopVars, AssistantText
  <1>3. LoopInv'
    BY <1>1 DEF loopVars, LoopInv, LoopShape, LoopTypeOK, OwedIsQueued, DispatchIsClean, SuccessIsRemembered
  <1> DEFINE b == asks /\ AssistantText # "empty" /\ status = "ok"
  <1>4. /\ Turn \in Turns
        /\ status = "ok" => Turn.calls = record /\ Turn.text = AssistantText /\ AssistantText = text
    BY ResultFacts
  <1>5. /\ memory' \in Seq(Turns) /\ Len(memory') <= 1
        /\ memory' # <<>> => b /\ Last(memory') = Turn
        /\ swallowed' \subseteq swallowed \union {"memory"} /\ swallowed \subseteq swallowed'
        /\ b /\ MemoryOn => memory' # <<>> \/ "memory" \in swallowed'
    <2>1. b \in BOOLEAN
      BY DEF TypeOK
    <2>2. IF b THEN Remembers(Turn) ELSE UNCHANGED <<memory, swallowed>>
      BY DEF KeepLate
    <2> HIDE DEF b
    <2> QED
      BY <1>1, <1>4, <2>1, <2>2, Remembered
  <1>6. TypeOK'
    BY <1>1, <1>3, <1>5 DEF TypeOK, LoopInv, LoopShape, Turns
  <1>7. Progress' /\ FinishFooter'
    BY <1>1, <1>2, <1>5 DEF Progress, FinishFooter
  <1>8. late # <<>> => Last(late).text = AssistantText
    BY DEF Progress
  <1>9. MemoryMatchesDelivery'
    BY <1>1, <1>2, <1>4, <1>5, <1>8 DEF MemoryMatchesDelivery
  <1> QED
    BY <1>3, <1>6, <1>7, <1>9

(* Detaching and crashing deliver and remember nothing. *)
LEMMA OtherStep == ASSUME TurnInv, Detach \/ Crash \/ UNCHANGED vars PROVE TurnInv'
PROOF
  <1> USE DEF TurnInv
  <1>1. /\ UNCHANGED <<loopVars, asks, lastTool, late, memory, swallowed, finished>>
        /\ \/ UNCHANGED <<http, worker>>
           \/ http = "open" /\ http' = "placeholder" /\ worker' = "waiting"
        /\ up' \in BOOLEAN
    BY DEF Detach, Crash, vars, deliveryVars, TypeOK
  <1>2. LoopInv'
    BY <1>1 DEF loopVars, LoopInv, LoopShape, LoopTypeOK, OwedIsQueued, DispatchIsClean, SuccessIsRemembered
  <1>3. TypeOK'
    BY <1>1, <1>2 DEF TypeOK, LoopInv, LoopShape
  <1>4. UNCHANGED <<at, record, status, text, AssistantText>>
    BY <1>1 DEF loopVars, AssistantText
  <1>5. Progress' /\ FinishFooter'
    BY <1>1, <1>4 DEF Progress, FinishFooter
  <1>6. MemoryMatchesDelivery'
    <2>1. CASE UNCHANGED <<http, worker>>
      BY <2>1, <1>1, <1>4 DEF MemoryMatchesDelivery, Delivered, AssistantText
    <2>2. CASE http = "open" /\ http' = "placeholder" /\ worker' = "waiting"
      BY <2>2, <1>1 DEF MemoryMatchesDelivery, Delivered, Progress
    <2> QED
      BY <1>1, <2>1, <2>2
  <1> QED
    BY <1>2, <1>3, <1>5, <1>6

(* Every step keeps the invariant of the turn. *)
LEMMA TurnStep == ASSUME TurnInv, [Next]_vars PROVE TurnInv'
  BY LoopRunsStep, KeepTurnStep, AnswerStep, EmitLateStep, KeepLateStep, OtherStep
  DEF Next, AnswerNow, FinishDetached

(* Every reachable state satisfies the invariant of the turn. *)
THEOREM Invariance == Spec => []TurnInv
PROOF
  <1>1. Init => TurnInv
    BY TurnInit
  <1>2. TurnInv /\ [Next]_vars => TurnInv'
    BY TurnStep
  <1> QED
    BY <1>1, <1>2, PTL DEF Spec

(* The variables keep their types. *)
THEOREM TypeCorrect == Spec => []TypeOK
  BY Invariance, PTL DEF TurnInv

(* With the brake on, no tool call of a run succeeds twice (run_agent_loop),*)
(* whatever the model repeats and however long the run is.                  *)
THEOREM NoDuplicateEffect == Spec => []EffectOnce
PROOF
  <1>1. TurnInv => EffectOnce
    BY DEF TurnInv, LoopInv, LoopShape, SuccessIsRemembered, EffectOnce
  <1> QED
    BY <1>1, Invariance, PTL

(* The model is never asked while it is owed a tool message. *)
THEOREM ModelIsNeverOwed == Spec => []EveryCallAnswered
PROOF
  <1>1. TurnInv => EveryCallAnswered
    BY DEF TurnInv, LoopInv, LoopShape, OwedIsQueued, DispatchIsClean, EveryCallAnswered
  <1> QED
    BY <1>1, Invariance, PTL

(* Memory tells the next turn what the user was told, once and complete; it  *)
(* lacks a delivered ok turn only for a failed append, a request without a   *)
(* user message, a memory switched off or a worker that has not come to it.  *)
THEOREM MemoryIsTrue == Spec => []MemoryMatchesDelivery
  BY Invariance, PTL DEF TurnInv

(* A turn answered with a result recorded its turn_finished event once. *)
THEOREM FooterLands == Spec => []FinishFooter
  BY Invariance, PTL DEF TurnInv

(* Every step of the turn is a step of ReplyOnce or invisible to it. *)
LEMMA TurnStepMapped ==
  ASSUME TurnInv, TurnInv', [Next]_vars PROVE [Once!Next]_Once!vars
PROOF
  <1> USE DEF TurnInv, Progress
  <1>0. http # "gone" /\ http' # "gone"   \* no stream here
    BY DEF TypeOK
  <1>1. CASE LoopRuns \/ UNCHANGED vars
    BY <1>0, <1>1 DEF LoopRuns, vars, deliveryVars, Once!vars, Delivered
  <1>2. CASE KeepTurn
    <2>1. late = <<>> /\ http = "open" /\ http' = "kept"
      BY <1>2 DEF KeepTurn
    <2>2. "event" \notin swallowed /\ "event" \notin swallowed'
      BY <1>2, <2>1 DEF KeepTurn, Remembers
    <2> QED
      BY <1>0, <1>2, <2>1, <2>2 DEF KeepTurn, Once!vars, Delivered
  <1>3. CASE SendReply \/ AnswerFailure
    <2>1. /\ http' \in {"reply", "error"} /\ http \in {"open", "kept"} /\ late = <<>>
          /\ "event" \notin swallowed /\ up /\ UNCHANGED <<late, swallowed, up>>
      BY <1>3 DEF SendReply, AnswerFailure
    <2> QED
      BY <1>0, <2>1 DEF Once!Next, Once!DeliverNow, Delivered
  <1>4. CASE Detach
    <2>1. "event" \notin swallowed
      BY <1>4 DEF Detach
    <2> QED
      BY <1>0, <1>4, <2>1 DEF Detach, Once!Next, Once!Promise, Delivered
  <1>5. CASE EmitLate
    <2>1. /\ http = "placeholder" /\ http' = http /\ late = <<>> /\ swallowed = {} /\ up' = up /\ up
      BY <1>5 DEF EmitLate, TypeOK
    <2>2. CASE late' # <<>> /\ UNCHANGED swallowed
      BY <1>0, <2>1, <2>2 DEF Once!Next, Once!DeliverLate, Delivered
    <2>3. CASE swallowed' = {"event"} /\ UNCHANGED late
      BY <1>0, <2>1, <2>3 DEF Once!Next, Once!Lose, Delivered
    <2>4. \/ late' = Append(late, [kind |-> LateKind, text |-> AssistantText]) /\ UNCHANGED swallowed
          \/ swallowed' = {"event"} /\ UNCHANGED late
      BY <1>5, <2>1 DEF EmitLate
    <2>5. late' = Append(late, [kind |-> LateKind, text |-> AssistantText]) => late' # <<>>
      BY <2>1
    <2> QED
      BY <2>2, <2>3, <2>4, <2>5
  <1>6. CASE KeepLate
    <2>1. "event" \in swallowed <=> "event" \in swallowed'
      BY <1>6 DEF KeepLate, Remembers
    <2> QED
      BY <1>0, <1>6, <2>1 DEF KeepLate, Once!vars, Delivered
  <1>7. CASE Crash
    BY <1>0, <1>7 DEF Crash, Once!Next, Once!Lose, Once!vars, Delivered
  <1> QED
    BY <1>1, <1>2, <1>3, <1>4, <1>5, <1>6, <1>7 DEF Next, AnswerNow, FinishDetached

(* The user never gets two outcomes, nor a late one without a placeholder.  *)
THEOREM ImplementsReplyOnce == Spec => Once!Init /\ [][Once!Next]_Once!vars
PROOF
  <1>1. Init => Once!Init
    BY DEF Init, Once!Init, Delivered
  <1>2. TurnInv /\ TurnInv' /\ [Next]_vars => [Once!Next]_Once!vars
    BY TurnStepMapped
  <1> QED
    BY <1>1, <1>2, Invariance, PTL DEF Spec

-----------------------------------------------------------------------------
(* A plain request: it is remembered by the answer alone, and once something *)
(* was served the router has nothing left to do.                             *)
PlainInv ==
  /\ http \in {"open", "kept", "streaming", "done sent", "reply", "error", "gone"}
  /\ text \in Texts /\ asks \in BOOLEAN /\ up \in BOOLEAN
  /\ late = <<>> /\ worker = "none" /\ record = <<>> /\ effects = [s \in Sigs |-> 0]
  /\ http \in {"kept", "reply"} <=> status = "ok"
  /\ swallowed \subseteq {"memory"}
  /\ http \notin {"kept", "reply"} => swallowed = {}
  /\ memory = <<>> \/ (http \in {"kept", "reply"} /\ memory = <<Said(text)>>)
  /\ http \in {"kept", "reply"} /\ asks /\ MemoryOn /\ text # "empty" =>
       memory # <<>> \/ "memory" \in swallowed
  /\ http \in {"kept", "streaming", "done sent", "reply", "gone"} => routed = "served"
  /\ http # "error" => failure # "silent"

ChatInv ==
  /\ RouterTypeOK
  /\ path \in {"tools", "whole", "streamed"}
  /\ path = "tools" => TurnInv
  /\ path # "tools" => PlainInv

(* A request of either path that has just arrived. *)
LEMMA ChatInitially == ChatInit => ChatInv
PROOF
  <1> SUFFICES ASSUME ChatInit PROVE ChatInv
    OBVIOUS
  <1>1. RouterTypeOK
    BY RouterAssumption DEF ChatInit, InitRouter, RouterTypeOK, Chain, CallStates
  <1>2. PlainInv
    BY DEF ChatInit, Init, InitLoop, InitRouter, PlainInv, Texts
  <1>3. TurnInv
    BY TurnInit DEF ChatInit
  <1> QED
    BY <1>1, <1>2, <1>3 DEF ChatInit, ChatInv

(* The router's own steps keep its types.                                    *)
LEMMA RouterTyped ==
  ASSUME RouterTypeOK,
         \/ RouterStep \/ \E c \in Chain: CallEnds(c)
         \/ UNCHANGED routerVars
         \/ clock' = clock + 1 /\ UNCHANGED <<trying, since, calls, failure, routed>>
  PROVE  RouterTypeOK'
PROOF
  <1> USE RouterAssumption DEF RouterTypeOK, Chain, CallStates
  <1>1. CASE \E c \in Chain: CallEnds(c)
    BY <1>1 DEF CallEnds
  <1>2. CASE Served \/ Refused
    BY <1>2 DEF Served, Refused
  <1>3. ASSUME NEW why \in {"unreachable", "silent"}, NextCandidate(why) PROVE RouterTypeOK'
    <2>1. CASE trying < Candidates
      BY <1>3, <2>1 DEF NextCandidate
    <2>2. CASE ~(trying < Candidates)
      BY <1>3, <2>2 DEF NextCandidate
    <2> QED
      BY <2>1, <2>2
  <1>4. CASE Unreachable \/ Silent
    BY <1>4, <1>3 DEF Unreachable, Silent
  <1>5. CASE UNCHANGED routerVars
    BY <1>5 DEF routerVars
  <1>6. CASE clock' = clock + 1 /\ UNCHANGED <<trying, since, calls, failure, routed>>
    BY <1>6
  <1> QED
    BY <1>1, <1>2, <1>4, <1>5, <1>6 DEF RouterStep

(* While the handler waits, its timer fires before any of the router's.      *)
LEMMA HandlerFirst ==
  ASSUME RouterTypeOK, http = "open", CallDue PROVE HandlerDue
  BY RouterAssumption DEF RouterTypeOK, CallDue, HandlerDue

(* The first element. *)
LEMMA AppendFirst == ASSUME NEW e PROVE Append(<<>>, e) = <<e>>
  OBVIOUS

(* Every step of a plain request keeps its invariant. *)
LEMMA PlainStep ==
  ASSUME RouterTypeOK, PlainInv, path # "tools", ChatNext PROVE PlainInv'
PROOF
  <1> USE DEF PlainInv, SameTurn
  <1>1. CASE PlainRouterStep
    <2>1. UNCHANGED <<text, status, http, memory, swallowed, asks, late, worker, record, effects, up>>
      BY <1>1 DEF PlainRouterStep
    <2>2. Pending /\ (routed' = "pending" \/ routed' \in {"served", "refused", "no_backend"})
      BY <1>1 DEF PlainRouterStep, Served, Refused, Unreachable, Silent, CallDue, NextCandidate,
                  Pending
    <2>3. http \notin {"kept", "streaming", "done sent", "reply", "gone"}
      BY <2>2 DEF Pending
    <2>4. http = "open" => failure' # "silent"
      BY <1>1, HandlerFirst DEF PlainRouterStep, Served, Refused, Unreachable, Silent, NextCandidate
    <2> QED
      BY <2>1, <2>3, <2>4
  <1>2. CASE Upstream \/ Clock
    <2>1. UNCHANGED <<text, status, http, memory, swallowed, asks, late, worker, record, effects, up,
                      routed, failure>>
      BY <1>2 DEF Upstream, Clock, CallEnds
    <2> QED
      BY <2>1
  <1>3. CASE HandlerTimesOut
    BY <1>3 DEF HandlerTimesOut, HandlerDue, routerVars
  <1>4. ASSUME NEW b \in BOOLEAN, memory = <<>>, swallowed = {},
               IF b THEN Remembers(Said(text')) ELSE UNCHANGED <<memory, swallowed>>
        PROVE  /\ swallowed' \subseteq {"memory"} /\ memory' \in {<<>>, <<Said(text')>>}
               /\ b /\ MemoryOn => memory' # <<>> \/ "memory" \in swallowed'
    <2>1. Append(memory, Said(text')) = <<Said(text')>>
      BY <1>4, AppendFirst
    <2>2. CASE b /\ MemoryOn /\ memory' = <<Said(text')>> /\ UNCHANGED swallowed
      BY <1>4, <2>2
    <2>3. CASE b /\ ~MemoryOn /\ UNCHANGED <<memory, swallowed>>
      BY <1>4, <2>3
    <2>4. CASE b /\ swallowed' = {"memory"} /\ UNCHANGED memory
      BY <1>4, <2>4
    <2>5. CASE ~b /\ UNCHANGED <<memory, swallowed>>
      BY <1>4, <2>5
    <2> QED
      BY <1>4, <2>1, <2>2, <2>3, <2>4, <2>5 DEF Remembers
  <1>5. CASE KeepWhole
    <2>1. memory = <<>> /\ swallowed = {}
      BY <1>5 DEF KeepWhole
    <2>2. /\ swallowed' \subseteq {"memory"} /\ memory' \in {<<>>, <<Said(text')>>}
          /\ asks /\ text' # "empty" /\ MemoryOn => memory' # <<>> \/ "memory" \in swallowed'
      <3> DEFINE b == asks /\ text' # "empty"
      <3>1. b \in BOOLEAN /\ IF b THEN Remembers(Said(text')) ELSE UNCHANGED <<memory, swallowed>>
        BY <1>5 DEF KeepWhole
      <3> HIDE DEF b
      <3>2. /\ swallowed' \subseteq {"memory"} /\ memory' \in {<<>>, <<Said(text')>>}
            /\ b /\ MemoryOn => memory' # <<>> \/ "memory" \in swallowed'
        BY <1>4, <2>1, <3>1
      <3> QED
        BY <3>2 DEF b
    <2> QED
      BY <1>5, <2>2 DEF KeepWhole, routerVars
  <1>6. CASE SendWhole
    BY <1>6 DEF SendWhole, SendReply, loopVars, routerVars
  <1>7. CASE AnswerError
    BY <1>7 DEF AnswerError, routerVars
  <1>8. CASE StreamStarts
    BY <1>8 DEF StreamStarts, routerVars
  <1>9. CASE StreamRemembered
    <2>1. memory = <<>> /\ swallowed = {} /\ text' = text
      BY <1>9 DEF StreamRemembered
    <2>2. /\ swallowed' \subseteq {"memory"} /\ memory' \in {<<>>, <<Said(text')>>}
          /\ text' # "empty" /\ MemoryOn => memory' # <<>> \/ "memory" \in swallowed'
      <3> DEFINE b == text # "empty"
      <3>1. b \in BOOLEAN /\ IF b THEN Remembers(Said(text')) ELSE UNCHANGED <<memory, swallowed>>
        BY <1>9, <2>1 DEF StreamRemembered
      <3> HIDE DEF b
      <3>2. /\ swallowed' \subseteq {"memory"} /\ memory' \in {<<>>, <<Said(text')>>}
            /\ b /\ MemoryOn => memory' # <<>> \/ "memory" \in swallowed'
        BY <1>4, <2>1, <3>1
      <3> QED
        BY <2>1, <3>2 DEF b
    <2> QED
      BY <1>9, <2>2 DEF StreamRemembered, routerVars
  <1>10. CASE Stream
    BY <1>10 DEF Stream, StreamPiece, StreamDone, StreamBreaks, routerVars, Texts
  <1>11. CASE HangUp
    BY <1>11 DEF HangUp, routerVars
  <1>12. CASE PlainCrash
    BY <1>12 DEF PlainCrash, Crash, loopVars, routerVars
  <1> QED
    BY <1>1, <1>2, <1>3, <1>5, <1>6, <1>7, <1>8, <1>9, <1>10, <1>11, <1>12
    DEF ChatNext, Answer, ToolTurn

(* Every step keeps the invariant of the request. *)
LEMMA ChatStep == ASSUME ChatInv, [ChatNext]_chatVars PROVE ChatInv'
PROOF
  <1> USE DEF ChatInv
  <1>1. CASE UNCHANGED chatVars
    <2>1. UNCHANGED <<vars, routerVars, path>>
      BY <1>1 DEF chatVars, vars
    <2>2. TurnInv => TurnInv'
      BY <2>1, TurnStep
    <2>3. PlainInv => PlainInv'
      BY <2>1 DEF PlainInv, vars, loopVars, deliveryVars, routerVars
    <2> QED
      BY <2>1, <2>2, <2>3, RouterTyped
  <1>2. CASE ToolTurn
    <2>1. path = "tools" /\ path' = path /\ UNCHANGED routerVars
      BY <1>2 DEF ToolTurn
    <2>2. TurnInv'
      BY <1>2, <2>1, TurnStep DEF ToolTurn
    <2> QED
      BY <2>1, <2>2, RouterTyped
  <1>3. CASE ChatNext /\ path # "tools"
    <2>1. path' = path
      BY <1>3 DEF ChatNext, ToolTurn, PlainRouterStep, Upstream, Clock, Answer, HandlerTimesOut,
             KeepWhole, SendWhole, SendReply, AnswerError, StreamStarts, StreamRemembered, Stream, StreamPiece,
             StreamDone, StreamBreaks, HangUp, PlainCrash, SameTurn
    <2>2. RouterTypeOK'
      BY <1>3, RouterTyped
      DEF ChatNext, ToolTurn, PlainRouterStep, Upstream, Clock, Answer, HandlerTimesOut,
          KeepWhole, SendWhole, SendReply, AnswerError, StreamStarts, StreamRemembered, Stream, StreamPiece,
          StreamDone, StreamBreaks, HangUp, PlainCrash, RouterStep
    <2> QED
      BY <1>3, <2>1, <2>2, PlainStep
  <1>4. ChatNext => ToolTurn \/ path # "tools"
    BY DEF ChatNext, PlainRouterStep, Upstream, Clock, Answer, HandlerTimesOut, KeepWhole, SendWhole, SendReply,
           AnswerError, StreamStarts, StreamRemembered, Stream, StreamPiece, StreamDone,
           StreamBreaks, HangUp, PlainCrash, Plain
  <1> QED
    BY <1>1, <1>2, <1>3, <1>4

(* Every reachable state of a request satisfies its invariant. *)
THEOREM ChatInvariance == ChatSpec => []ChatInv
PROOF
  <1>1. ChatInit => ChatInv
    BY ChatInitially
  <1>2. ChatInv /\ [ChatNext]_chatVars => ChatInv'
    BY ChatStep
  <1> QED
    BY <1>1, <1>2, PTL DEF ChatSpec

(* A plain client is never served by the fallback of a silent primary. *)
THEOREM SilentPrimaryIsFinal == ChatSpec => []SilenceIsFinal
PROOF
  <1>1. ChatInv => SilenceIsFinal
    BY DEF ChatInv, PlainInv, SilenceIsFinal
  <1> QED
    BY <1>1, ChatInvariance, PTL

(* With tools or without, whole or streamed: memory holds what was sent, and *)
(* lacks it only for the exceptions MemoryMatchesDelivery names.             *)
THEOREM ChatMemoryIsTrue == ChatSpec => []MemoryMatchesDelivery
PROOF
  <1>1. ChatInv => MemoryMatchesDelivery
    <2> SUFFICES ASSUME ChatInv PROVE MemoryMatchesDelivery
      OBVIOUS
    <2>1. CASE path = "tools"
      BY <2>1 DEF ChatInv, TurnInv
    <2>2. CASE path # "tools"
      <3>2. CASE memory # <<>>
        <4>1. memory = <<Said(text)>> /\ http \in {"kept", "reply"}
          BY <2>2, <3>2 DEF ChatInv, PlainInv
        <4>2. Len(memory) = 1 /\ Last(memory) = Said(text)
          BY <4>1 DEF Last
        <4>3. AssistantText = text /\ record = <<>>
          BY <2>2, <4>1 DEF ChatInv, PlainInv, AssistantText
        <4> QED
          BY <3>2, <4>1, <4>2, <4>3 DEF MemoryMatchesDelivery, Said
      <3>3. CASE memory = <<>>
        <4>1. Len(memory) = 0
          BY <3>3
        <4>2. status = "ok" /\ text # "empty" /\ asks /\ MemoryOn => "memory" \in swallowed
          BY <2>2, <3>3 DEF ChatInv, PlainInv
        <4> QED
          BY <3>3, <4>1, <4>2 DEF MemoryMatchesDelivery
      <3> QED
        BY <3>2, <3>3
    <2> QED
      BY <2>1, <2>2
  <1> QED
    BY <1>1, ChatInvariance, PTL

(* Safety part of the refinement, for a request of either path. *)
THEOREM ChatImplementsReplyOnce == ChatSpec => Once!Init /\ [][Once!Next]_Once!vars
PROOF
  <1>1. ChatInit => Once!Init
    BY DEF ChatInit, Init, Once!Init, Delivered
  <1>2. ASSUME ChatInv, ChatInv', [ChatNext]_chatVars PROVE [Once!Next]_Once!vars
    <2>1. CASE UNCHANGED chatVars
      BY <2>1 DEF chatVars, deliveryVars, Once!vars, Delivered
    <2>2. CASE ToolTurn
      <3>1. TurnInv /\ TurnInv' /\ [Next]_vars
        BY <1>2, <2>2 DEF ToolTurn, ChatInv
      <3> QED
        BY <3>1, TurnStepMapped
    <2>3. ASSUME path # "tools" PROVE "event" \notin swallowed /\ late = <<>>
      BY <1>2, <2>3 DEF ChatInv, PlainInv
    <2>4. ASSUME path' # "tools" PROVE "event" \notin swallowed'
      BY <1>2, <2>4 DEF ChatInv, PlainInv
    <2>5. CASE PlainCrash
      BY <2>3, <2>5 DEF PlainCrash, Plain, Crash, Once!Next, Once!Lose, Once!vars, Delivered
    <2>6. CASE HangUp
      <3>1. late = <<>> /\ late' = late /\ up' = up /\ up /\ "event" \notin swallowed
        BY <2>3, <2>6 DEF HangUp, SameTurn, Plain
      <3> QED
        BY <2>6, <3>1 DEF HangUp, Once!Next, Once!Lose, Delivered
    <2>7. CASE HandlerTimesOut \/ SendWhole \/ AnswerError \/ StreamRemembered \/ StreamBreaks
      <3>1. /\ late = <<>> /\ late' = late /\ up' = up /\ up
            /\ "event" \notin swallowed /\ "event" \notin swallowed'
            /\ http \in {"open", "kept", "streaming", "done sent"} /\ http' \in {"reply", "error"}
        BY <2>3, <2>4, <2>7 DEF HandlerTimesOut, SendWhole, SendReply, AnswerError, StreamRemembered,
           StreamBreaks, HandlerDue, SameTurn, Plain
      <3> QED
        BY <3>1 DEF Once!Next, Once!DeliverNow, Delivered
    <2>8. CASE \/ PlainRouterStep \/ Upstream \/ Clock \/ StreamStarts \/ StreamPiece \/ StreamDone
               \/ KeepWhole
      <3>1. /\ late' = late /\ up' = up /\ "event" \notin swallowed /\ "event" \notin swallowed'
            /\ \/ http' = http
               \/ http \in {"open", "streaming"} /\ http' \in {"kept", "streaming", "done sent"}
        BY <2>3, <2>4, <2>8 DEF PlainRouterStep, Upstream, Clock, StreamStarts, StreamPiece, StreamDone,
                    KeepWhole, SameTurn, Plain
      <3> QED
        BY <3>1 DEF Once!vars, Delivered
    <2> QED
      BY <1>2, <2>1, <2>2, <2>5, <2>6, <2>7, <2>8 DEF ChatNext, Answer, Stream
  <1> QED
    BY <1>1, <1>2, ChatInvariance, PTL DEF ChatSpec

(* Every variable of a request keeps its type, on both paths. *)
THEOREM ChatTypeCorrect == ChatSpec => []ChatTypeOK
PROOF
  <1>1. ChatInit => ChatTypeOK
    <2> SUFFICES ASSUME ChatInit PROVE ChatTypeOK
      OBVIOUS
    <2>1. ChatInv
      BY ChatInitially
    <2>2. LoopTypeOK
      BY TurnAssumption, LoopInit DEF ChatInit, Init, LoopInv, LoopShape
    <2> QED
      BY <2>1, <2>2, ChatAssumption DEF ChatTypeOK, ChatInv, ChatInit, Init
  <1>2. ASSUME ChatTypeOK, ChatInv, ChatInv', [ChatNext]_chatVars PROVE ChatTypeOK'
    <2>1. CASE path' = "tools"
      <3>1. pieces' = pieces
        BY <1>2, <2>1 DEF ChatNext, ToolTurn, PlainRouterStep, Upstream, Clock, Answer,
           HandlerTimesOut, KeepWhole, SendWhole, SendReply, AnswerError, StreamStarts, StreamRemembered, Stream,
           StreamPiece, StreamDone, StreamBreaks, HangUp, PlainCrash, SameTurn, Plain, chatVars
      <3> QED
        BY <1>2, <2>1, <3>1 DEF ChatTypeOK, ChatInv, TurnInv, TypeOK
    <2>2. CASE path' # "tools"
      <3>1. UNCHANGED <<at, budget, iterations, queue, unanswered, succeeded, repeated,
                        record, effects>>
        BY <1>2, <2>2 DEF ChatNext, ToolTurn, PlainRouterStep, Upstream, Clock, Answer,
           HandlerTimesOut, KeepWhole, SendWhole, SendReply, AnswerError, StreamStarts, StreamRemembered, Stream,
           StreamPiece, StreamDone, StreamBreaks, HangUp, PlainCrash, Crash, SameTurn,
           chatVars, loopVars
      <3>2. status' \in Statuses \union {"none"} /\ pieces' \in 0..MaxPieces
        <4>1. status \in Statuses \union {"none"} /\ pieces \in 0..MaxPieces
          BY <1>2 DEF ChatTypeOK, LoopTypeOK
        <4>2. ASSUME NEW n \in 0..MaxPieces, n < MaxPieces PROVE n + 1 \in 0..MaxPieces
          BY <4>2, ChatAssumption
        <4>3. status' \in {status, "ok", "upstream_error", "raised"}
          BY <1>2, <2>2 DEF ChatNext, ToolTurn, PlainRouterStep, Upstream, Clock, Answer,
             HandlerTimesOut, KeepWhole, SendWhole, SendReply, AnswerError, StreamStarts, StreamRemembered, Stream,
             StreamPiece, StreamDone, StreamBreaks, HangUp, PlainCrash, Crash, SameTurn,
             loopVars, chatVars
        <4>4. pieces' = pieces \/ (pieces < MaxPieces /\ pieces' = pieces + 1)
          BY <1>2, <2>2 DEF ChatNext, ToolTurn, PlainRouterStep, Upstream, Clock, Answer,
             HandlerTimesOut, KeepWhole, SendWhole, SendReply, AnswerError, StreamStarts, StreamRemembered, Stream,
             StreamPiece, StreamDone, StreamBreaks, HangUp, PlainCrash, chatVars
        <4> QED
          BY <4>1, <4>2, <4>3, <4>4 DEF Statuses
      <3>3. text' \in Texts
        BY <1>2, <2>2 DEF ChatInv, PlainInv
      <3>4. LoopTypeOK'
        BY <1>2, <3>1, <3>2, <3>3 DEF ChatTypeOK, LoopTypeOK
      <3> QED
        BY <1>2, <2>2, <3>2, <3>4 DEF ChatTypeOK, ChatInv, PlainInv
    <2> QED
      BY <2>1, <2>2
  <1> QED
    BY <1>1, <1>2, ChatInvariance, PTL DEF ChatSpec

(* The timer of a call is never passed, and the calls follow each other. *)
TimersRing ==
  /\ since <= (trying - 1) * Timeout
  /\ Pending => clock <= since + Timeout

(* The candidate being tried is reached within the Timeouts of those before.*)
DispatchInTime == Pending => clock <= trying * Timeout

(* A product grows with its factor. *)
LEMMA OneMore ==
  ASSUME NEW n \in Nat, NEW t \in Nat
  PROVE  /\ n * t \in Nat /\ (n + 1) * t = n * t + t /\ (n + 1 - 1) * t = n * t
  OBVIOUS

(* A product is monotone. *)
LEMMA MoreIsMore ==
  ASSUME NEW m \in Nat, NEW n \in Nat, NEW t \in Nat, m <= n
  PROVE  m * t <= n * t
  OBVIOUS

(* Each candidate is given up when its own Timeout is over, so the chain is *)
(* through after as many Timeouts as it has candidates (router.py dispatch:  *)
(* the wait_for around each call).                                           *)
THEOREM ChainIsTimed == ChatSpec => [](TimersRing /\ DispatchInTime)
PROOF
  <1>1. ChatInit => TimersRing
    <2> SUFFICES ASSUME ChatInit PROVE TimersRing
      OBVIOUS
    <2>1. since = 0 /\ clock = 0 /\ trying = 1
      BY DEF ChatInit, InitRouter
    <2>2. (trying - 1) * Timeout = 0
      BY <2>1, RouterAssumption
    <2> QED
      BY <2>1, <2>2, RouterAssumption DEF TimersRing
  <1>2. ASSUME TimersRing, ChatInv, ChatInv', [ChatNext]_chatVars PROVE TimersRing'
    <2>1. RouterTypeOK /\ RouterTypeOK'
      BY <1>2 DEF ChatInv
    <2>2. CASE UNCHANGED <<clock, trying, since>> /\ (Pending' => Pending)
      BY <1>2, <2>2 DEF TimersRing
    <2>3. CASE Clock
      BY <1>2, <2>1, <2>3, RouterAssumption
      DEF TimersRing, Clock, CallDue, RouterTypeOK, Chain, Pending
    <2>4. ASSUME NEW why, Pending, NextCandidate(why) PROVE TimersRing'
      <3>1. CASE trying < Candidates
        <4>1. trying' = trying + 1 /\ since' = clock /\ clock' = clock
          BY <2>4, <3>1 DEF NextCandidate
        <4>2. /\ trying - 1 \in Nat /\ trying - 1 + 1 = trying /\ Timeout \in Nat
              /\ trying' - 1 = trying /\ clock \in Nat /\ since \in Nat
          BY <2>1, <4>1, RouterAssumption DEF RouterTypeOK, Chain
        <4>3. /\ trying * Timeout = (trying - 1) * Timeout + Timeout
              /\ (trying - 1) * Timeout \in Nat
          BY <4>2, OneMore
        <4>4. clock <= since + Timeout /\ since <= (trying - 1) * Timeout
          BY <1>2, <2>4 DEF TimersRing
        <4>5. clock <= trying * Timeout
          BY <4>2, <4>3, <4>4
        <4>6. since' <= (trying' - 1) * Timeout
          BY <4>1, <4>2, <4>5
        <4>7. clock' <= since' + Timeout
          BY <4>1, <4>2
        <4> QED
          BY <4>6, <4>7 DEF TimersRing
      <3>2. CASE ~(trying < Candidates)
        BY <1>2, <2>4, <3>2 DEF TimersRing, NextCandidate, Pending
      <3> QED
        BY <3>1, <3>2
    <2>5. CASE PlainRouterStep
      <3>1. CASE Served \/ Refused
        BY <2>2, <3>1 DEF Served, Refused, Pending
      <3>2. CASE Unreachable \/ Silent
        BY <2>4, <3>2 DEF Unreachable, Silent, CallDue
      <3> QED
        BY <2>5, <3>1, <3>2 DEF PlainRouterStep
    <2>6. CASE ~Clock /\ ~PlainRouterStep
      <3>1. UNCHANGED <<clock, trying, since, routed>>
        BY <1>2, <2>6 DEF ChatNext, ToolTurn, Upstream, CallEnds, Answer, HandlerTimesOut,
           KeepWhole, SendWhole, SendReply, AnswerError, StreamStarts, StreamRemembered, Stream, StreamPiece,
           StreamDone, StreamBreaks, HangUp, PlainCrash, routerVars, chatVars
      <3> QED
        BY <2>2, <3>1 DEF Pending
    <2> QED
      BY <2>3, <2>5, <2>6
  <1>3. ChatInv /\ TimersRing => DispatchInTime
    <2> SUFFICES ASSUME ChatInv, TimersRing, Pending PROVE clock <= trying * Timeout
      BY DEF DispatchInTime
    <2>1. /\ trying - 1 \in Nat /\ trying - 1 + 1 = trying /\ Timeout \in Nat
          /\ clock \in Nat /\ since \in Nat
      BY RouterAssumption DEF ChatInv, RouterTypeOK, Chain
    <2>2. /\ trying * Timeout = (trying - 1) * Timeout + Timeout
          /\ (trying - 1) * Timeout \in Nat
      BY <2>1, OneMore
    <2> QED
      BY <2>1, <2>2 DEF TimersRing
  <1> QED
    BY <1>1, <1>2, <1>3, ChatInvariance, PTL DEF ChatSpec

(* What a dispatch has left: candidates to settle, time, calls in flight. *)
SettlingsLeft == IF Pending THEN Candidates + 1 - trying ELSE 0
TimeLeft == Candidates * Timeout - clock
InFlight == {c \in Chain: calls[c] = "running"}

(* A dispatch that goes on uses up some of it, of what comes first; no other *)
(* step of the request adds to it (router.py dispatch).  That it goes on is  *)
(* fairness.                                                                 *)
THEOREM DispatchShrinks ==
  ChatSpec =>
    /\ [](SettlingsLeft \in Nat /\ (Pending => TimeLeft \in Nat))
    /\ [][\/ PlainRouterStep /\ SettlingsLeft' < SettlingsLeft
          \/ Clock /\ SettlingsLeft' = SettlingsLeft /\ TimeLeft' < TimeLeft /\ TimeLeft' \in Nat
          \/ Upstream /\ UNCHANGED <<SettlingsLeft, TimeLeft>>
                      /\ InFlight' \subseteq InFlight /\ InFlight' # InFlight
          \/ UNCHANGED routerVars]_chatVars
PROOF
  <1>1. ASSUME ChatInv, DispatchInTime
        PROVE  SettlingsLeft \in Nat /\ (Pending => TimeLeft \in Nat)
    <2>1. /\ trying \in Nat /\ trying <= Candidates /\ Candidates + 1 - trying \in Nat
          /\ Candidates - trying \in Nat /\ clock \in Nat /\ Timeout \in Nat
          /\ Candidates \in Nat
      BY <1>1, RouterAssumption DEF ChatInv, RouterTypeOK, Chain
    <2>2. trying * Timeout <= Candidates * Timeout /\ Candidates * Timeout \in Nat
      BY <2>1, MoreIsMore, OneMore
    <2>3. ASSUME Pending PROVE Candidates * Timeout - clock \in Nat
      <3>1. clock <= trying * Timeout /\ trying * Timeout \in Nat
        BY <1>1, <2>1, <2>3, OneMore DEF DispatchInTime
      <3> QED
        BY <2>1, <2>2, <3>1
    <2> QED
      BY <2>1, <2>3 DEF SettlingsLeft, TimeLeft
  <1>2. ASSUME ChatInv, ChatNext
        PROVE  \/ PlainRouterStep /\ SettlingsLeft' < SettlingsLeft
               \/ Clock /\ SettlingsLeft' = SettlingsLeft /\ TimeLeft' < TimeLeft
                        /\ TimeLeft' \in Nat
               \/ Upstream /\ UNCHANGED <<SettlingsLeft, TimeLeft>>
                           /\ InFlight' \subseteq InFlight /\ InFlight' # InFlight
               \/ UNCHANGED routerVars
    <2>1. RouterTypeOK /\ RouterTypeOK'
      BY <1>2, ChatStep DEF ChatInv
    <2>2. /\ trying \in Nat /\ trying <= Candidates /\ Candidates \in Nat
          /\ clock \in Nat /\ Candidates * Timeout \in Nat
      BY <2>1, RouterAssumption, OneMore DEF RouterTypeOK, Chain
    <2>3. CASE PlainRouterStep
      <3>1. Served \/ Refused => SettlingsLeft' < SettlingsLeft
        BY <2>2 DEF Served, Refused, SettlingsLeft, Pending
      <3>2. ASSUME NEW why, Pending, NextCandidate(why) PROVE SettlingsLeft' < SettlingsLeft
        BY <2>2, <3>2 DEF NextCandidate, SettlingsLeft, Pending
      <3>3. Unreachable \/ Silent => SettlingsLeft' < SettlingsLeft
        BY <3>2 DEF Unreachable, Silent, CallDue
      <3> QED
        BY <2>3, <3>1, <3>3 DEF PlainRouterStep
    <2>4. CASE Clock
      <3>1. /\ clock < Candidates * Timeout /\ clock' = clock + 1
            /\ trying' = trying /\ routed' = routed
        BY <2>4 DEF Clock
      <3>2. TimeLeft' < TimeLeft /\ TimeLeft' \in Nat
        BY <2>2, <3>1 DEF TimeLeft
      <3> QED
        BY <2>4, <3>1, <3>2 DEF SettlingsLeft, Pending
    <2>5. CASE Upstream
      <3>1. PICK c \in Chain: CallEnds(c)
        BY <2>5 DEF Upstream
      <3>2. /\ c \in InFlight /\ c \notin InFlight'
            /\ InFlight' \subseteq InFlight
        BY <2>1, <3>1 DEF CallEnds, InFlight, RouterTypeOK, Chain
      <3>3. UNCHANGED <<SettlingsLeft, TimeLeft>>
        BY <3>1 DEF CallEnds, SettlingsLeft, TimeLeft, Pending
      <3> QED
        BY <2>5, <3>2, <3>3
    <2> QED
      BY <1>2, <2>3, <2>4, <2>5
      DEF ChatNext, ToolTurn, Answer, HandlerTimesOut, KeepWhole, SendWhole, SendReply, AnswerError, StreamStarts,
          StreamRemembered, Stream, StreamPiece, StreamDone, StreamBreaks, HangUp, PlainCrash
  <1>3. ChatInv /\ DispatchInTime =>
          SettlingsLeft \in Nat /\ (Pending => TimeLeft \in Nat)
    BY <1>1
  <1>4. ChatInv /\ [ChatNext]_chatVars =>
          [\/ PlainRouterStep /\ SettlingsLeft' < SettlingsLeft
           \/ Clock /\ SettlingsLeft' = SettlingsLeft /\ TimeLeft' < TimeLeft /\ TimeLeft' \in Nat
           \/ Upstream /\ UNCHANGED <<SettlingsLeft, TimeLeft>>
                       /\ InFlight' \subseteq InFlight /\ InFlight' # InFlight
           \/ UNCHANGED routerVars]_chatVars
    BY <1>2
  <1> QED
    BY <1>3, <1>4, ChatInvariance, ChainIsTimed, PTL DEF ChatSpec

-----------------------------------------------------------------------------
(* The orchestrated turn: passes of the same loop, one after the other.      *)

(* Recovery stays within its cap, and nothing is handed over early. *)
WithinCap ==
  /\ attempt <= MaxRecovery
  /\ stage \in {"plan", "nudge", "execute"} => attempt = 0
  /\ stage # "done" => outcome = "none" /\ reply = "none"
  /\ stage = "done" => at = "ended"

OrchInv == LoopShape /\ OrchTypeOK /\ WithinCap /\ NoTroubleAsAnswer

(* What a turn has left: passes it may still run, model requests of the pass *)
(* it is in, and steps until the next request of this pass or its end.       *)
PassesLeft ==
  CASE stage = "plan"    -> MaxRecovery + 3
    [] stage = "nudge"   -> MaxRecovery + 2
    [] stage = "done"    -> 0
    [] OTHER             -> MaxRecovery + 1 - attempt
RequestsLeft == budget - iterations
StepsLeft == CASE at = "calls" -> Len(queue) + 2 [] at = "dispatch" -> 1 [] OTHER -> 0

(* A step uses up some of it: of what comes first in this order. *)
Shrinks ==
  \/ PassesLeft' < PassesLeft
  \/ PassesLeft' = PassesLeft /\ RequestsLeft' < RequestsLeft
  \/ PassesLeft' = PassesLeft /\ RequestsLeft' = RequestsLeft /\ StepsLeft' < StepsLeft

(* The planner's first pass begins. *)
LEMMA OrchInitially == OrchInit => OrchInv
PROOF
  <1> SUFFICES ASSUME OrchInit PROVE OrchInv
    OBVIOUS
  <1>1. LoopShape
    BY OrchestratorAssumption, LoopInit DEF OrchInit, LoopInv
  <1>2. OrchTypeOK
    BY <1>1 DEF OrchInit, LoopShape, OrchTypeOK
  <1>3. WithinCap /\ NoTroubleAsAnswer
    BY OrchestratorAssumption DEF OrchInit, WithinCap, NoTroubleAsAnswer
  <1> QED
    BY <1>1, <1>2, <1>3 DEF OrchInv

(* A finished pass's reply is a text. *)
LEMMA AssistantTextTyped == LoopTypeOK => AssistantText \in Texts
  BY DEF LoopTypeOK, AssistantText, Texts

(* No recovery is decided at the cap. *)
LEMMA RecoveryBelowCap ==
  ASSUME NEW trouble, Recovery(trouble) \in {"nudge", "replan"}
  PROVE  ~(attempt >= MaxRecovery)
  BY DEF Recovery

(* Steps that start a pass. *)
LEMMA OrchPassStarts ==
  ASSUME OrchInv, PlannerNudge \/ PlannerDone \/ Recover
  PROVE  OrchInv'
PROOF
  <1> USE DEF OrchInv
  <1>1. PICK n \in Nat \ {0}: StartLoop(n)
    <2>1. Max2(2, PlannerBudget) \in Nat \ {0}
      BY OrchestratorAssumption DEF Max2
    <2> QED
      BY <2>1, OrchestratorAssumption DEF PlannerNudge, PlannerDone, Recover
  <1>2. LoopShape'
    BY <1>1, LoopStart
  <1>3. attempt \in Nat /\ attempt <= MaxRecovery /\ MaxRecovery \in Nat
    BY OrchestratorAssumption DEF OrchTypeOK, WithinCap
  <1>4. CASE PlannerNudge \/ PlannerDone
    <2>1. OrchTypeOK'
      BY <1>2, <1>4 DEF PlannerNudge, PlannerDone, OrchTypeOK, LoopShape
    <2>2. WithinCap' /\ NoTroubleAsAnswer'
      BY <1>4 DEF PlannerNudge, PlannerDone, WithinCap, NoTroubleAsAnswer
    <2> QED
      BY <1>2, <2>1, <2>2
  <1>5. CASE Recover
    <2>1. ~(attempt >= MaxRecovery) /\ attempt' = attempt + 1 /\ stage' = "recover"
      BY <1>5, RecoveryBelowCap DEF Recover
    <2>2. OrchTypeOK'
      <3>1. \/ replanned' = TRUE /\ injected' = plan
            \/ UNCHANGED <<replanned, injected>>
        BY <1>5 DEF Recover
      <3>2. replanned' \in BOOLEAN /\ injected' \in {"none", "stale", "fresh"}
        BY <3>1 DEF OrchTypeOK
      <3>3. attempt' \in Nat
        BY <1>3, <2>1
      <3>4. UNCHANGED <<plan, reply, outcome>>
        BY <1>5 DEF Recover
      <3> QED
        BY <1>2, <2>1, <3>2, <3>3, <3>4 DEF OrchTypeOK, LoopShape
    <2>3. WithinCap' /\ NoTroubleAsAnswer'
      <3>1. attempt' <= MaxRecovery
        BY <1>3, <2>1
      <3>2. stage # "done" /\ UNCHANGED <<outcome, reply>>
        BY <1>5 DEF Recover, InTrouble, ExecutorEnded
      <3> QED
        BY <2>1, <3>1, <3>2 DEF WithinCap, NoTroubleAsAnswer
    <2> QED
      BY <1>2, <2>2, <2>3
  <1> QED
    BY <1>4, <1>5

(* Steps that end the turn: the loop of the last pass stays as it is. *)
LEMMA OrchEnds ==
  ASSUME OrchInv, PassRaised \/ Deliver \/ HonestStop
  PROVE  OrchInv'
PROOF
  <1> USE DEF OrchInv
  <1>1. /\ UNCHANGED <<loopVars, attempt, replanned, plan, injected>>
        /\ stage' = "done" /\ at = "ended"
    BY DEF PassRaised, Deliver, HonestStop, InTrouble, ExecutorEnded, PassEnded
  <1>2. LoopShape'
    BY <1>1 DEF loopVars, LoopShape, LoopTypeOK, OwedIsQueued, DispatchIsClean
  <1>3. AssistantText \in Texts
    BY AssistantTextTyped DEF LoopShape
  <1>4. reply' \in Texts \union {"none", "report"} /\ outcome' \in Statuses \union {"none"}
    BY <1>3 DEF PassRaised, Deliver, HonestStop, OrchTypeOK, LoopShape, LoopTypeOK, Statuses
  <1>5. OrchTypeOK'
    BY <1>1, <1>2, <1>4 DEF OrchTypeOK, LoopShape
  <1>6. WithinCap'
    BY <1>1 DEF WithinCap, loopVars
  <1>7. CurrentTrouble' = CurrentTrouble
    BY <1>1 DEF loopVars, CurrentTrouble, ResultCalls, AssistantText, Trouble
  <1>8. NoTroubleAsAnswer'
    <2>1. CASE PassRaised
      BY <2>1 DEF PassRaised, NoTroubleAsAnswer
    <2>2. CASE Deliver
      <3>1. reply' = AssistantText /\ (AssistantText = "gap" \/ CurrentTrouble = "none")
        BY <2>2 DEF Deliver, IsGap
      <3> QED
        BY <1>3, <1>7, <3>1 DEF NoTroubleAsAnswer, Texts
    <2>3. CASE HonestStop
      BY <2>3 DEF HonestStop, NoTroubleAsAnswer
    <2> QED
      BY <2>1, <2>2, <2>3
  <1> QED
    BY <1>2, <1>5, <1>6, <1>8

LEMMA OrchPassStep == ASSUME OrchInv, PassStep PROVE OrchInv'
PROOF
  <1> USE DEF OrchInv
  <1>1. LoopShape'
    BY LoopShapeStep DEF PassStep
  <1>2. plan' \in {"none", "stale", "fresh"}
    BY DEF PassStep, OrchTypeOK
  <1>3. OrchTypeOK'
    BY <1>1, <1>2 DEF PassStep, OrchTypeOK, LoopShape
  <1>4. WithinCap' /\ NoTroubleAsAnswer'
    BY DEF PassStep, WithinCap, NoTroubleAsAnswer
  <1> QED
    BY <1>1, <1>3, <1>4

(* The invariant of an orchestrated turn. *)
LEMMA OrchStep == ASSUME OrchInv, [OrchNext]_orchVars PROVE OrchInv'
PROOF
  <1>1. CASE UNCHANGED orchVars
    <2>1. UNCHANGED <<loopVars, recoveryVars>>
      BY <1>1 DEF orchVars
    <2>2. LoopShape'
      BY <2>1 DEF OrchInv, loopVars, LoopShape, LoopTypeOK, OwedIsQueued, DispatchIsClean
    <2>3. CurrentTrouble' = CurrentTrouble
      BY <2>1 DEF loopVars, CurrentTrouble, ResultCalls, AssistantText, Trouble
    <2>4. OrchTypeOK'
      BY <2>1, <2>2 DEF OrchInv, recoveryVars, OrchTypeOK, LoopShape
    <2>5. WithinCap' /\ NoTroubleAsAnswer'
      BY <2>1, <2>3 DEF OrchInv, recoveryVars, loopVars, WithinCap, NoTroubleAsAnswer
    <2> QED
      BY <2>2, <2>4, <2>5 DEF OrchInv
  <1> QED
    BY <1>1, OrchPassStarts, OrchEnds, OrchPassStep DEF OrchNext

(* The inductive invariant of an orchestrated turn: its loop's shape in every *)
(* pass, its types, the cap on recoveries, and no trouble told as an answer. *)
THEOREM OrchInvariance == OrchSpec => []OrchInv
PROOF
  <1>1. OrchInv /\ [OrchNext]_orchVars => OrchInv'
    BY OrchStep
  <1> QED
    BY <1>1, OrchInitially, PTL DEF OrchSpec

(* The turn and the pass it runs are well typed. *)
THEOREM OrchTypeCorrect == OrchSpec => []OrchTypeOK
PROOF
  <1>1. OrchInv => OrchTypeOK
    BY DEF OrchInv
  <1> QED
    BY <1>1, OrchInvariance, PTL

(* Trouble is never delivered as an ordinary answer: what the caller gets as *)
(* ok is a clean pass's reply, a gap the model told, or the honest report    *)
(* (orchestrator.py run_orchestrated_turn, trouble.py, recover.py).          *)
THEOREM TroubleIsNoAnswer == OrchSpec => []NoTroubleAsAnswer
PROOF
  <1>1. OrchInv => NoTroubleAsAnswer
    BY DEF OrchInv
  <1> QED
    BY <1>1, OrchInvariance, PTL

(* In no pass, planner's, executor's or recovery's, is the model asked while *)
(* a tool call of its last reply has no tool message (agent_loop.py).        *)
THEOREM PassesAreNeverOwed == OrchSpec => []EveryCallAnswered
PROOF
  <1>1. OrchInv => EveryCallAnswered
    BY DEF OrchInv, LoopShape, OwedIsQueued, DispatchIsClean, EveryCallAnswered
  <1> QED
    BY <1>1, OrchInvariance, PTL

-----------------------------------------------------------------------------
(* The loop's own step uses up a request or a step. *)
LEMMA LoopStepShrinks ==
  ASSUME LoopShape, LoopStep
  PROVE  \/ RequestsLeft' < RequestsLeft
         \/ RequestsLeft' = RequestsLeft /\ StepsLeft' < StepsLeft
PROOF
  <1>1. /\ budget \in Nat /\ iterations \in Nat /\ queue \in Seq(Sigs) /\ Len(queue) \in Nat
    BY DEF LoopShape, LoopTypeOK
  <1>2. CASE DispatchFails \/ FinalReply \/ ReplyWithCalls
    <2>1. budget' = budget /\ iterations' = iterations + 1
      BY <1>2 DEF DispatchFails, FinalReply, ReplyWithCalls
    <2> QED
      BY <1>1, <2>1 DEF RequestsLeft
  <1>3. CASE SuppressCall \/ \E o \in Outcomes: RunCall(o)
    <2>1. /\ at = "calls" /\ at' = "calls" /\ queue # <<>> /\ queue' = Tail(queue)
          /\ UNCHANGED <<budget, iterations>>
      BY <1>3 DEF SuppressCall, RunCall
    <2>2. Len(queue') = Len(queue) - 1
      BY <1>1, <2>1
    <2>3. StepsLeft = Len(queue) + 2 /\ StepsLeft' = Len(queue') + 2
      BY <2>1 DEF StepsLeft
    <2> QED
      BY <1>1, <2>1, <2>2, <2>3 DEF RequestsLeft
  <1>4. CASE EndBatch
    <2>1. /\ at = "calls" /\ at' \in {"ended", "dispatch"} /\ queue = <<>>
          /\ UNCHANGED <<budget, iterations>>
      BY <1>4 DEF EndBatch, End
    <2>2. StepsLeft = 2 /\ StepsLeft' \in {0, 1}
      BY <2>1 DEF StepsLeft
    <2> QED
      BY <2>1, <2>2 DEF RequestsLeft
  <1> QED
    BY <1>2, <1>3, <1>4 DEF LoopStep

LEMMA OrchShrinks == ASSUME OrchInv, OrchNext PROVE Shrinks
PROOF
  <1>1. attempt \in Nat /\ attempt <= MaxRecovery /\ MaxRecovery \in Nat
    BY OrchestratorAssumption DEF OrchInv, OrchTypeOK, WithinCap
  <1>2. CASE PassStep
    <2>1. PassesLeft' = PassesLeft
      BY <1>2 DEF PassStep, PassesLeft
    <2>2. \/ RequestsLeft' < RequestsLeft
          \/ RequestsLeft' = RequestsLeft /\ StepsLeft' < StepsLeft
      BY <1>2, LoopStepShrinks DEF PassStep, OrchInv
    <2> QED
      BY <2>1, <2>2 DEF Shrinks
  <1>3. CASE PassRaised \/ Deliver \/ HonestStop
    <2>1. /\ stage \in {"plan", "nudge", "execute", "recover"} /\ stage' = "done"
      BY <1>3 DEF PassRaised, Deliver, HonestStop, InTrouble, ExecutorEnded, OrchInv, OrchTypeOK
    <2>2. PassesLeft' = 0 /\ PassesLeft > 0
      BY <1>1, <2>1 DEF PassesLeft
    <2> QED
      BY <2>2 DEF Shrinks
  <1>4. CASE PlannerNudge
    <2>1. stage = "plan" /\ stage' = "nudge"
      BY <1>4 DEF PlannerNudge
    <2>2. PassesLeft = MaxRecovery + 3 /\ PassesLeft' = MaxRecovery + 2
      BY <2>1 DEF PassesLeft
    <2> QED
      BY <1>1, <2>2 DEF Shrinks
  <1>5. CASE PlannerDone
    <2>1. stage \in {"plan", "nudge"} /\ stage' = "execute" /\ attempt' = 0
      BY <1>5 DEF PlannerDone, OrchInv, WithinCap
    <2>2. PassesLeft >= MaxRecovery + 2 /\ PassesLeft' = MaxRecovery + 1
      BY <1>1, <2>1 DEF PassesLeft
    <2> QED
      BY <1>1, <2>1, <2>2 DEF Shrinks, PassesLeft
  <1>6. CASE Recover
    <2>1. stage \in {"execute", "recover"} /\ stage' = "recover" /\ attempt' = attempt + 1
      BY <1>6 DEF Recover, InTrouble, ExecutorEnded
    <2>2. PassesLeft = MaxRecovery + 1 - attempt /\ PassesLeft' = MaxRecovery + 1 - (attempt + 1)
      BY <2>1 DEF PassesLeft
    <2> QED
      BY <1>1, <2>2 DEF Shrinks
  <1> QED
    BY <1>2, <1>3, <1>4, <1>5, <1>6 DEF OrchNext

(* The cap on recovery, one nudge of the planner and the passes' budgets     *)
(* bound a turn: every step uses up passes, then requests, then steps, which *)
(* are never negative.  That a step is taken while one can be is fairness    *)
(* (orchestrator.py run_orchestrated_turn; recover.py decide_recovery).      *)
THEOREM TurnShrinks ==
  OrchSpec => /\ [](PassesLeft \in Nat /\ RequestsLeft \in Nat /\ StepsLeft \in Nat)
              /\ [][Shrinks]_orchVars
PROOF
  <1>1. OrchInv => PassesLeft \in Nat /\ RequestsLeft \in Nat /\ StepsLeft \in Nat
    <2> SUFFICES ASSUME OrchInv
                 PROVE  PassesLeft \in Nat /\ RequestsLeft \in Nat /\ StepsLeft \in Nat
      OBVIOUS
    <2>1. attempt \in Nat /\ attempt <= MaxRecovery /\ MaxRecovery \in Nat
      BY OrchestratorAssumption DEF OrchInv, OrchTypeOK, WithinCap
    <2>2. budget \in Nat /\ iterations \in 0..budget /\ Len(queue) \in Nat
      BY DEF OrchInv, LoopShape, LoopTypeOK
    <2>3. MaxRecovery + 3 \in Nat /\ MaxRecovery + 2 \in Nat /\ MaxRecovery + 1 - attempt \in Nat
      BY <2>1
    <2>4. PassesLeft \in Nat
      BY <2>3 DEF PassesLeft
    <2>5. RequestsLeft \in Nat
      BY <2>2 DEF RequestsLeft
    <2>6. StepsLeft \in Nat
      BY <2>2 DEF StepsLeft
    <2> QED
      BY <2>4, <2>5, <2>6
  <1>2. OrchInv /\ [OrchNext]_orchVars => [Shrinks]_orchVars
    BY OrchShrinks
  <1> QED
    BY <1>1, <1>2, OrchInvariance, PTL DEF OrchSpec
=============================================================================
