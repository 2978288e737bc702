-------------------------- MODULE TurnStreamProofs --------------------------
(* What a progress bubble may show, for any turns, sessions, tool calls and  *)
(* faults: it is never ahead of the turn log, a turn gets one footer at most *)
(* and no renderer outlives its connection or its turn.  The second part     *)
(* proves, from that invariant, what a finished bubble tells.                *)
EXTENDS TurnStream, SequenceTheorems, TLAPS

(* An open stream has not passed the end of the log. *)
StreamsFollow ==
  \A s \in Sessions: /\ stream[s].next >= 1
                     /\ stream[s].state = "open" => stream[s].next <= Len(log) + 1

(* A turn finishes once, and then it is over. *)
FinishesOnce ==
  \A t \in Turns: /\ \A i, j \in Logged(t, "finished"): i = j
                  /\ Logged(t, "finished") # {} => stage[t] = "over"

(* The rows are those of calls the log has outcomes of, or still running. *)
Told(t, rows) ==
  \A n \in DOMAIN rows: rows[n].done =>
    \E i \in Logged(t, "executed"): log[i].call = rows[n].call

RowsTold ==
  /\ \A s \in Sessions: \A t \in DOMAIN renderers[s]: Told(t, renderers[s][t].rows)
  /\ \A b \in DOMAIN bubbles: Told(bubbles[b].turn, bubbles[b].rows)

(* A renderer edits a bubble of its own turn. *)
OwnBubble ==
  \A s \in Sessions: \A t \in DOMAIN renderers[s]:
    renderers[s][t].bubble # 0 =>
      /\ renderers[s][t].bubble \in DOMAIN bubbles
      /\ bubbles[renderers[s][t].bubble].turn = t

(* A footer is of a turn_finished that the session's stream is past. *)
FooterPassed ==
  \A t \in Turns:
    /\ footers[t] <= 1
    /\ footers[t] # 0 =>
         \E i \in Logged(t, "finished"):
           stream[home[t]].state = "open" => i < stream[home[t]].next

StreamInv ==
  /\ LogTyped /\ BotTyped /\ StreamsFollow /\ FinishesOnce
  /\ RowsTold /\ OwnBubble /\ FooterPassed /\ RenderersAreLive

-----------------------------------------------------------------------------
(* Initially nothing is logged, followed or shown. *)
LEMMA StreamInit == Init => StreamInv
PROOF
  <1> SUFFICES ASSUME Init PROVE StreamInv
    OBVIOUS
  <1>1. log = <<>> /\ bubbles = <<>> /\ \A t \in Turns: \A kind: Logged(t, kind) = {}
    BY DEF Init, Logged
  <1>2. LogTyped
    BY TurnStreamAssumption DEF Init, LogTyped, Without, States
  <1>3. BotTyped /\ RowsTold /\ OwnBubble /\ RenderersAreLive
    BY <1>1 DEF Init, BotTyped, RowsTold, OwnBubble, RenderersAreLive, Nobody
  <1>4. StreamsFollow /\ FinishesOnce /\ FooterPassed
    BY <1>1 DEF Init, StreamsFollow, FinishesOnce, FooterPassed, Without
  <1> QED
    BY <1>2, <1>3, <1>4 DEF StreamInv

(* A new event leaves the others where they are. *)
LEMMA LogGrows ==
  ASSUME LogTyped, NEW e \in Events, log' = Append(log, e)
  PROVE  /\ log' \in Seq(Events) /\ Len(log') = Len(log) + 1 /\ Len(log) \in Nat
         /\ DOMAIN log' = DOMAIN log \union {Len(log) + 1}
         /\ \A i \in DOMAIN log: log'[i] = log[i] /\ i <= Len(log) /\ i \in Nat
         /\ log'[Len(log) + 1] = e
PROOF
  <1>1. log \in Seq(Events) /\ Len(log) \in Nat /\ DOMAIN log = 1..Len(log)
    BY DEF LogTyped
  <1>2. /\ log' \in Seq(Events) /\ Len(log') = Len(log) + 1
        /\ \A i \in 1..Len(log): log'[i] = log[i]
        /\ log'[Len(log) + 1] = e
    BY <1>1, AppendProperties
  <1>3. DOMAIN log' = 1..(Len(log) + 1)
    BY <1>1, <1>2
  <1> QED
    BY <1>1, <1>2, <1>3

(* What an emission does to the log, whether the write succeeds or not. *)
LEMMA Emitted ==
  ASSUME LogTyped, NEW t \in Turns, NEW kind \in {"plan", "planned", "executed", "finished"},
         NEW id \in Names, Emit(t, kind, id)
  PROVE  /\ log' \in Seq(Events) /\ Len(log') \in Nat /\ Len(log) \in Nat /\ Len(log) <= Len(log')
         /\ DOMAIN log \subseteq DOMAIN log'
         /\ \A i \in DOMAIN log: log'[i] = log[i] /\ i <= Len(log) /\ i \in Nat
         /\ \A i \in DOMAIN log' \ DOMAIN log:
              /\ i = Len(log) + 1
              /\ log'[i].turn = t /\ log'[i].kind = kind /\ log'[i].call = id
PROOF
  <1> DEFINE e == [turn |-> t, kind |-> kind, call |-> id]
  <1>1. e \in Events /\ e.turn = t /\ e.kind = kind /\ e.call = id
    BY DEF Events
  <1>2. log' = Append(log, e) \/ log' = log
    BY DEF Emit, Written
  <1> HIDE DEF e
  <1>3. CASE log' = Append(log, e)
    <2>1. /\ log' \in Seq(Events) /\ Len(log') = Len(log) + 1 /\ Len(log) \in Nat
          /\ DOMAIN log' = DOMAIN log \union {Len(log) + 1}
          /\ \A i \in DOMAIN log: log'[i] = log[i] /\ i <= Len(log) /\ i \in Nat
          /\ log'[Len(log) + 1] = e
      BY <1>1, <1>3, LogGrows
    <2> QED
      BY <1>1, <2>1
  <1>4. CASE log' = log
    <2>1. log \in Seq(Events) /\ Len(log) \in Nat /\ DOMAIN log = 1..Len(log)
      BY DEF LogTyped
    <2> QED
      BY <1>4, <2>1
  <1> QED
    BY <1>2, <1>3, <1>4

(* An emitted event keeps everything that is shown true; a turn that is not  *)
(* over may emit its end.                                                    *)
LEMMA EmitStep ==
  ASSUME StreamInv, NEW t \in Turns, NEW kind \in {"plan", "planned", "executed", "finished"},
         NEW id \in Names, Emit(t, kind, id), stage[t] # "over",
         stage' \in [Turns -> {"idle", "running", "calling", "planned", "executing", "over"}],
         \A u \in Turns: stage[u] = "over" => stage'[u] = "over",
         kind = "finished" => stage'[t] = "over",
         UNCHANGED <<home, stream, telegram>>, made' \in [Turns -> Nat]
  PROVE  StreamInv'
PROOF
  <1> USE DEF StreamInv
  <1>3. /\ log' \in Seq(Events) /\ Len(log') \in Nat /\ Len(log) \in Nat /\ Len(log) <= Len(log')
        /\ DOMAIN log \subseteq DOMAIN log'
        /\ \A i \in DOMAIN log: log'[i] = log[i] /\ i <= Len(log) /\ i \in Nat
        /\ \A i \in DOMAIN log' \ DOMAIN log:
             /\ i = Len(log) + 1
             /\ log'[i].turn = t /\ log'[i].kind = kind /\ log'[i].call = id
    BY Emitted
  <1>4. UNCHANGED <<renderers, bubbles, footers, home, stream>>
    BY DEF telegram
  <1>5. \A u \in Turns, k \in {"executed", "finished"}:
          /\ Logged(u, k) \subseteq Logged(u, k)'
          /\ \A i \in Logged(u, k)' \ Logged(u, k): i = Len(log) + 1 /\ u = t /\ k = kind
    BY <1>3 DEF Logged
  <1>6. LogTyped' /\ BotTyped'
    BY <1>3, <1>4 DEF LogTyped, BotTyped
  <1>7. StreamsFollow'
    <2>1. \A s \in Sessions: stream[s].next \in Nat
      BY DEF LogTyped
    <2> QED
      BY <1>3, <1>4, <2>1 DEF StreamsFollow
  <1>8. FinishesOnce'
    <2>1. Logged(t, "finished") = {}
      BY DEF FinishesOnce
    <2>2. ASSUME NEW u \in Turns
          PROVE  /\ \A i, j \in Logged(u, "finished")': i = j
                 /\ Logged(u, "finished")' # {} => stage'[u] = "over"
      <3>1. CASE u = t
        BY <1>5, <2>1, <3>1
      <3>2. CASE u # t
        BY <1>5, <3>2 DEF FinishesOnce
      <3> QED
        BY <3>1, <3>2
    <2> QED
      BY <2>2 DEF FinishesOnce
  <1>9. \A u \in Turns: \A rows \in Seq(Row): Told(u, rows) => Told(u, rows)'
    <2>1. \A u \in Turns: \A i \in Logged(u, "executed"):
            i \in Logged(u, "executed")' /\ log'[i].call = log[i].call
      BY <1>3, <1>5 DEF Logged
    <2> QED
      BY <2>1 DEF Told
  <1>10. RowsTold'
    <2>1. \A s \in Sessions: \A u \in DOMAIN renderers[s]:
            u \in Turns /\ renderers[s][u].rows \in Seq(Row)
      BY DEF BotTyped, Renderer
    <2>2. \A b \in DOMAIN bubbles: bubbles[b].turn \in Turns /\ bubbles[b].rows \in Seq(Row)
      <3>1. \A b \in DOMAIN bubbles: bubbles[b] \in BubbleSet
        BY DEF BotTyped
      <3> QED
        BY <3>1 DEF BubbleSet
    <2>3. \A s \in Sessions: \A u \in DOMAIN renderers[s]: Told(u, renderers[s][u].rows)'
      BY <1>4, <1>9, <2>1 DEF RowsTold, Told
    <2>4. ASSUME NEW b \in DOMAIN bubbles PROVE Told(bubbles[b].turn, bubbles[b].rows)'
      <3>1. PICK u \in Turns, rows \in Seq(Row): u = bubbles[b].turn /\ rows = bubbles[b].rows
        BY <2>2
      <3>2. Told(u, rows)'
        BY <1>9, <3>1 DEF RowsTold
      <3> QED
        BY <1>4, <3>1, <3>2 DEF Told
    <2> QED
      BY <1>4, <2>3, <2>4 DEF RowsTold
  <1>11. OwnBubble'
    BY <1>4 DEF OwnBubble
  <1>12. FooterPassed'
    BY <1>4, <1>5 DEF FooterPassed
  <1>13. RenderersAreLive'
    <2>1. \A s \in Sessions: \A u \in DOMAIN renderers[s]: u \in Turns /\ stream[s].next \in Nat
      BY DEF BotTyped, LogTyped
    <2> SUFFICES ASSUME NEW s \in Sessions, NEW u \in DOMAIN renderers[s],
                        NEW i \in Logged(u, "finished")', i < stream[s].next,
                        i >= renderers[s][u].from
                 PROVE  FALSE
      BY <1>4 DEF RenderersAreLive
    <2>2. CASE i \in Logged(u, "finished")
      BY <2>2 DEF RenderersAreLive
    <2>3. CASE i = Len(log) + 1
      BY <1>3, <2>1, <2>3 DEF RenderersAreLive, StreamsFollow
    <2> QED
      BY <1>5, <2>1, <2>2, <2>3
  <1> QED
    BY <1>6, <1>7, <1>8, <1>10, <1>11, <1>12, <1>13
-----------------------------------------------------------------------------
(* Steps that change neither the log nor what Telegram shows.                *)

(* A renderer table that loses entries, and a stream that opens at the end   *)
(* of the log, stays as it is, or closes and drops its renderers.            *)
LEMMA StreamStep ==
  ASSUME StreamInv, UNCHANGED <<home, log, bubbles, footers>>,
         made' \in [Turns -> Nat],
         stage' \in [Turns -> {"idle", "running", "calling", "planned", "executing", "over"}],
         \A t \in Turns: stage[t] = "over" => stage'[t] = "over",
         stream' \in [Sessions -> [state: States, next: Nat]],
         renderers' = [s \in Sessions |-> renderers'[s]],
         \A s \in Sessions:
           \/ stream'[s] = stream[s] /\ renderers'[s] = renderers[s]
           \/ stream'[s].state # "open" /\ DOMAIN renderers'[s] = {}
           \/ /\ stream[s].state # "open" /\ renderers'[s] = renderers[s]
              /\ stream'[s].next = Len(log) + 1,
         \A s \in Sessions: stream'[s].next >= 1
  PROVE  StreamInv'
PROOF
  <1> USE DEF StreamInv
  <1>1. log \in Seq(Events) /\ Len(log) \in Nat /\ DOMAIN log = 1..Len(log)
    BY DEF LogTyped
  <1>2. LogTyped'
    BY DEF LogTyped
  <1>3. \A s \in Sessions: renderers'[s] = renderers[s] \/ DOMAIN renderers'[s] = {}
    OBVIOUS
  <1>4. \A s \in Sessions: stream[s].state # "open" => DOMAIN renderers[s] = {}
    BY DEF RenderersAreLive
  <1>5. BotTyped'
    BY <1>3 DEF BotTyped
  <1>6. StreamsFollow'
    <2> SUFFICES ASSUME NEW s \in Sessions, stream'[s].state = "open"
                 PROVE  stream'[s].next <= Len(log) + 1
      BY DEF StreamsFollow
    <2>1. CASE stream'[s] = stream[s]
      BY <2>1 DEF StreamsFollow
    <2>2. CASE stream'[s].next = Len(log) + 1
      BY <1>1, <2>2
    <2> QED
      BY <2>1, <2>2
  <1>7. \A t \in Turns, k \in {"executed", "finished"}: Logged(t, k)' = Logged(t, k)
    BY DEF Logged
  <1>8. FinishesOnce'
    BY <1>7 DEF FinishesOnce
  <1>9. RowsTold'
    <2>1. \A s \in Sessions: \A t \in DOMAIN renderers'[s]:
            t \in Turns /\ Told(t, renderers'[s][t].rows)
      BY <1>3 DEF RowsTold, BotTyped
    <2>2. \A b \in DOMAIN bubbles: Told(bubbles[b].turn, bubbles[b].rows)
      BY DEF RowsTold
    <2> QED
      BY <1>7, <2>1, <2>2 DEF RowsTold, Told, Logged
  <1>10. OwnBubble'
    BY <1>3 DEF OwnBubble
  <1>11. FooterPassed'
    <2> SUFFICES ASSUME NEW t \in Turns, footers[t] # 0
                 PROVE  \E i \in Logged(t, "finished"):
                          stream'[home[t]].state = "open" => i < stream'[home[t]].next
      BY <1>7 DEF FooterPassed
    <2>1. PICK i \in Logged(t, "finished"):
            stream[home[t]].state = "open" => i < stream[home[t]].next
      BY DEF FooterPassed
    <2>2. i \in 1..Len(log) /\ home[t] \in Sessions
      BY <1>1 DEF Logged, LogTyped
    <2>3. PICK s \in Sessions: s = home[t]
      BY <2>2
    <2>4. ASSUME stream'[s].state = "open" PROVE i < stream'[s].next
      <3>1. CASE stream'[s] = stream[s]
        BY <2>1, <2>3, <2>4, <3>1
      <3>2. CASE stream'[s].next = Len(log) + 1
        BY <1>1, <2>2, <3>2
      <3> QED
        BY <2>4, <3>1, <3>2
    <2> QED
      BY <2>3, <2>4
  <1>12. RenderersAreLive'
    <2> SUFFICES ASSUME NEW s \in Sessions, NEW t \in DOMAIN renderers'[s]
                 PROVE  /\ home[t] = s /\ stream'[s].state = "open"
                        /\ ~\E i \in Logged(t, "finished")':
                             i < stream'[s].next /\ i >= renderers'[s][t].from
      BY DEF RenderersAreLive
    <2>1. stream'[s] = stream[s] /\ renderers'[s] = renderers[s]
      BY <1>4
    <2>2. t \in Turns
      BY <2>1 DEF BotTyped
    <2> QED
      BY <1>7, <2>1, <2>2 DEF RenderersAreLive
  <1> QED
    BY <1>2, <1>5, <1>6, <1>8, <1>9, <1>10, <1>11, <1>12

-----------------------------------------------------------------------------
(* One event in the bot.                                                     *)

(* The rows after an event: typed, and new ones that are done are of an      *)
(* outcome (_on_tool_call_planned, _on_tool_call_executed).                  *)
LEMMA RowsAfterEvent ==
  ASSUME NEW r \in Renderer, NEW e \in Events
  PROVE  /\ RowsAfter(r, e) \in Seq(Row)
         /\ \A n \in DOMAIN RowsAfter(r, e): RowsAfter(r, e)[n].done =>
              \/ n \in DOMAIN r.rows /\ RowsAfter(r, e)[n] = r.rows[n]
              \/ e.kind = "executed" /\ RowsAfter(r, e)[n].call = e.call
PROOF
  <1>1. /\ r.rows \in Seq(Row) /\ Len(r.rows) \in Nat /\ DOMAIN r.rows = 1..Len(r.rows)
        /\ e.call \in Names
    BY DEF Renderer, Events
  <1>2. /\ Running(e.call) \in Row /\ ~Running(e.call).done
        /\ Settled(e.call) \in Row /\ Settled(e.call).call = e.call
    BY <1>1 DEF Running, Settled, Row
  <1>3. ASSUME NEW new \in Row
        PROVE  /\ Append(r.rows, new) \in Seq(Row)
               /\ DOMAIN Append(r.rows, new) = DOMAIN r.rows \union {Len(r.rows) + 1}
               /\ \A n \in DOMAIN r.rows: Append(r.rows, new)[n] = r.rows[n]
               /\ Append(r.rows, new)[Len(r.rows) + 1] = new
    <2>1. /\ Append(r.rows, new) \in Seq(Row) /\ Len(Append(r.rows, new)) = Len(r.rows) + 1
          /\ \A n \in 1..Len(r.rows): Append(r.rows, new)[n] = r.rows[n]
          /\ Append(r.rows, new)[Len(r.rows) + 1] = new
      BY <1>1, AppendProperties
    <2> QED
      BY <1>1, <2>1
  <1>4. CASE e.kind = "planned"
    BY <1>2, <1>3, <1>4 DEF RowsAfter
  <1>5. CASE e.kind = "executed"
    <2> DEFINE i == First(RowsOf(r.rows, e.call))
               set == [r.rows EXCEPT ![i] = Settled(e.call)]
    <2>1. RowsAfter(r, e) = Settle(r.rows, e.call)
      BY <1>5 DEF RowsAfter
    <2>2. RowsAfter(r, e) = set \/ RowsAfter(r, e) = Append(r.rows, Settled(e.call))
      BY <2>1 DEF Settle
    <2> HIDE DEF i
    <2>3. /\ set \in Seq(Row) /\ DOMAIN set = DOMAIN r.rows
          /\ \A n \in DOMAIN r.rows: set[n] \in {r.rows[n], Settled(e.call)}
      <3>1. CASE i \in 1..Len(r.rows)
        <4>1. /\ set \in Seq(Row) /\ Len(set) = Len(r.rows)
              /\ \A n \in 1..Len(r.rows): set[n] = IF n = i THEN Settled(e.call) ELSE r.rows[n]
          BY <1>1, <1>2, <3>1, ExceptSeq
        <4> QED
          BY <1>1, <4>1
      <3>2. CASE i \notin 1..Len(r.rows)
        <4>1. DOMAIN set = 1..Len(r.rows) /\ \A n \in 1..Len(r.rows): set[n] = r.rows[n]
          BY <1>1, <3>2
        <4>2. set = r.rows
          BY <1>1, <4>1
        <4> QED
          BY <1>1, <4>2
      <3> QED
        BY <3>1, <3>2
    <2> HIDE DEF set
    <2>4. CASE RowsAfter(r, e) = set
      BY <1>2, <1>5, <2>3, <2>4
    <2>5. CASE RowsAfter(r, e) = Append(r.rows, Settled(e.call))
      BY <1>2, <1>3, <1>5, <2>5
    <2> QED
      BY <2>2, <2>4, <2>5
  <1>6. CASE e.kind \notin {"planned", "executed"}
    BY <1>1, <1>6 DEF RowsAfter
  <1> QED
    BY <1>4, <1>5, <1>6
(* What the bot does to a bubble: nothing, a post, or an edit of its own.    *)
Edit(b, rows, cut) == [b EXCEPT !.rows = rows, !.cut = cut]
Seal(b, rows, cut) == [b EXCEPT !.rows = rows, !.cut = cut, !.sealed = TRUE]

BubbleStep(t, r, rows) ==
  \/ bubbles' = bubbles
  \/ \E cut \in Cuts(rows):
       \/ bubbles' = Append(bubbles, Bubble(t, r, rows, cut))
       \/ /\ r.bubble # 0
          /\ \/ bubbles' = [bubbles EXCEPT ![r.bubble] = Edit(@, rows, cut)]
             \/ bubbles' = [bubbles EXCEPT ![r.bubble] = Seal(@, rows, cut)]

(* How much of the rows is cut is a number of them. *)
LEMMA CutsNumbers == ASSUME NEW rows \in Seq(Row) PROVE Cuts(rows) \subseteq Nat
PROOF
  BY DEF Cuts

(* A bubble of some rows, and an edit of one, is a bubble. *)
LEMMA BubblesMade ==
  ASSUME NEW t \in Turns, NEW r \in Renderer, NEW rows \in Seq(Row), NEW cut \in Cuts(rows),
         NEW b \in BubbleSet
  PROVE  /\ Bubble(t, r, rows, cut) \in BubbleSet /\ Bubble(t, r, rows, cut).turn = t
         /\ Bubble(t, r, rows, cut).rows = rows /\ Bubble(t, r, rows, cut).from = r.from
         /\ ~Bubble(t, r, rows, cut).sealed
         /\ \A x \in {Edit(b, rows, cut), Seal(b, rows, cut)}:
              x \in BubbleSet /\ x.turn = b.turn /\ x.from = b.from /\ x.rows = rows
         /\ Edit(b, rows, cut).sealed = b.sealed /\ Seal(b, rows, cut).sealed
PROOF
  <1>1. cut \in Nat
    BY CutsNumbers
  <1>2. /\ Bubble(t, r, rows, cut) \in BubbleSet /\ Bubble(t, r, rows, cut).turn = t
        /\ Bubble(t, r, rows, cut).rows = rows /\ Bubble(t, r, rows, cut).from = r.from
        /\ ~Bubble(t, r, rows, cut).sealed
    BY <1>1 DEF Bubble, BubbleSet, Renderer
  <1>3. /\ Edit(b, rows, cut) \in BubbleSet /\ Edit(b, rows, cut).turn = b.turn
        /\ Edit(b, rows, cut).from = b.from /\ Edit(b, rows, cut).rows = rows
        /\ Edit(b, rows, cut).sealed = b.sealed
    BY <1>1 DEF Edit, BubbleSet
  <1>4. /\ Seal(b, rows, cut) \in BubbleSet /\ Seal(b, rows, cut).turn = b.turn
        /\ Seal(b, rows, cut).from = b.from /\ Seal(b, rows, cut).rows = rows
        /\ Seal(b, rows, cut).sealed
    BY <1>1 DEF Seal, BubbleSet
  <1> QED
    BY <1>2, <1>3, <1>4

Owned(t, b) == b # 0 => b \in DOMAIN bubbles /\ bubbles[b].turn = t

(* Bubbles stay where they are and of their turn; rows that change are rows  *)
(* of the turn whose event it is.                                            *)
LEMMA BubblesKept ==
  ASSUME BotTyped, NEW t \in Turns, NEW r \in Renderer, NEW rows \in Seq(Row),
         Owned(t, r.bubble), BubbleStep(t, r, rows)
  PROVE  /\ bubbles' \in Seq(BubbleSet) /\ DOMAIN bubbles \subseteq DOMAIN bubbles'
         /\ \A b \in DOMAIN bubbles: /\ bubbles'[b].turn = bubbles[b].turn
                                     /\ \/ bubbles'[b].rows = bubbles[b].rows
                                        \/ bubbles[b].turn = t /\ bubbles'[b].rows = rows
         /\ \A b \in DOMAIN bubbles' \ DOMAIN bubbles:
              bubbles'[b].turn = t /\ bubbles'[b].rows = rows
PROOF
  <1>1. bubbles \in Seq(BubbleSet) /\ Len(bubbles) \in Nat /\ DOMAIN bubbles = 1..Len(bubbles)
    BY DEF BotTyped
  <1>2. ASSUME NEW new \in BubbleSet, new.turn = t, new.rows = rows,
               \/ bubbles' = Append(bubbles, new)
               \/ r.bubble # 0 /\ bubbles' = [bubbles EXCEPT ![r.bubble] = new]
        PROVE  /\ bubbles' \in Seq(BubbleSet) /\ DOMAIN bubbles \subseteq DOMAIN bubbles'
               /\ \A b \in DOMAIN bubbles: bubbles'[b] = bubbles[b] \/
                    (bubbles[b].turn = t /\ bubbles'[b] = new)
               /\ \A b \in DOMAIN bubbles' \ DOMAIN bubbles: bubbles'[b] = new
    <2>1. CASE bubbles' = Append(bubbles, new)
      <3>1. /\ bubbles' \in Seq(BubbleSet) /\ Len(bubbles') = Len(bubbles) + 1
            /\ \A b \in 1..Len(bubbles): bubbles'[b] = bubbles[b]
            /\ bubbles'[Len(bubbles) + 1] = new
        BY <1>1, <1>2, <2>1, AppendProperties
      <3>2. DOMAIN bubbles' = 1..(Len(bubbles) + 1)
        BY <1>1, <3>1
      <3> QED
        BY <1>1, <3>1, <3>2
    <2>2. CASE r.bubble # 0 /\ bubbles' = [bubbles EXCEPT ![r.bubble] = new]
      <3>1. r.bubble \in 1..Len(bubbles) /\ bubbles[r.bubble].turn = t
        BY <1>1, <2>2 DEF Owned
      <3>2. /\ [bubbles EXCEPT ![r.bubble] = new] \in Seq(BubbleSet)
            /\ Len([bubbles EXCEPT ![r.bubble] = new]) = Len(bubbles)
            /\ \A b \in 1..Len(bubbles): [bubbles EXCEPT ![r.bubble] = new][b] =
                 IF b = r.bubble THEN new ELSE bubbles[b]
        BY <1>1, <1>2, <3>1, ExceptSeq
      <3> QED
        BY <1>1, <2>2, <3>1, <3>2
    <2> QED
      BY <1>2, <2>1, <2>2
  <1>3. CASE bubbles' = bubbles
    BY <1>1, <1>3
  <1>4. ASSUME NEW cut \in Cuts(rows), bubbles' = Append(bubbles, Bubble(t, r, rows, cut))
        PROVE  \E new \in BubbleSet: /\ new.turn = t /\ new.rows = rows
                                     /\ bubbles' = Append(bubbles, new)
    <2>1. /\ Bubble(t, r, rows, cut) \in BubbleSet
          /\ Bubble(t, r, rows, cut).turn = t /\ Bubble(t, r, rows, cut).rows = rows
      BY CutsNumbers DEF Bubble, BubbleSet, Renderer
    <2> QED
      BY <1>4, <2>1
  <1>5. ASSUME NEW cut \in Cuts(rows), r.bubble # 0,
               \/ bubbles' = [bubbles EXCEPT ![r.bubble] = Edit(@, rows, cut)]
               \/ bubbles' = [bubbles EXCEPT ![r.bubble] = Seal(@, rows, cut)]
        PROVE  \E new \in BubbleSet: /\ new.turn = t /\ new.rows = rows
                                     /\ bubbles' = [bubbles EXCEPT ![r.bubble] = new]
    <2>1. bubbles[r.bubble] \in BubbleSet /\ r.bubble \in DOMAIN bubbles
          /\ bubbles[r.bubble].turn = t
      BY <1>1, <1>5 DEF Owned
    <2>2. PICK new \in {Edit(bubbles[r.bubble], rows, cut), Seal(bubbles[r.bubble], rows, cut)}:
            bubbles' = [bubbles EXCEPT ![r.bubble] = new]
      BY <1>5, <2>1
    <2>3. new \in BubbleSet /\ new.turn = t /\ new.rows = rows
      BY <2>1, <2>2, BubblesMade
    <2> QED
      BY <2>2, <2>3
  <1> QED
    BY <1>2, <1>3, <1>4, <1>5 DEF BubbleStep

Kept(s, t) ==
  IF t \in DOMAIN renderers[s] THEN renderers[s][t] ELSE NewRenderer(stream[s].next)

(* The renderer an event is handed to: of its turn, and not past its end. *)
LEMMA RendererGiven ==
  ASSUME StreamInv, NEW s \in Sessions, NEW t \in Turns
  PROVE  /\ Kept(s, t) \in Renderer
         /\ Owned(t, Kept(s, t).bubble) /\ Told(t, Kept(s, t).rows)
         /\ ~\E i \in Logged(t, "finished"): i < stream[s].next /\ i >= Kept(s, t).from
PROOF
  <1> USE DEF StreamInv
  <1>1. stream[s].next \in Nat /\ Logged(t, "finished") \subseteq Nat
    BY DEF LogTyped, Logged
  <1>2. CASE t \in DOMAIN renderers[s]
    BY <1>1, <1>2 DEF Kept, BotTyped, RowsTold, OwnBubble, Owned, RenderersAreLive
  <1>3. CASE t \notin DOMAIN renderers[s]
    <2>1. Kept(s, t) = NewRenderer(stream[s].next)
      BY <1>3 DEF Kept
    <2>2. /\ NewRenderer(stream[s].next) \in Renderer
          /\ NewRenderer(stream[s].next).from = stream[s].next
          /\ NewRenderer(stream[s].next).bubble = 0
          /\ NewRenderer(stream[s].next).rows = <<>>
      BY <1>1 DEF NewRenderer, Renderer
    <2> QED
      BY <1>1, <2>1, <2>2 DEF Owned, Told
  <1> QED
    BY <1>2, <1>3
-----------------------------------------------------------------------------
(* A table after event i: other turns keep their renderers, the event's turn *)
(* has one that tells what is logged, or none.                               *)
TableAfter(s, i, table) ==
  /\ DOMAIN table \subseteq DOMAIN renderers[s] \union {log[i].turn}
  /\ \A u \in DOMAIN table: u # log[i].turn => table[u] = renderers[s][u]
  /\ log[i].turn \in DOMAIN table =>
       /\ home[log[i].turn] = s /\ log[i].kind # "finished"
       /\ table[log[i].turn] \in Renderer
       /\ Told(log[i].turn, table[log[i].turn].rows)
       /\ ~\E j \in Logged(log[i].turn, "finished"):
            j < i /\ j >= table[log[i].turn].from

(* Its renderer's bubble is among the bubbles afterwards, and of its turn. *)
EditsOwn(i, table) ==
  log[i].turn \in DOMAIN table /\ table[log[i].turn].bubble # 0 =>
    /\ table[log[i].turn].bubble \in DOMAIN bubbles'
    /\ bubbles'[table[log[i].turn].bubble].turn = log[i].turn

(* Bubbles keep their places and turns, and tell what is logged. *)
BubblesTell ==
  /\ bubbles' \in Seq(BubbleSet) /\ DOMAIN bubbles \subseteq DOMAIN bubbles'
  /\ \A b \in DOMAIN bubbles: bubbles'[b].turn = bubbles[b].turn
  /\ \A b \in DOMAIN bubbles': Told(bubbles'[b].turn, bubbles'[b].rows)

FooterAfter(s, i) ==
  \/ footers' = footers
  \/ /\ log[i].kind = "finished" /\ home[log[i].turn] = s
     /\ footers' = [footers EXCEPT ![log[i].turn] = @ + 1]

(* The stream moves past event i; the bot may show rows, drop a renderer at  *)
(* the end of its turn, and post its footer then.                            *)
LEMMA PastEvent ==
  ASSUME StreamInv, NEW s \in Sessions, NEW i \in DOMAIN log,
         stream[s].state = "open", i = stream[s].next,
         stream' = [stream EXCEPT ![s].next = i + 1],
         UNCHANGED gateway,
         NEW table, renderers' = [renderers EXCEPT ![s] = table],
         TableAfter(s, i, table), EditsOwn(i, table), BubblesTell, FooterAfter(s, i)
  PROVE  StreamInv'
PROOF
  <1> USE DEF StreamInv
  <1> DEFINE t == log[i].turn
  <1>1. /\ log \in Seq(Events) /\ Len(log) \in Nat /\ DOMAIN log = 1..Len(log)
        /\ log[i] \in Events /\ i \in Nat /\ i <= Len(log)
    BY DEF LogTyped
  <1>2. t \in Turns
    BY <1>1 DEF Events
  <1>3. /\ stream' \in [Sessions -> [state: States, next: Nat]]
        /\ stream'[s].state = "open" /\ stream'[s].next = i + 1
        /\ \A u \in Sessions: u # s => stream'[u] = stream[u]
    <2>1. stream \in [Sessions -> [state: States, next: Nat]] /\ i + 1 \in Nat
      BY <1>1 DEF LogTyped
    <2> QED
      BY <2>1
  <1>4. UNCHANGED <<stage, home, made, log>>
    BY DEF gateway
  <1>5. \A u \in Turns, k \in {"executed", "finished"}:
          /\ Logged(u, k)' = Logged(u, k)
          /\ \A j \in Logged(u, k): j \in Nat /\ log[j].turn = u
    BY <1>1, <1>4 DEF Logged
  <1>6. /\ renderers' = [u \in Sessions |-> renderers'[u]]
        /\ renderers'[s] = table
        /\ \A u \in Sessions: u # s => renderers'[u] = renderers[u]
    BY DEF BotTyped
  <1>7. LogTyped'
    BY <1>3, <1>4 DEF LogTyped
  <1>8. BotTyped'
    <2>1. footers' \in [Turns -> Nat]
      BY <1>2 DEF BotTyped, FooterAfter
    <2>2. /\ DOMAIN table \subseteq Turns
          /\ \A u \in DOMAIN table: table[u] \in Renderer
      BY <1>2 DEF BotTyped, TableAfter
    <2>3. \A u \in Sessions: /\ DOMAIN renderers'[u] \subseteq Turns
                             /\ \A v \in DOMAIN renderers'[u]: renderers'[u][v] \in Renderer
      BY <1>6, <2>2 DEF BotTyped
    <2> QED
      BY <1>6, <2>1, <2>3 DEF BotTyped, BubblesTell
  <1>9. StreamsFollow'
    BY <1>1, <1>3, <1>4 DEF StreamsFollow
  <1>10. FinishesOnce'
    BY <1>4, <1>5 DEF FinishesOnce
  <1>11. RowsTold'
    <2>1. \A u \in Sessions: \A v \in DOMAIN renderers'[u]: Told(v, renderers'[u][v].rows)
      BY <1>6 DEF RowsTold, TableAfter
    <2> QED
      BY <1>4, <2>1 DEF RowsTold, Told, Logged, BubblesTell
  <1>12. OwnBubble'
    <2> SUFFICES ASSUME NEW u \in Sessions, NEW v \in DOMAIN renderers'[u],
                        renderers'[u][v].bubble # 0
                 PROVE  /\ renderers'[u][v].bubble \in DOMAIN bubbles'
                        /\ bubbles'[renderers'[u][v].bubble].turn = v
      BY DEF OwnBubble
    <2>1. CASE u = s /\ v = t
      <3>1. t \in DOMAIN table /\ renderers'[u][v] = table[t]
        BY <1>6, <2>1
      <3> QED
        BY <2>1, <3>1 DEF EditsOwn
    <2>2. CASE u # s \/ v # t
      <3>1. v \in DOMAIN renderers[u] /\ renderers'[u][v] = renderers[u][v]
        BY <1>6, <2>2 DEF TableAfter
      <3> QED
        BY <3>1 DEF OwnBubble, BubblesTell
    <2> QED
      BY <2>1, <2>2
  <1>13. FooterPassed'
    <2> SUFFICES ASSUME NEW u \in Turns
                 PROVE  /\ footers'[u] <= 1
                        /\ footers'[u] # 0 =>
                             \E j \in Logged(u, "finished"):
                               stream'[home[u]].state = "open" => j < stream'[home[u]].next
      BY <1>4, <1>5 DEF FooterPassed
    <2>1. home[u] \in Sessions /\ footers[u] \in Nat
      BY DEF LogTyped, BotTyped
    <2>2. CASE footers'[u] = footers[u]
      <3>1. ASSUME NEW j \in Logged(u, "finished"),
                   stream[home[u]].state = "open" => j < stream[home[u]].next,
                   stream'[home[u]].state = "open"
            PROVE  j < stream'[home[u]].next
        <4>1. CASE home[u] = s
          BY <1>1, <1>3, <1>5, <3>1, <4>1
        <4>2. CASE home[u] # s
          BY <1>3, <2>1, <3>1, <4>2
        <4> QED
          BY <4>1, <4>2
      <3> QED
        BY <2>2, <3>1 DEF FooterPassed
    <2>3. CASE footers'[u] # footers[u]
      <3>1. /\ u = t /\ log[i].kind = "finished" /\ home[u] = s
            /\ footers'[u] = footers[u] + 1
        BY <1>2, <2>3 DEF BotTyped, FooterAfter
      <3>2. i \in Logged(u, "finished")
        BY <3>1 DEF Logged
      <3>3. footers[u] = 0
        <4>1. \A j \in Logged(u, "finished"): j = i
          BY <3>2 DEF FinishesOnce
        <4> QED
          BY <1>1, <3>1, <4>1 DEF FooterPassed
      <3> QED
        BY <1>1, <1>3, <3>1, <3>2, <3>3
    <2> QED
      BY <2>2, <2>3
  <1>14. RenderersAreLive'
    <2> SUFFICES ASSUME NEW u \in Sessions, NEW v \in DOMAIN renderers'[u]
                 PROVE  /\ home[v] = u /\ stream'[u].state = "open"
                        /\ ~\E j \in Logged(v, "finished")':
                             j < stream'[u].next /\ j >= renderers'[u][v].from
      BY <1>4 DEF RenderersAreLive
    <2>1. v \in Turns
      BY <1>8 DEF BotTyped
    <2>2. CASE u # s
      BY <1>3, <1>5, <1>6, <2>1, <2>2 DEF RenderersAreLive
    <2>3. CASE u = s /\ v # t
      <3>1. /\ v \in DOMAIN renderers[s] /\ renderers'[s][v] = renderers[s][v] /\ home[v] = s
            /\ ~\E j \in Logged(v, "finished"): j < i /\ j >= renderers[s][v].from
        BY <1>6, <2>3 DEF RenderersAreLive, TableAfter
      <3>2. \A j \in Logged(v, "finished"): j # i /\ j \in Nat
        BY <1>5, <2>1, <2>3
      <3> QED
        BY <1>1, <1>3, <1>5, <2>1, <2>3, <3>1, <3>2
    <2>4. CASE u = s /\ v = t
      <3>1. /\ renderers'[s][v] = table[t] /\ home[v] = s /\ log[i].kind # "finished"
            /\ ~\E j \in Logged(v, "finished"): j < i /\ j >= table[t].from
        BY <1>6, <2>4 DEF TableAfter
      <3>2. \A j \in Logged(v, "finished"): j # i /\ j \in Nat
        BY <1>5, <2>1, <3>1 DEF Logged
      <3>3. \A j \in Logged(v, "finished"): ~(j < i + 1 /\ j >= table[t].from)
        <4>1. ASSUME NEW j \in Nat, j # i, j < i + 1 PROVE j < i
          BY <1>1, <4>1
        <4> QED
          BY <3>1, <3>2, <4>1
      <3>4. Logged(v, "finished")' = Logged(v, "finished")
        BY <1>5, <2>1
      <3> QED
        BY <1>3, <2>4, <3>1, <3>3, <3>4
    <2> QED
      BY <2>2, <2>3, <2>4
  <1> QED
    BY <1>7, <1>8, <1>9, <1>10, <1>11, <1>12, <1>13, <1>14

(* A delivery: passed over, handled before the end, or the end of a turn. *)
LEMMA DeliverStep ==
  ASSUME StreamInv, NEW s \in Sessions, NEW sent, NEW footed, Deliver(s, sent, footed)
  PROVE  StreamInv'
PROOF
  <1> USE DEF StreamInv
  <1> DEFINE i == stream[s].next
             t == log[i].turn
             r == Kept(s, t)
  <1>1. /\ i \in DOMAIN log /\ log[i] \in Events /\ t \in Turns
        /\ stream[s].state = "open" /\ i \in Nat
    <2>1. log \in Seq(Events) /\ i \in Nat /\ 1 <= i /\ i <= Len(log) /\ stream[s].state = "open"
      BY DEF Deliver, LogTyped, StreamsFollow
    <2>2. log[i] \in Events /\ i \in DOMAIN log
      BY <2>1
    <2> QED
      BY <2>1, <2>2 DEF Events
  <1>2. stream' = [stream EXCEPT ![s].next = i + 1] /\ UNCHANGED gateway
    BY DEF Deliver
  <1>3. /\ \A b \in DOMAIN bubbles: /\ bubbles[b].turn \in Turns
                                   /\ Told(bubbles[b].turn, bubbles[b].rows)
        /\ bubbles \in Seq(BubbleSet)
        /\ renderers = [u \in Sessions |-> renderers[u]]
    <2>1. \A b \in DOMAIN bubbles: bubbles[b] \in BubbleSet
      BY DEF BotTyped
    <2> QED
      BY <2>1 DEF BotTyped, RowsTold, BubbleSet
  <1>4. /\ r \in Renderer /\ Owned(t, r.bubble) /\ Told(t, r.rows)
        /\ ~\E j \in Logged(t, "finished"): j < i /\ j >= r.from
    BY <1>1, RendererGiven
  <1>5. CASE home[t] # s
    <2>1. UNCHANGED telegram
      BY <1>5 DEF Deliver
    <2>2. /\ renderers' = [renderers EXCEPT ![s] = renderers[s]]
          /\ footers' = footers /\ bubbles' = bubbles
      BY <1>3, <2>1 DEF telegram
    <2>3. t \notin DOMAIN renderers[s]
      BY <1>5 DEF RenderersAreLive
    <2>4. /\ TableAfter(s, i, renderers[s]) /\ EditsOwn(i, renderers[s])
          /\ BubblesTell /\ FooterAfter(s, i)
      BY <1>3, <2>2, <2>3 DEF TableAfter, EditsOwn, BubblesTell, FooterAfter
    <2> QED
      BY <1>1, <1>2, <2>2, <2>4, PastEvent
  <1>6. ASSUME home[t] = s, log[i].kind # "finished" PROVE StreamInv'
    <2> DEFINE rows == RowsAfter(r, log[i])
    <2>1. HandleUnfinished(s, t, r, log[i], sent)
      BY <1>6 DEF Deliver, Dispatch, Kept
    <2>2. /\ rows \in Seq(Row)
          /\ \A n \in DOMAIN rows: rows[n].done =>
               \/ n \in DOMAIN r.rows /\ rows[n] = r.rows[n]
               \/ log[i].kind = "executed" /\ rows[n].call = log[i].call
      BY <1>1, <1>4, RowsAfterEvent
    <2>3. Told(t, rows)
      <3>1. log[i].kind = "executed" => i \in Logged(t, "executed")
        BY <1>1 DEF Logged
      <3> HIDE DEF rows
      <3> QED
        BY <1>4, <2>2, <3>1 DEF Told
    <2>4. Len(bubbles) \in Nat /\ DOMAIN bubbles = 1..Len(bubbles)
      BY <1>3
    <2>5. BubbleStep(t, r, rows) /\ footers' = footers
      BY <2>1 DEF HandleUnfinished, BubbleStep, EditsBubble, Edit
    <2>6. PICK nb \in Nat:
            /\ renderers' = [renderers EXCEPT ![s] =
                 With(renderers[s], t, [r EXCEPT !.rows = rows, !.bubble = nb])]
            /\ \/ nb = r.bubble
               \/ /\ nb = Len(bubbles) + 1
                  /\ \E cut \in Cuts(rows): bubbles' = Append(bubbles, Bubble(t, r, rows, cut))
      <3>1. r.bubble \in Nat /\ [r EXCEPT !.rows = rows].bubble = r.bubble
        BY <1>4 DEF Renderer
      <3>2. CASE PostsBubble(r, log[i]) /\ sent
        <4>1. /\ \E cut \in Cuts(rows): bubbles' = Append(bubbles, Bubble(t, r, rows, cut))
              /\ renderers' = [renderers EXCEPT ![s] =
                   With(renderers[s], t, [r EXCEPT !.rows = rows, !.bubble = Len(bubbles) + 1])]
          BY <1>3, <2>1, <3>2 DEF HandleUnfinished
        <4>2. Len(bubbles) + 1 \in Nat
          BY <2>4
        <4> HIDE DEF rows, r
        <4> QED
          BY <4>1, <4>2
      <3>3. CASE ~(PostsBubble(r, log[i]) /\ sent)
        BY <2>1, <3>1, <3>3 DEF HandleUnfinished
      <3> QED
        BY <3>2, <3>3
    <2> HIDE DEF rows
    <2> DEFINE nr == [r EXCEPT !.rows = rows, !.bubble = nb]
               table == With(renderers[s], t, nr)
    <2>7. /\ bubbles' \in Seq(BubbleSet) /\ DOMAIN bubbles \subseteq DOMAIN bubbles'
          /\ \A b \in DOMAIN bubbles: /\ bubbles'[b].turn = bubbles[b].turn
                                      /\ \/ bubbles'[b].rows = bubbles[b].rows
                                         \/ bubbles[b].turn = t /\ bubbles'[b].rows = rows
          /\ \A b \in DOMAIN bubbles' \ DOMAIN bubbles:
               bubbles'[b].turn = t /\ bubbles'[b].rows = rows
      BY <1>1, <1>4, <2>2, <2>5, BubblesKept
    <2>8. nr \in Renderer /\ nr.from = r.from /\ nr.rows = rows /\ nr.bubble = nb
      BY <1>4, <2>2 DEF Renderer
    <2> HIDE DEF nr
    <2>9. nb # 0 => nb \in DOMAIN bubbles' /\ bubbles'[nb].turn = t
      <3>1. ASSUME nb = Len(bubbles) + 1, NEW cut \in Cuts(rows),
                   bubbles' = Append(bubbles, Bubble(t, r, rows, cut))
            PROVE  nb \in DOMAIN bubbles' /\ bubbles'[nb].turn = t
        <4>1. Bubble(t, r, rows, cut) \in BubbleSet
          BY <1>1, <1>4, <2>2, <3>1, CutsNumbers DEF Bubble, BubbleSet, Renderer
        <4>2. Len(bubbles') = Len(bubbles) + 1
          BY <1>3, <3>1, <4>1, AppendProperties
        <4>3. nb \in DOMAIN bubbles' \ DOMAIN bubbles
          BY <2>4, <2>7, <3>1, <4>2
        <4> QED
          BY <2>7, <4>3
      <3>2. CASE nb = r.bubble
        BY <1>4, <2>7, <3>2 DEF Owned
      <3> QED
        BY <2>6, <3>1, <3>2
    <2>10. /\ DOMAIN table = DOMAIN renderers[s] \union {t} /\ table[t] = nr
           /\ \A u \in DOMAIN table: u # t => table[u] = renderers[s][u]
      BY DEF With
    <2>11. renderers' = [renderers EXCEPT ![s] = table]
      BY <2>6 DEF nr
    <2> HIDE DEF table
    <2>12. TableAfter(s, i, table)
      BY <1>4, <1>6, <2>3, <2>8, <2>10 DEF TableAfter
    <2>13. EditsOwn(i, table)
      BY <2>8, <2>9, <2>10 DEF EditsOwn
    <2>14. BubblesTell /\ FooterAfter(s, i)
      BY <1>3, <2>3, <2>5, <2>7 DEF BubblesTell, FooterAfter
    <2> QED
      BY <1>1, <1>2, <2>11, <2>12, <2>13, <2>14, PastEvent
  <1>7. ASSUME home[t] = s, log[i].kind = "finished" PROVE StreamInv'
    <2> DEFINE table == [u \in DOMAIN renderers[s] \ {t} |-> renderers[s][u]]
    <2>1. HandleFinished(s, t, r, sent, footed)
      BY <1>7 DEF Deliver, Dispatch, Kept
    <2>2. renderers' = [renderers EXCEPT ![s] = table] /\ FooterAfter(s, i)
      BY <1>7, <2>1 DEF HandleFinished, FooterAfter
    <2>3. BubbleStep(t, r, r.rows) /\ r.rows \in Seq(Row)
      BY <1>4, <2>1 DEF HandleFinished, LastEdit, BubbleStep, Renderer, Seal
    <2>4. /\ bubbles' \in Seq(BubbleSet) /\ DOMAIN bubbles \subseteq DOMAIN bubbles'
          /\ \A b \in DOMAIN bubbles: /\ bubbles'[b].turn = bubbles[b].turn
                                      /\ \/ bubbles'[b].rows = bubbles[b].rows
                                         \/ bubbles[b].turn = t /\ bubbles'[b].rows = r.rows
          /\ \A b \in DOMAIN bubbles' \ DOMAIN bubbles:
               bubbles'[b].turn = t /\ bubbles'[b].rows = r.rows
      BY <1>1, <1>4, <2>3, BubblesKept
    <2>5. BubblesTell
      BY <1>3, <1>4, <2>4 DEF BubblesTell
    <2>6. TableAfter(s, i, table) /\ EditsOwn(i, table)
      BY DEF TableAfter, EditsOwn
    <2> HIDE DEF table
    <2> QED
      BY <1>1, <1>2, <2>2, <2>5, <2>6, PastEvent
  <1> QED
    BY <1>5, <1>6, <1>7

-----------------------------------------------------------------------------
(* A call that is running has begun (so CallExecuted logs an id of the turn). *)
Calling == {"calling", "executing"}
CallBegun == \A t \in Turns: /\ stage[t] \in Calling => made[t] \in 1..Len(Asks[t])
                              /\ Len(Asks[t]) \in Nat

Inv == StreamInv /\ CallBegun

(* The steps of the gateway that emit. *)
LEMMA EmittingStep ==
  ASSUME Inv, NEW t \in Turns,
         Plans(t) \/ CallPlanned(t) \/ CallExecuted(t) \/ Finishes(t)
  PROVE  Inv'
PROOF
  <1> USE DEF Inv
  <1>1. /\ stage \in [Turns -> {"idle", "running", "calling", "planned", "executing", "over"}]
        /\ made \in [Turns -> Nat] /\ made[t] \in Nat
        /\ Asks[t] \in Seq(CallIds) /\ Len(Asks[t]) \in Nat
    BY TurnStreamAssumption DEF StreamInv, LogTyped
  <1>2. \A n \in 1..Len(Asks[t]): Asks[t][n] \in Names
    <2>1. \A n \in 1..Len(Asks[t]): Asks[t][n] \in CallIds
      BY <1>1
    <2> QED
      BY <2>1 DEF Names
  <1>3. CASE Plans(t)
    <2>1. /\ Emit(t, "plan", "") /\ stage[t] # "over"
          /\ stage' = [stage EXCEPT ![t] = "planned"]
          /\ UNCHANGED <<home, stream, telegram, made>>
      BY <1>3 DEF Plans
    <2>2. StreamInv'
      BY <1>1, <2>1, EmitStep DEF Names
    <2> QED
      BY <1>1, <2>1, <2>2 DEF CallBegun, Calling
  <1>4. CASE CallPlanned(t)
    <2>1. /\ stage[t] # "over" /\ made[t] < Len(Asks[t])
          /\ stage' = [stage EXCEPT ![t] = IF stage[t] = "running" THEN "calling" ELSE "executing"]
          /\ made' = [made EXCEPT ![t] = made[t] + 1]
          /\ Emit(t, "planned", Asks[t][made[t] + 1])
          /\ UNCHANGED <<home, stream, telegram>>
      BY <1>4 DEF CallPlanned
    <2>2. Asks[t][made[t] + 1] \in Names
      BY <1>1, <1>2, <2>1
    <2>3. made' \in [Turns -> Nat]
      BY <1>1, <2>1
    <2>4. StreamInv'
      BY <1>1, <2>1, <2>2, <2>3, EmitStep
    <2> QED
      BY <1>1, <2>1, <2>4 DEF CallBegun
  <1>5. CASE CallExecuted(t)
    <2>1. /\ stage[t] \in Calling
          /\ stage' = [stage EXCEPT ![t] = IF stage[t] = "calling" THEN "running" ELSE "planned"]
          /\ Emit(t, "executed", Asks[t][made[t]])
          /\ UNCHANGED <<home, made, stream, telegram>>
      BY <1>5 DEF CallExecuted, Calling
    <2>2. Asks[t][made[t]] \in Names
      BY <1>2, <2>1 DEF CallBegun
    <2>3. StreamInv'
      BY <1>1, <2>1, <2>2, EmitStep DEF Calling
    <2> QED
      BY <1>1, <2>1, <2>3 DEF CallBegun
  <1>6. CASE Finishes(t)
    <2>1. /\ stage[t] # "over" /\ stage' = [stage EXCEPT ![t] = "over"]
          /\ Emit(t, "finished", "")
          /\ UNCHANGED <<home, made, stream, telegram>>
      BY <1>6 DEF Finishes
    <2>2. StreamInv'
      BY <1>1, <2>1, EmitStep DEF Names
    <2> QED
      BY <1>1, <2>1, <2>2 DEF CallBegun, Calling
  <1> QED
    BY <1>3, <1>4, <1>5, <1>6

(* One stream changes. *)
Streams == [Sessions -> [state: States, next: Nat]]
LEMMA OneStream ==
  ASSUME stream \in Streams, \A u \in Sessions: stream[u].next >= 1,
         NEW s \in Sessions, NEW x \in [state: States, next: Nat], x.next >= 1,
         stream' = [stream EXCEPT ![s] = x]
  PROVE  /\ stream' \in Streams /\ \A u \in Sessions: stream'[u].next >= 1
         /\ stream'[s] = x /\ \A u \in Sessions: u # s => stream'[u] = stream[u]
PROOF
  <1>1. stream'[s] = x /\ \A u \in Sessions: u # s => stream'[u] = stream[u]
    BY DEF Streams
  <1>2. stream' \in Streams
    BY DEF Streams
  <1>3. \A u \in Sessions: stream'[u].next >= 1
    BY <1>1
  <1> QED
    BY <1>1, <1>2, <1>3

(* What the steps of the stream, the restarts and the turns that emit        *)
(* nothing do: a stream stays, closes without renderers or opens at the end. *)
Stages == [Turns -> {"idle", "running", "calling", "planned", "executing", "over"}]
Stays(u) == stream'[u] = stream[u] /\ renderers'[u] = renderers[u]
Closes(u) == stream'[u].state # "open" /\ DOMAIN renderers'[u] = {}
Opens(u) == /\ stream[u].state # "open" /\ renderers'[u] = renderers[u]
            /\ stream'[u].next = Len(log) + 1

Quiet ==
  /\ UNCHANGED <<home, made, log, bubbles, footers>>
  /\ stage' \in Stages /\ stream' \in Streams
  /\ \A t \in Turns: stage[t] = "over" => stage'[t] = "over"
  /\ \A t \in Turns: stage'[t] \in Calling => stage[t] \in Calling
  /\ renderers' = [u \in Sessions |-> renderers'[u]]
  /\ \A u \in Sessions: Stays(u) \/ Closes(u) \/ Opens(u)
  /\ \A u \in Sessions: stream'[u].next >= 1

LEMMA QuietActions ==
  ASSUME Inv,
         \/ \E t \in Turns: (\E viaBot \in BOOLEAN: Ask(t, viaBot)) \/ EndsDetached(t)
         \/ \E s \in Sessions: Connect(s) \/ ConnectFails(s) \/ Drop(s) \/ BackoffOver(s)
         \/ GatewayRestart \/ BotRestart \/ UNCHANGED vars
  PROVE  Quiet
PROOF
  <1> USE DEF Inv
  <1> USE DEF Stages, Stays, Closes, Opens, Quiet
  <1>1. /\ stage \in Stages /\ made \in [Turns -> Nat] /\ stream \in Streams
        /\ home \in [Turns -> Sessions] /\ Len(log) + 1 \in Nat /\ Len(log) + 1 >= 1
        /\ renderers = [u \in Sessions |-> renderers[u]]
        /\ \A u \in Sessions: stream[u].next >= 1
    <2>1. log \in Seq(Events)
      BY DEF StreamInv, LogTyped
    <2>2. Len(log) + 1 \in Nat /\ Len(log) + 1 >= 1
      BY <2>1
    <2> QED
      BY <2>2 DEF StreamInv, LogTyped, BotTyped, StreamsFollow, Streams
  <1>2. \A u \in Sessions: stream[u].state # "open" => DOMAIN renderers[u] = {}
    BY DEF StreamInv, RenderersAreLive
  <1>3. /\ \A state \in States: /\ Without(state) \in [state: States, next: Nat]
                                /\ Without(state).state = state
                                /\ Without(state).next = 1 /\ Without(state).next >= 1
        /\ "none" \in States /\ "connecting" \in States /\ "backoff" \in States
    BY DEF Without, States
  <1>5. ASSUME \E t \in Turns: (\E viaBot \in BOOLEAN: Ask(t, viaBot)) \/ EndsDetached(t) PROVE Quiet
    <2>1. PICK t \in Turns:
            /\ stage[t] # "over"
            /\ stage' = [stage EXCEPT ![t] = "running"] \/ stage' = [stage EXCEPT ![t] = "over"]
            /\ \/ stream' = stream
               \/ /\ stream[home[t]].state = "none"
                  /\ stream' = [stream EXCEPT ![home[t]] = Without("connecting")]
            /\ UNCHANGED <<home, made, log, renderers, bubbles, footers>>
      BY <1>5 DEF Ask, EndsDetached, telegram
    <2>2. stage' \in Stages /\ \A u \in Turns: /\ stage[u] = "over" => stage'[u] = "over"
                                               /\ stage'[u] \in Calling => stage[u] \in Calling
      BY <1>1, <2>1 DEF Calling
    <2>3. stream' \in Streams /\ \A u \in Sessions: Stays(u) \/ Closes(u)
      <3>1. PICK s \in Sessions: s = home[t]
        BY <1>1
      <3>2. PICK x \in [state: States, next: Nat]:
              x = Without("connecting") /\ x.state # "open" /\ x.next >= 1
        BY <1>3
      <3>3. CASE stream' = stream
        BY <1>1, <2>1, <3>3
      <3>4. CASE stream[s].state = "none" /\ stream' = [stream EXCEPT ![s] = x]
        <4>1. /\ stream' \in Streams /\ stream'[s] = x
              /\ \A u \in Sessions: u # s => stream'[u] = stream[u]
          BY <1>1, <3>2, <3>4, OneStream
        <4> QED
          BY <1>2, <2>1, <3>2, <3>4, <4>1
      <3> QED
        BY <2>1, <3>1, <3>2, <3>3, <3>4
    <2>4. \A u \in Sessions: stream'[u].next >= 1
      <3>1. PICK s \in Sessions: s = home[t]
        BY <1>1
      <3>2. PICK x \in [state: States, next: Nat]: x = Without("connecting") /\ x.next >= 1
        BY <1>3
      <3>3. CASE stream' = stream
        BY <1>1, <3>3
      <3>4. CASE stream' = [stream EXCEPT ![s] = x]
        BY <1>1, <3>2, <3>4, OneStream
      <3> QED
        BY <2>1, <3>1, <3>2, <3>3, <3>4
    <2> QED
      BY <1>1, <2>1, <2>2, <2>3, <2>4
  <1>6. ASSUME \E s \in Sessions: Connect(s) \/ ConnectFails(s) \/ Drop(s) \/ BackoffOver(s) PROVE Quiet
    <2>1. PICK s \in Sessions:
            /\ UNCHANGED <<stage, home, made, log, bubbles, footers>>
            /\ \/ /\ stream[s].state = "connecting" /\ UNCHANGED renderers
                  /\ stream' = [stream EXCEPT ![s] = [state |-> "open", next |-> Len(log) + 1]]
               \/ /\ stream[s].state # "open" /\ UNCHANGED renderers
                  /\ \E state \in {"backoff", "connecting"}:
                        stream' = [stream EXCEPT ![s] = Without(state)]
               \/ /\ renderers' = [renderers EXCEPT ![s] = Nobody]
                  /\ stream' = [stream EXCEPT ![s] = Without("backoff")]
      BY <1>6 DEF Connect, ConnectFails, Drop, BackoffOver, gateway, telegram
    <2>2. /\ stream' \in Streams /\ \A u \in Sessions: stream'[u].next >= 1
          /\ \A u \in Sessions: u # s => stream'[u] = stream[u]
          /\ \/ stream'[s].next = Len(log) + 1 /\ stream[s].state = "connecting"
             \/ stream'[s].state # "open"
      <3>1. PICK x \in [state: States, next: Nat]:
              /\ stream' = [stream EXCEPT ![s] = x] /\ x.next >= 1
              /\ \/ x.next = Len(log) + 1 /\ stream[s].state = "connecting"
                 \/ x.state # "open"
        <4>1. CASE /\ stream[s].state = "connecting"
                   /\ stream' = [stream EXCEPT ![s] = [state |-> "open", next |-> Len(log) + 1]]
          <5> DEFINE opened == [state |-> "open", next |-> Len(log) + 1]
          <5>1. /\ opened \in [state: States, next: Nat]
                /\ opened.next = Len(log) + 1 /\ opened.next >= 1
            BY <1>1 DEF States
          <5> HIDE DEF opened
          <5>2. stream' = [stream EXCEPT ![s] = opened]
            BY <4>1 DEF opened
          <5> QED
            BY <4>1, <5>1, <5>2
        <4>2. ASSUME NEW state \in {"backoff", "connecting"},
                     stream' = [stream EXCEPT ![s] = Without(state)]
              PROVE  \E x \in [state: States, next: Nat]:
                       /\ stream' = [stream EXCEPT ![s] = x] /\ x.next >= 1
                       /\ x.state # "open"
          BY <1>3, <4>2
        <4> QED
          BY <2>1, <4>1, <4>2
      <3> QED
        BY <1>1, <3>1, OneStream
    <2>3. /\ renderers' = [u \in Sessions |-> renderers'[u]]
          /\ \A u \in Sessions: u # s => renderers'[u] = renderers[u]
          /\ \/ renderers'[s] = renderers[s] /\ stream[s].state # "open"
             \/ DOMAIN renderers'[s] = {} /\ stream'[s].state # "open"
      <3>1. renderers' = renderers \/ renderers' = [renderers EXCEPT ![s] = Nobody]
        BY <2>1
      <3>2. \/ stream[s].state # "open" /\ renderers' = renderers
            \/ stream'[s].state # "open" /\ renderers' = [renderers EXCEPT ![s] = Nobody]
        <4>1. ASSUME stream' = [stream EXCEPT ![s] = Without("backoff")]
              PROVE  stream'[s].state # "open"
          BY <1>1, <4>1 DEF Streams, Without
        <4> QED
          BY <2>1, <4>1
      <3> QED
        BY <1>1, <1>2, <2>1, <2>2, <3>1, <3>2 DEF Nobody
    <2>4. \A u \in Sessions: Stays(u) \/ Closes(u) \/ Opens(u)
      BY <1>2, <2>2, <2>3
    <2> QED
      BY <1>1, <2>1, <2>2, <2>3, <2>4
  <1>7. ASSUME GatewayRestart PROVE Quiet
    <2>1. stage' \in Stages /\ \A t \in Turns: stage'[t] \notin Calling /\ (stage[t] = "over" => stage'[t] = "over")
      BY <1>7 DEF GatewayRestart, Calling
    <2>2. /\ \A u \in Sessions: stream'[u] \in {stream[u], Without("backoff")}
          /\ \A u \in Sessions: Stays(u) \/ Closes(u)
      BY <1>3, <1>7 DEF GatewayRestart, Nobody, States
    <2>3. stream' = [u \in Sessions |-> stream'[u]]
      BY <1>7 DEF GatewayRestart
    <2>4. stream' \in Streams /\ \A u \in Sessions: stream'[u].next >= 1
      <3>1. \A u \in Sessions: stream[u] \in [state: States, next: Nat]
        BY <1>1 DEF Streams
      <3>2. \A u \in Sessions: stream'[u] \in [state: States, next: Nat] /\ stream'[u].next >= 1
        BY <1>1, <1>3, <2>2, <3>1
      <3> QED
        BY <2>3, <3>2 DEF Streams
    <2> QED
      BY <1>7, <2>1, <2>2, <2>4 DEF GatewayRestart
  <1>8. ASSUME BotRestart PROVE Quiet
    <2>1. stream' \in Streams /\ \A u \in Sessions: stream'[u].next >= 1 /\ Closes(u)
      BY <1>3, <1>8 DEF BotRestart, Nobody, States, Streams
    <2> QED
      BY <1>1, <1>8, <2>1 DEF BotRestart, gateway
  <1>9. ASSUME UNCHANGED vars PROVE Quiet
    BY <1>1, <1>9 DEF vars
  <1> QED
    BY <1>5, <1>6, <1>7, <1>8, <1>9

LEMMA QuietStep == ASSUME Inv, Quiet PROVE Inv'
PROOF
  <1> USE DEF Inv, Stages, Stays, Closes, Opens
  <1>11. StreamInv'
    <2>1. made' \in [Turns -> Nat] /\ UNCHANGED <<home, log, bubbles, footers>>
      BY DEF Quiet, StreamInv, LogTyped
    <2>2. /\ stage' \in Stages /\ stream' \in Streams
          /\ \A t \in Turns: stage[t] = "over" => stage'[t] = "over"
          /\ renderers' = [u \in Sessions |-> renderers'[u]]
      BY DEF Quiet
    <2>3. /\ \A u \in Sessions: Stays(u) \/ Closes(u) \/ Opens(u)
          /\ \A u \in Sessions: stream'[u].next >= 1
      BY DEF Quiet
    <2> QED
      BY <2>1, <2>2, <2>3, StreamStep DEF Streams
  <1>12. CallBegun'
    <2>1. UNCHANGED made /\ \A t \in Turns: stage'[t] \in Calling => stage[t] \in Calling
      BY DEF Quiet
    <2> QED
      BY <2>1 DEF CallBegun
  <1> QED
    BY <1>11, <1>12

-----------------------------------------------------------------------------
(* The invariant holds in every behaviour. *)
THEOREM StreamInvariance == Spec => []Inv
PROOF
  <1>1. Init => Inv
    <2>1. Init => CallBegun
      <3>1. \A t \in Turns: Asks[t] \in Seq(CallIds)
        BY TurnStreamAssumption
      <3>2. \A t \in Turns: Len(Asks[t]) \in Nat
        BY <3>1
      <3> QED
        BY <3>2 DEF Init, CallBegun, Calling
    <2> QED
      BY <2>1, StreamInit DEF Inv
  <1>2. Inv /\ [Next]_vars => Inv'
    <2> SUFFICES ASSUME Inv, [Next]_vars PROVE Inv'
      OBVIOUS
    <2>1. CASE \E s \in Sessions: \E sent, footed \in BOOLEAN: Deliver(s, sent, footed)
      <3>1. PICK s \in Sessions, sent \in BOOLEAN, footed \in BOOLEAN: Deliver(s, sent, footed)
        BY <2>1
      <3>2. StreamInv'
        BY <3>1, DeliverStep DEF Inv
      <3>3. UNCHANGED <<stage, made>>
        BY <3>1 DEF Deliver, gateway
      <3> QED
        BY <3>2, <3>3 DEF Inv, CallBegun
    <2>2. CASE \E t \in Turns: Plans(t) \/ CallPlanned(t) \/ CallExecuted(t) \/ Finishes(t)
      BY <2>2, EmittingStep
    <2>3. CASE \/ \E t \in Turns: (\E viaBot \in BOOLEAN: Ask(t, viaBot)) \/ EndsDetached(t)
               \/ \E s \in Sessions: Connect(s) \/ ConnectFails(s) \/ Drop(s) \/ BackoffOver(s)
               \/ GatewayRestart \/ BotRestart \/ UNCHANGED vars
      BY <2>3, QuietActions, QuietStep
    <2> QED
      BY <2>1, <2>2, <2>3 DEF Next
  <1> QED
    BY <1>1, <1>2, PTL DEF Spec

(* The state is well typed; an outcome is logged under an id of its turn's.  *)
THEOREM TypeCorrect == Spec => []TypeOK
PROOF
  <1>1. Inv => TypeOK
    BY DEF Inv, StreamInv, TypeOK
  <1> QED
    BY <1>1, StreamInvariance, PTL

(* No renderer outlives its connection or the end of its turn, whatever is   *)
(* dropped, refused or restarted (turn_stream.py _run, _dispatch_event).     *)
THEOREM RenderersStayLive == Spec => []RenderersAreLive
PROOF
  <1>1. Inv => RenderersAreLive
    BY DEF Inv, StreamInv
  <1> QED
    BY <1>1, StreamInvariance, PTL

(* A row is shown as done only after its outcome was written and a footer    *)
(* only after turn_finished; no turn gets two footers, although a connection *)
(* may be lost after it (turn_renderer.py _on_turn_finished).                *)
THEOREM BubblesNotAhead == Spec => []NothingAhead
PROOF
  <1>1. Inv => NothingAhead
    BY DEF Inv, StreamInv, NothingAhead, RowsTold, Told, FooterPassed
  <1> QED
    BY <1>1, StreamInvariance, PTL

-----------------------------------------------------------------------------
(* What a finished bubble tells.  The events of a turn's calls are logged in *)
(* the order of the calls, a renderer's rows are the calls of the events its *)
(* stream has handed to it, and a bubble is closed with the turn's last one. *)
CallEvents(t) == Logged(t, "planned") \union Logged(t, "executed")

(* The events of a turn's calls are of calls it has begun, in their order    *)
(* and before the turn's end; a running call has no outcome yet.             *)
InOrder(t) ==
  /\ made[t] <= Len(Asks[t])
  /\ \A i \in CallEvents(t): \E n \in 1..made[t]: log[i].call = Asks[t][n]
  /\ \A i \in Logged(t, "finished"), j \in CallEvents(t): j < i
  /\ Distinct(t) =>
       /\ stage[t] \in Calling =>
            \A i \in Logged(t, "executed"): log[i].call # Asks[t][made[t]]
       /\ \A i, j \in CallEvents(t): i < j =>
            \/ Before(t, log[i].call, log[j].call)
            \/ /\ log[i].call = log[j].call
               /\ log[i].kind = "planned" /\ log[j].kind = "executed"

CallsOrdered == \A t \in Turns: InOrder(t)

(* An event of turn t's call c is logged from position `from` up to `next`. *)
Within(t, kinds, from, next, c) ==
  \E i \in DOMAIN log: /\ log[i].turn = t /\ log[i].kind \in kinds /\ log[i].call = c
                       /\ from <= i /\ i < next

(* The rows are the calls of these events, once each and in order; those     *)
(* with an outcome among them are done.                                      *)
Shows(t, rows, from, next) ==
  /\ \A c \in Names: (\E n \in DOMAIN rows: rows[n].call = c)
                       <=> Within(t, {"planned", "executed"}, from, next, c)
  /\ \A n \in DOMAIN rows: rows[n].done <=> Within(t, {"executed"}, from, next, rows[n].call)
  /\ \A m, n \in DOMAIN rows: m < n => Before(t, rows[m].call, rows[n].call)

(* Every renderer shows what its stream has handed to it. *)
RenderersShow ==
  \A s \in Sessions: \A t \in DOMAIN renderers[s]:
    /\ renderers[s][t].from <= stream[s].next
    /\ Distinct(t) => Shows(t, renderers[s][t].rows, renderers[s][t].from, stream[s].next)

(* Its bubble is open and goes back as far as the renderer does. *)
BubblesOpen ==
  \A s \in Sessions: \A t \in DOMAIN renderers[s]:
    renderers[s][t].bubble # 0 =>
      /\ bubbles[renderers[s][t].bubble].from = renderers[s][t].from
      /\ ~bubbles[renderers[s][t].bubble].sealed

(* A finished bubble is of a turn that is over. *)
SealedOver == \A b \in DOMAIN bubbles: bubbles[b].sealed => stage[bubbles[b].turn] = "over"

(* All the rows of a bubble's text, those that are cut included, tell every  *)
(* call of its turn whose outcome came after its renderer was made.          *)
TextTells(b) ==
  LET outcomes == {i \in Logged(b.turn, "executed"): i >= b.from}
  IN Recorded(b.turn) /\ Distinct(b.turn) =>
       /\ {b.rows[n].call: n \in DOMAIN b.rows} = {log[i].call: i \in outcomes}
       /\ \A n \in DOMAIN b.rows: b.rows[n].done
       /\ \A m, n \in DOMAIN b.rows: m < n => Before(b.turn, b.rows[m].call, b.rows[n].call)

TextsTell == \A b \in DOMAIN bubbles: bubbles[b].sealed => TextTells(bubbles[b])

TellInv ==
  /\ Inv /\ CallsOrdered /\ RenderersShow /\ BubblesOpen /\ SealedOver /\ TextsTell

-----------------------------------------------------------------------------
(* No call comes before itself, when the ids differ. *)
LEMMA NotBeforeItself ==
  ASSUME NEW t \in Turns, Distinct(t), NEW c
  PROVE  ~Before(t, c, c)
PROOF
  <1>1. DOMAIN Asks[t] \subseteq Int
    <2>1. Asks[t] \in Seq(CallIds)
      BY TurnStreamAssumption
    <2> QED
      BY <2>1
  <1> QED
    BY <1>1 DEF Distinct, Before, IsInjective

(* The events of one call: planned, then executed. *)
LEMMA SameCall ==
  ASSUME LogTyped, NEW t \in Turns, Distinct(t), InOrder(t),
         NEW i \in CallEvents(t), NEW j \in CallEvents(t), i # j, log[i].call = log[j].call
  PROVE  \/ i < j /\ log[i].kind = "planned" /\ log[j].kind = "executed"
         \/ j < i /\ log[j].kind = "planned" /\ log[i].kind = "executed"
PROOF
  <1>1. i \in Nat /\ j \in Nat
    BY DEF LogTyped, CallEvents, Logged
  <1>2. ~Before(t, log[i].call, log[i].call)
    BY NotBeforeItself
  <1>3. CASE i < j
    BY <1>2, <1>3 DEF InOrder
  <1>4. CASE j < i
    BY <1>2, <1>4 DEF InOrder
  <1> QED
    BY <1>1, <1>3, <1>4

(* Positions are numbers and events are typed. *)
LEMMA EventTyped ==
  ASSUME LogTyped, NEW i \in DOMAIN log
  PROVE  i \in Nat /\ log[i] \in Events /\ log[i].call \in Names /\ log[i].turn \in Turns
PROOF
  <1>1. i \in Nat /\ log[i] \in Events
    BY DEF LogTyped
  <1> QED
    BY <1>1 DEF Events

(* The window that takes in event i of a call of this turn, or anything else. *)
LEMMA WindowGrows ==
  ASSUME LogTyped, NEW t \in Turns, NEW i \in DOMAIN log, NEW from \in Nat, from <= i,
         NEW kinds, NEW c
  PROVE  Within(t, kinds, from, i + 1, c) <=>
           \/ Within(t, kinds, from, i, c)
           \/ log[i].turn = t /\ log[i].kind \in kinds /\ log[i].call = c
PROOF
  <1>1. DOMAIN log \subseteq Nat
    BY DEF LogTyped
  <1>2. \A j \in DOMAIN log: j < i + 1 <=> (j < i \/ j = i)
    BY <1>1
  <1>3. i < i + 1
    BY <1>1
  <1> QED
    BY <1>2, <1>3 DEF Within

(* A row of the table of rows whose call is event i's, planned or executed.  *)
LEMMA PlannedShown ==
  ASSUME LogTyped, NEW t \in Turns, Distinct(t), InOrder(t),
         NEW rows \in Seq(Row), NEW from \in Nat, NEW i \in DOMAIN log, from <= i,
         log[i].turn = t, log[i].kind = "planned", Shows(t, rows, from, i)
  PROVE  Shows(t, Append(rows, Running(log[i].call)), from, i + 1)
PROOF
  <1> DEFINE c == log[i].call
             new == Append(rows, Running(c))
             N == Len(rows) + 1
  <1>1. c \in Names /\ i \in CallEvents(t) /\ i \in Nat
    BY EventTyped DEF CallEvents, Logged
  <1>2. Running(c).call = c /\ ~Running(c).done /\ Running(c) \in Row
    BY <1>1 DEF Running, Row
  <1>3. rows \in Seq(Row) /\ Len(rows) \in Nat /\ DOMAIN rows = 1..Len(rows)
    OBVIOUS
  <1>4. /\ DOMAIN new = DOMAIN rows \union {N} /\ new[N] = Running(c)
        /\ \A n \in DOMAIN rows: new[n] = rows[n] /\ n \in Nat /\ n < N
    <2>1. /\ Len(new) = N /\ new \in Seq(Row)
          /\ \A n \in 1..Len(rows): new[n] = rows[n]
          /\ new[N] = Running(c)
      BY <1>2, <1>3, AppendProperties
    <2> QED
      BY <1>3, <2>1
  <1> HIDE DEF new, N
  <1>5. \A j \in CallEvents(t): j < i => log[j].call # c /\ Before(t, log[j].call, c)
    <2> SUFFICES ASSUME NEW j \in CallEvents(t), j < i
                 PROVE  log[j].call # c /\ Before(t, log[j].call, c)
      OBVIOUS
    <2>1. log[j].call # c
      <3> SUFFICES ASSUME log[j].call = c PROVE FALSE
        OBVIOUS
      <3>1. i # j /\ j \in Nat
        BY <1>1 DEF LogTyped, CallEvents, Logged
      <3> QED
        BY <1>1, <3>1, SameCall
    <2> QED
      BY <1>1, <2>1 DEF InOrder
  <1>6. \A n \in DOMAIN rows: rows[n].call # c /\ Before(t, rows[n].call, c)
    <2> SUFFICES ASSUME NEW n \in DOMAIN rows
                 PROVE  rows[n].call # c /\ Before(t, rows[n].call, c)
      OBVIOUS
    <2>1. rows[n].call \in Names
      <3>1. rows[n] \in Row
        BY <1>3
      <3> QED
        BY <3>1 DEF Row
    <2>2. Within(t, {"planned", "executed"}, from, i, rows[n].call)
      BY <2>1 DEF Shows
    <2>3. PICK j \in CallEvents(t): log[j].call = rows[n].call /\ j < i
      BY <2>2 DEF Within, CallEvents, Logged
    <2> QED
      BY <1>5, <2>3
  <1>7. \A d: /\ Within(t, {"executed"}, from, i + 1, d) <=> Within(t, {"executed"}, from, i, d)
              /\ Within(t, {"planned", "executed"}, from, i + 1, d) <=>
                   (Within(t, {"planned", "executed"}, from, i, d) \/ d = c)
    BY WindowGrows
  <1>8. ~Within(t, {"executed"}, from, i, c)
    BY <1>5 DEF Within, CallEvents, Logged
  <1>9. \A d \in Names: (\E n \in DOMAIN new: new[n].call = d)
                          <=> Within(t, {"planned", "executed"}, from, i + 1, d)
    <2>1. \A d: (\E n \in DOMAIN new: new[n].call = d) <=>
                  ((\E n \in DOMAIN rows: rows[n].call = d) \/ d = c)
      BY <1>2, <1>4
    <2> QED
      BY <1>7, <2>1 DEF Shows
  <1>10. \A n \in DOMAIN new: new[n].done <=> Within(t, {"executed"}, from, i + 1, new[n].call)
    BY <1>2, <1>4, <1>7, <1>8 DEF Shows
  <1>11. \A m, n \in DOMAIN new: m < n => Before(t, new[m].call, new[n].call)
    <2> SUFFICES ASSUME NEW m \in DOMAIN new, NEW n \in DOMAIN new, m < n
                 PROVE  Before(t, new[m].call, new[n].call)
      OBVIOUS
    <2>1. CASE n \in DOMAIN rows
      <3>1. m # N
        BY <1>3, <1>4, <2>1 DEF N
      <3> QED
        BY <1>4, <2>1, <3>1 DEF Shows
    <2>2. CASE n = N
      <3>1. m # N
        BY <1>3, <2>2 DEF N
      <3> QED
        BY <1>2, <1>4, <1>6, <2>2, <3>1
    <2> QED
      BY <1>4, <2>1, <2>2
  <1> QED
    BY <1>9, <1>10, <1>11 DEF Shows, new

(* The same for an outcome: the call's row is done, or a new one is.         *)
LEMMA ExecutedShown ==
  ASSUME LogTyped, NEW t \in Turns, Distinct(t), InOrder(t),
         NEW rows \in Seq(Row), NEW from \in Nat, NEW i \in DOMAIN log, from <= i,
         log[i].turn = t, log[i].kind = "executed", Shows(t, rows, from, i)
  PROVE  Shows(t, Settle(rows, log[i].call), from, i + 1)
PROOF
  <1> DEFINE c == log[i].call
  <1>1. c \in Names /\ i \in CallEvents(t) /\ i \in Nat
    BY EventTyped DEF CallEvents, Logged
  <1>2. Settled(c).call = c /\ Settled(c).done /\ Settled(c) \in Row
    BY <1>1 DEF Settled, Row
  <1>3. rows \in Seq(Row) /\ Len(rows) \in Nat /\ DOMAIN rows = 1..Len(rows)
    OBVIOUS
  <1>4. \A n \in DOMAIN rows: rows[n].call \in Names
    <2>1. \A n \in DOMAIN rows: rows[n] \in Row
      BY <1>3
    <2> QED
      BY <2>1 DEF Row
  <1>5. \A n \in DOMAIN rows: rows[n].call # c => Before(t, rows[n].call, c)
    <2> SUFFICES ASSUME NEW n \in DOMAIN rows, rows[n].call # c
                 PROVE  Before(t, rows[n].call, c)
      OBVIOUS
    <2>1. Within(t, {"planned", "executed"}, from, i, rows[n].call)
      BY <1>4 DEF Shows
    <2>2. PICK j \in CallEvents(t): log[j].call = rows[n].call /\ j < i
      BY <2>1 DEF Within, CallEvents, Logged
    <2> QED
      BY <1>1, <2>2 DEF InOrder
  <1>6. \A d: /\ Within(t, {"executed"}, from, i + 1, d) <=>
                   (Within(t, {"executed"}, from, i, d) \/ d = c)
              /\ Within(t, {"planned", "executed"}, from, i + 1, d) <=>
                   (Within(t, {"planned", "executed"}, from, i, d) \/ d = c)
    BY WindowGrows
  <1>7. CASE RowsOf(rows, c) = {}
    <2> DEFINE new == Append(rows, Settled(c))
               N == Len(rows) + 1
    <2>1. /\ DOMAIN new = DOMAIN rows \union {N} /\ new[N] = Settled(c)
          /\ \A n \in DOMAIN rows: new[n] = rows[n] /\ n \in Nat /\ n < N
      <3>1. /\ Len(new) = N /\ new \in Seq(Row)
            /\ \A n \in 1..Len(rows): new[n] = rows[n]
            /\ new[N] = Settled(c)
        BY <1>2, <1>3, AppendProperties
      <3> QED
        BY <1>3, <3>1
    <2>2. Settle(rows, c) = new
      BY <1>7 DEF Settle
    <2> HIDE DEF new, N
    <2>3. \A n \in DOMAIN rows: rows[n].call # c
      BY <1>7 DEF RowsOf
    <2>4. \A d \in Names: (\E n \in DOMAIN new: new[n].call = d)
                            <=> Within(t, {"planned", "executed"}, from, i + 1, d)
      <3>1. \A d: (\E n \in DOMAIN new: new[n].call = d) <=>
                    ((\E n \in DOMAIN rows: rows[n].call = d) \/ d = c)
        BY <1>2, <2>1
      <3> QED
        BY <1>6, <3>1 DEF Shows
    <2>5. \A n \in DOMAIN new: new[n].done <=> Within(t, {"executed"}, from, i + 1, new[n].call)
      BY <1>2, <1>6, <2>1, <2>3 DEF Shows
    <2>6. \A m, n \in DOMAIN new: m < n => Before(t, new[m].call, new[n].call)
      <3> SUFFICES ASSUME NEW m \in DOMAIN new, NEW n \in DOMAIN new, m < n
                   PROVE  Before(t, new[m].call, new[n].call)
        OBVIOUS
      <3>1. CASE n \in DOMAIN rows
        <4>1. m # N
          BY <1>3, <2>1, <3>1 DEF N
        <4> QED
          BY <2>1, <3>1, <4>1 DEF Shows
      <3>2. CASE n = N
        <4>1. m # N
          BY <1>3, <3>2 DEF N
        <4> QED
          BY <1>2, <1>5, <2>1, <2>3, <3>2, <4>1
      <3> QED
        BY <2>1, <3>1, <3>2
    <2> QED
      BY <2>2, <2>4, <2>5, <2>6 DEF Shows
  <1>8. CASE RowsOf(rows, c) # {}
    <2>1. PICK p \in DOMAIN rows: rows[p].call = c
      BY <1>8 DEF RowsOf
    <2>2. \A n \in DOMAIN rows: n # p => rows[n].call # c
      <3> SUFFICES ASSUME NEW n \in DOMAIN rows, n # p, rows[n].call = c PROVE FALSE
        OBVIOUS
      <3>1. ~Before(t, c, c)
        BY NotBeforeItself
      <3>2. n < p \/ p < n
        BY <1>3
      <3> QED
        BY <2>1, <3>1, <3>2 DEF Shows
    <2>3. RowsOf(rows, c) = {p}
      BY <2>1, <2>2 DEF RowsOf
    <2>4. First({p}) = p
      BY <1>3 DEF First
    <2> DEFINE new == [rows EXCEPT ![p] = Settled(c)]
    <2>5. Settle(rows, c) = new
      BY <2>3, <2>4 DEF Settle
    <2>6. /\ DOMAIN new = DOMAIN rows /\ new[p] = Settled(c)
          /\ \A n \in DOMAIN rows: n # p => new[n] = rows[n]
      OBVIOUS
    <2> HIDE DEF new
    <2>7. \A n \in DOMAIN new: new[n].call = rows[n].call
      BY <1>2, <2>1, <2>6
    <2>8. \A d \in Names: (\E n \in DOMAIN new: new[n].call = d)
                            <=> Within(t, {"planned", "executed"}, from, i + 1, d)
      BY <1>6, <2>1, <2>6, <2>7 DEF Shows
    <2>9. \A n \in DOMAIN new: new[n].done <=> Within(t, {"executed"}, from, i + 1, new[n].call)
      BY <1>2, <1>6, <2>1, <2>2, <2>6 DEF Shows
    <2>10. \A m, n \in DOMAIN new: m < n => Before(t, new[m].call, new[n].call)
      BY <2>6, <2>7 DEF Shows
    <2> QED
      BY <2>5, <2>8, <2>9, <2>10 DEF Shows
  <1> QED
    BY <1>7, <1>8

(* A renderer that has shown its events shows the next one too. *)
LEMMA NextShown ==
  ASSUME LogTyped, NEW t \in Turns, Distinct(t), InOrder(t), NEW r \in Renderer,
         NEW i \in DOMAIN log, r.from <= i, log[i].turn = t, Shows(t, r.rows, r.from, i)
  PROVE  Shows(t, RowsAfter(r, log[i]), r.from, i + 1)
PROOF
  <1>1. r.rows \in Seq(Row) /\ r.from \in Nat
    BY DEF Renderer
  <1>2. CASE log[i].kind = "planned"
    <2>1. RowsAfter(r, log[i]) = Append(r.rows, Running(log[i].call))
      BY <1>2 DEF RowsAfter
    <2> QED
      BY <1>1, <1>2, <2>1, PlannedShown
  <1>3. CASE log[i].kind = "executed"
    <2>1. RowsAfter(r, log[i]) = Settle(r.rows, log[i].call)
      BY <1>3 DEF RowsAfter
    <2> QED
      BY <1>1, <1>3, <2>1, ExecutedShown
  <1>4. CASE log[i].kind \notin {"planned", "executed"}
    <2>1. RowsAfter(r, log[i]) = r.rows
      BY <1>4 DEF RowsAfter
    <2>2. \A d: /\ Within(t, {"executed"}, r.from, i + 1, d)
                     <=> Within(t, {"executed"}, r.from, i, d)
                /\ Within(t, {"planned", "executed"}, r.from, i + 1, d)
                     <=> Within(t, {"planned", "executed"}, r.from, i, d)
      BY <1>1, <1>4, WindowGrows
    <2> QED
      BY <2>1, <2>2 DEF Shows
  <1> QED
    BY <1>2, <1>3, <1>4

(* Rows that show the events of the turn up to its end tell what happened. *)
LEMMA EndTells ==
  ASSUME LogTyped, NEW t \in Turns, InOrder(t), NEW b, b.turn = t, b.rows \in Seq(Row),
         b.from \in Nat, NEW i \in Logged(t, "finished"), b.from <= i,
         Distinct(t) => Shows(t, b.rows, b.from, i)
  PROVE  TextTells(b)
PROOF
  <1> DEFINE outcomes == {j \in Logged(t, "executed"): j >= b.from}
  <1> SUFFICES ASSUME Recorded(t), Distinct(t)
               PROVE  /\ {b.rows[n].call: n \in DOMAIN b.rows} = {log[j].call: j \in outcomes}
                      /\ \A n \in DOMAIN b.rows: b.rows[n].done
                      /\ \A m, n \in DOMAIN b.rows: m < n =>
                           Before(t, b.rows[m].call, b.rows[n].call)
    BY DEF TextTells
  <1>1. \A n \in DOMAIN b.rows: b.rows[n].call \in Names
    <2>1. \A n \in DOMAIN b.rows: b.rows[n] \in Row
      OBVIOUS
    <2> QED
      BY <2>1 DEF Row
  <1>2. \A j \in CallEvents(t): /\ j < i /\ j \in DOMAIN log /\ j \in Nat /\ log[j].call \in Names
                                /\ log[j].turn = t /\ log[j].kind \in {"planned", "executed"}
    BY EventTyped DEF InOrder, CallEvents, Logged
  <1>3. \A n \in DOMAIN b.rows: \E k \in Logged(t, "executed"):
          k >= b.from /\ log[k].call = b.rows[n].call
    <2> SUFFICES ASSUME NEW n \in DOMAIN b.rows
                 PROVE  \E k \in Logged(t, "executed"):
                          k >= b.from /\ log[k].call = b.rows[n].call
      OBVIOUS
    <2>1. Within(t, {"planned", "executed"}, b.from, i, b.rows[n].call)
      BY <1>1 DEF Shows
    <2>2. PICK j \in CallEvents(t): log[j].call = b.rows[n].call /\ b.from <= j
      BY <2>1 DEF Within, CallEvents, Logged
    <2>3. PICK k \in Logged(t, "executed"): log[k].call = log[j].call
      BY DEF InOrder, Recorded
    <2>4. k \in CallEvents(t) /\ log[k].kind = "executed"
      BY DEF CallEvents, Logged
    <2>5. CASE k = j
      BY <2>2, <2>5
    <2>6. CASE k # j
      <3>1. j < k
        BY <2>3, <2>4, <2>6, SameCall
      <3> QED
        BY <1>2, <2>2, <2>3, <2>4, <3>1
    <2> QED
      BY <2>5, <2>6
  <1>4. \A k \in Logged(t, "executed"): k >= b.from =>
          Within(t, {"executed"}, b.from, i, log[k].call)
    BY <1>2 DEF Within, CallEvents, Logged
  <1>5. \A n \in DOMAIN b.rows: b.rows[n].done
    BY <1>3, <1>4 DEF Shows
  <1>6. \A k \in outcomes: \E n \in DOMAIN b.rows: b.rows[n].call = log[k].call
    <2> SUFFICES ASSUME NEW k \in outcomes
                 PROVE  \E n \in DOMAIN b.rows: b.rows[n].call = log[k].call
      OBVIOUS
    <2>1. Within(t, {"planned", "executed"}, b.from, i, log[k].call) /\ log[k].call \in Names
      BY <1>2, <1>4 DEF Within, CallEvents
    <2> QED
      BY <2>1 DEF Shows
  <1> QED
    BY <1>3, <1>5, <1>6 DEF Shows

-----------------------------------------------------------------------------
(* The steps of the gateway.                                                 *)

(* A turn whose events stay as they are stays in order. *)
LEMMA OrderStays ==
  ASSUME NEW u \in Turns, InOrder(u), made'[u] = made[u],
         stage'[u] \in Calling => stage[u] \in Calling,
         \A k \in {"planned", "executed", "finished"}: Logged(u, k)' = Logged(u, k),
         \A i \in DOMAIN log: log'[i] = log[i]
  PROVE  InOrder(u)'
PROOF
  <1>1. CallEvents(u)' = CallEvents(u)
    BY DEF CallEvents
  <1>2. \A i \in CallEvents(u) \union Logged(u, "executed"): log'[i] = log[i]
    BY DEF CallEvents, Logged
  <1>3. \A c, d: Before(u, c, d)' <=> Before(u, c, d)
    BY DEF Before
  <1>4. Distinct(u)' <=> Distinct(u)
    BY DEF Distinct, IsInjective
  <1> QED
    BY <1>1, <1>2, <1>3, <1>4 DEF InOrder

(* A bubble of a turn whose events stay as they are tells what it told. *)
LEMMA TellsStays ==
  ASSUME NEW b, LogTyped, b.turn \in Turns, made'[b.turn] = made[b.turn],
         \A k \in {"planned", "executed"}: Logged(b.turn, k)' = Logged(b.turn, k),
         \A i \in DOMAIN log: log'[i] = log[i],
         TextTells(b)
  PROVE  TextTells(b)'
PROOF
  <1> DEFINE t == b.turn
  <1>1. \A k \in {"planned", "executed"}: \A i \in Logged(t, k): log'[i] = log[i]
    BY DEF Logged
  <1>2. Recorded(t)' <=> Recorded(t)
    BY <1>1 DEF Recorded
  <1>3. Distinct(t)' <=> Distinct(t)
    BY DEF Distinct, IsInjective
  <1>4. \A c, d: Before(t, c, d)' <=> Before(t, c, d)
    BY DEF Before
  <1>5. {log'[i].call: i \in {j \in Logged(t, "executed")': j >= b.from}}
          = {log[i].call: i \in {j \in Logged(t, "executed"): j >= b.from}}
    BY <1>1
  <1> QED
    BY <1>2, <1>3, <1>4, <1>5 DEF TextTells

(* The order an emission leaves its own turn in. *)
LEMMA EmitInOrder ==
  ASSUME LogTyped, NEW t \in Turns, NEW kind \in {"plan", "planned", "executed", "finished"},
         NEW id \in Names, Emit(t, kind, id), InOrder(t), Logged(t, "finished") = {},
         made' \in [Turns -> Nat],
         kind = "planned" => /\ made'[t] = made[t] + 1 /\ made'[t] <= Len(Asks[t])
                             /\ id = Asks[t][made'[t]],
         kind = "executed" => /\ stage[t] \in Calling /\ made[t] >= 1
                              /\ id = Asks[t][made[t]],
         kind # "planned" => made'[t] = made[t] /\ stage'[t] \notin Calling
  PROVE  InOrder(t)'
PROOF
  <1> DEFINE N == Len(log) + 1
  <1>1. /\ Len(log) \in Nat /\ DOMAIN log \subseteq DOMAIN log'
        /\ \A i \in DOMAIN log: log'[i] = log[i] /\ i <= Len(log) /\ i \in Nat
        /\ \A i \in DOMAIN log' \ DOMAIN log:
             /\ i = N /\ log'[i].turn = t /\ log'[i].kind = kind /\ log'[i].call = id
    BY Emitted
  <1>2. /\ made[t] \in Nat /\ made'[t] \in Nat /\ made[t] <= made'[t]
        /\ Asks[t] \in Seq(CallIds) /\ Len(Asks[t]) \in Nat /\ DOMAIN Asks[t] = 1..Len(Asks[t])
    BY TurnStreamAssumption DEF LogTyped
  <1> HIDE DEF N
  <1>3. \A i \in CallEvents(t)': \/ i \in CallEvents(t) /\ log'[i] = log[i] /\ i \in Nat /\ i < N
                                 \/ /\ i = N /\ kind \in {"planned", "executed"}
                                    /\ log'[i].kind = kind /\ log'[i].call = id
    BY <1>1 DEF CallEvents, Logged, N
  <1>4. made'[t] <= Len(Asks[t])
    BY DEF InOrder
  <1>5. \A i \in CallEvents(t)': \E n \in 1..made'[t]: log'[i].call = Asks[t][n]
    <2> SUFFICES ASSUME NEW i \in CallEvents(t)'
                 PROVE  \E n \in 1..made'[t]: log'[i].call = Asks[t][n]
      OBVIOUS
    <2>1. CASE i \in CallEvents(t) /\ log'[i] = log[i]
      <3>1. PICK n \in 1..made[t]: log[i].call = Asks[t][n]
        BY <2>1 DEF InOrder
      <3>2. n \in 1..made'[t]
        BY <1>2
      <3> QED
        BY <2>1, <3>1, <3>2
    <2>2. CASE kind \in {"planned", "executed"} /\ log'[i].call = id
      <3>1. id = Asks[t][made'[t]] /\ made'[t] >= 1
        BY <1>2, <2>2
      <3>2. made'[t] \in 1..made'[t]
        BY <1>2, <3>1
      <3> QED
        BY <2>2, <3>1, <3>2
    <2> QED
      BY <1>3, <2>1, <2>2
  <1>6. \A i \in Logged(t, "finished")', j \in CallEvents(t)': j < i
    <2>1. \A i \in Logged(t, "finished")': i = N /\ kind = "finished"
      BY <1>1 DEF Logged
    <2> QED
      BY <1>3, <2>1
  <1>7. ASSUME Distinct(t), stage'[t] \in Calling, NEW i \in Logged(t, "executed")'
        PROVE  log'[i].call # Asks[t][made'[t]]
    <2>1. kind = "planned"
      BY <1>7
    <2>2. i \in Logged(t, "executed") /\ i \in CallEvents(t) /\ log'[i] = log[i]
      BY <1>1, <1>7, <2>1 DEF Logged, CallEvents
    <2>3. PICK n \in 1..made[t]: log[i].call = Asks[t][n]
      BY <2>2 DEF InOrder
    <2>4. n \in DOMAIN Asks[t] /\ made'[t] \in DOMAIN Asks[t] /\ n # made'[t]
      BY <1>2, <2>1
    <2> QED
      BY <1>7, <2>2, <2>3, <2>4 DEF Distinct, IsInjective
  <1>8. ASSUME Distinct(t), NEW i \in CallEvents(t)', NEW j \in CallEvents(t)', i < j
        PROVE  \/ Before(t, log'[i].call, log'[j].call)
               \/ /\ log'[i].call = log'[j].call
                  /\ log'[i].kind = "planned" /\ log'[j].kind = "executed"
    <2>1. CASE j \in CallEvents(t) /\ log'[j] = log[j] /\ j \in Nat /\ j < N
      <3>1. i # N
        BY <1>1, <1>8, <2>1 DEF N
      <3>2. i \in CallEvents(t) /\ log'[i] = log[i]
        BY <1>3, <3>1
      <3>3. \/ Before(t, log[i].call, log[j].call)
            \/ /\ log[i].call = log[j].call
               /\ log[i].kind = "planned" /\ log[j].kind = "executed"
        BY <1>8, <2>1, <3>2 DEF InOrder
      <3> QED
        BY <2>1, <3>2, <3>3
    <2>2. CASE j = N /\ kind \in {"planned", "executed"} /\ log'[j].kind = kind /\ log'[j].call = id
      <3>1. i # N
        BY <1>1, <1>8, <2>2 DEF N
      <3>2. i \in CallEvents(t) /\ log'[i] = log[i]
        BY <1>3, <3>1
      <3>3. PICK n \in 1..made[t]: log[i].call = Asks[t][n]
        BY <3>2 DEF InOrder
      <3>4. CASE kind = "planned"
        <4>1. n < made'[t] /\ n \in DOMAIN Asks[t] /\ made'[t] \in DOMAIN Asks[t]
          BY <1>2, <3>4
        <4> QED
          BY <2>2, <3>2, <3>3, <3>4, <4>1 DEF Before
      <3>5. CASE kind = "executed"
        <4>1. made[t] \in DOMAIN Asks[t] /\ n \in DOMAIN Asks[t] /\ (n < made[t] \/ n = made[t])
          BY <1>2, <1>4, <3>5
        <4>2. CASE n < made[t]
          BY <2>2, <3>2, <3>3, <3>5, <4>1, <4>2 DEF Before
        <4>3. CASE n = made[t]
          <5>1. i \notin Logged(t, "executed")
            BY <1>8, <3>3, <3>5, <4>3 DEF InOrder
          <5>2. log[i].kind = "planned"
            BY <3>2, <5>1 DEF CallEvents, Logged
          <5> QED
            BY <2>2, <3>2, <3>3, <3>5, <4>3, <5>2
        <4> QED
          BY <4>1, <4>2, <4>3
      <3> QED
        BY <2>2, <3>4, <3>5
    <2> QED
      BY <1>3, <2>1, <2>2
  <1>9. Distinct(t)' <=> Distinct(t)
    BY DEF Distinct, IsInjective
  <1>10. \A c, d: Before(t, c, d)' <=> Before(t, c, d)
    BY DEF Before
  <1> QED
    BY <1>4, <1>5, <1>6, <1>7, <1>8, <1>9, <1>10 DEF InOrder

(* A window of an open stream ends before anything new. *)
LEMMA WindowStays ==
  ASSUME NEW u, NEW from, NEW next \in Nat, Len(log) \in Nat, next <= Len(log) + 1,
         DOMAIN log \subseteq DOMAIN log', \A i \in DOMAIN log: log'[i] = log[i],
         \A i \in DOMAIN log' \ DOMAIN log: i = Len(log) + 1,
         NEW kinds, NEW c
  PROVE  Within(u, kinds, from, next, c)' <=> Within(u, kinds, from, next, c)
PROOF
  <1>1. \A i \in DOMAIN log': i < next => i \in DOMAIN log
    OBVIOUS
  <1> QED
    BY <1>1 DEF Within

LEMMA ShowsStays ==
  ASSUME NEW u \in Turns, NEW rows, NEW from, NEW next,
         \A kinds, c: Within(u, kinds, from, next, c)' <=> Within(u, kinds, from, next, c),
         Shows(u, rows, from, next)
  PROVE  Shows(u, rows, from, next)'
PROOF
  <1>1. \A c, d: Before(u, c, d)' <=> Before(u, c, d)
    BY DEF Before
  <1> QED
    BY <1>1 DEF Shows

(* An emission leaves every bubble and every renderer what it tells. *)
LEMMA EmitTells ==
  ASSUME TellInv, Inv', NEW t \in Turns,
         NEW kind \in {"plan", "planned", "executed", "finished"}, NEW id \in Names,
         Emit(t, kind, id), stage[t] # "over", UNCHANGED <<home, stream, telegram>>,
         \A u \in Turns: u # t => stage'[u] = stage[u] /\ made'[u] = made[u],
         InOrder(t)'
  PROVE  TellInv'
PROOF
  <1> USE DEF TellInv, Inv, StreamInv
  <1>1. /\ Len(log) \in Nat /\ DOMAIN log \subseteq DOMAIN log'
        /\ \A i \in DOMAIN log: log'[i] = log[i] /\ i <= Len(log) /\ i \in Nat
        /\ \A i \in DOMAIN log' \ DOMAIN log: i = Len(log) + 1 /\ log'[i].turn = t
    BY Emitted
  <1>2. \A u \in Turns, k \in {"planned", "executed", "finished"}:
          u # t => Logged(u, k)' = Logged(u, k)
    BY <1>1 DEF Logged
  <1>3. UNCHANGED <<renderers, bubbles, footers, home, stream>>
    BY DEF telegram
  <1>4. CallsOrdered'
    <2>1. ASSUME NEW u \in Turns, u # t PROVE InOrder(u)'
      BY <1>1, <1>2, <2>1, OrderStays DEF CallsOrdered
    <2> QED
      BY <2>1 DEF CallsOrdered
  <1>5. RenderersShow'
    <2> SUFFICES ASSUME NEW s \in Sessions, NEW u \in DOMAIN renderers[s], Distinct(u)
                 PROVE  Shows(u, renderers[s][u].rows, renderers[s][u].from, stream[s].next)'
      BY <1>3 DEF RenderersShow, Distinct, IsInjective
    <2> DEFINE rows == renderers[s][u].rows
               from == renderers[s][u].from
               next == stream[s].next
    <2>1. u \in Turns /\ next \in Nat /\ next <= Len(log) + 1
      BY DEF RenderersAreLive, StreamsFollow, LogTyped, BotTyped
    <2>2. Shows(u, rows, from, next)
      BY DEF RenderersShow
    <2>3. PICK rows0, from0, next0: rows0 = rows /\ from0 = from /\ next0 = next
      BY <2>1
    <2>4. \A kinds, c: Within(u, kinds, from0, next0, c)' <=> Within(u, kinds, from0, next0, c)
      BY <1>1, <2>1, <2>3, WindowStays DEF TellInv
    <2>5. Shows(u, rows0, from0, next0)'
      BY <2>1, <2>2, <2>3, <2>4, ShowsStays
    <2> QED
      BY <1>3, <2>3, <2>5
  <1>6. BubblesOpen'
    BY <1>3 DEF BubblesOpen
  <1>7. \A b \in DOMAIN bubbles: bubbles[b].turn \in Turns
    <2>1. \A b \in DOMAIN bubbles: bubbles[b] \in BubbleSet
      BY DEF BotTyped
    <2> QED
      BY <2>1 DEF BubbleSet
  <1>8. \A b \in DOMAIN bubbles: bubbles[b].sealed => bubbles[b].turn # t
    BY DEF SealedOver
  <1>9. SealedOver'
    BY <1>3, <1>7, <1>8 DEF SealedOver
  <1>10. TextsTell'
    <2> SUFFICES ASSUME NEW b \in DOMAIN bubbles, bubbles[b].sealed PROVE TextTells(bubbles[b])'
      BY <1>3 DEF TextsTell
    <2>1. PICK x: x = bubbles[b]
      OBVIOUS
    <2>2. x.turn \in Turns /\ x.turn # t /\ TextTells(x)
      BY <1>7, <1>8, <2>1 DEF TextsTell
    <2>3. TextTells(x)'
      BY <1>1, <1>2, <2>2, TellsStays
    <2> QED
      BY <1>3, <2>1, <2>3
  <1> QED
    BY <1>4, <1>5, <1>6, <1>9, <1>10

LEMMA EmittingTells ==
  ASSUME TellInv, Inv', NEW t \in Turns,
         Plans(t) \/ CallPlanned(t) \/ CallExecuted(t) \/ Finishes(t)
  PROVE  TellInv'
PROOF
  <1> USE DEF TellInv, Inv, StreamInv
  <1>1. /\ stage \in Stages /\ made \in [Turns -> Nat] /\ made[t] \in Nat
        /\ Asks[t] \in Seq(CallIds) /\ Len(Asks[t]) \in Nat
        /\ made' \in [Turns -> Nat] /\ InOrder(t)
    BY TurnStreamAssumption DEF LogTyped, CallsOrdered, Stages
  <1>2. \A n \in 1..Len(Asks[t]): Asks[t][n] \in Names
    <2>1. \A n \in 1..Len(Asks[t]): Asks[t][n] \in CallIds
      BY <1>1
    <2> QED
      BY <2>1 DEF Names
  <1>3. stage[t] # "over" => Logged(t, "finished") = {}
    BY DEF FinishesOnce
  <1> DEFINE Others == \A u \in Turns: u # t => stage'[u] = stage[u] /\ made'[u] = made[u]
  <1>4. CASE Plans(t)
    <2>1. /\ Emit(t, "plan", "") /\ stage[t] # "over" /\ UNCHANGED <<home, stream, telegram, made>>
          /\ stage' = [stage EXCEPT ![t] = "planned"]
      BY <1>4 DEF Plans
    <2>2. stage'[t] \notin Calling /\ Others /\ "" \in Names
      BY <1>1, <2>1 DEF Stages, Names, Calling
    <2>3. InOrder(t)'
      BY <1>1, <1>3, <2>1, <2>2, EmitInOrder
    <2> QED
      BY <2>1, <2>2, <2>3, EmitTells
  <1>5. CASE CallPlanned(t)
    <2>1. /\ stage[t] # "over" /\ made[t] < Len(Asks[t])
          /\ stage' = [stage EXCEPT ![t] = IF stage[t] = "running" THEN "calling" ELSE "executing"]
          /\ made' = [made EXCEPT ![t] = made[t] + 1]
          /\ Emit(t, "planned", Asks[t][made[t] + 1])
          /\ UNCHANGED <<home, stream, telegram>>
      BY <1>5 DEF CallPlanned
    <2>2. /\ Asks[t][made[t] + 1] \in Names /\ Others
          /\ made'[t] = made[t] + 1 /\ made'[t] <= Len(Asks[t])
      BY <1>1, <1>2, <2>1 DEF Stages
    <2>3. InOrder(t)'
      BY <1>1, <1>3, <2>1, <2>2, EmitInOrder
    <2> QED
      BY <2>1, <2>2, <2>3, EmitTells
  <1>6. CASE CallExecuted(t)
    <2>1. /\ stage[t] \in Calling
          /\ stage' = [stage EXCEPT ![t] = IF stage[t] = "calling" THEN "running" ELSE "planned"]
          /\ Emit(t, "executed", Asks[t][made[t]])
          /\ UNCHANGED <<home, made, stream, telegram>>
      BY <1>6 DEF CallExecuted, Calling
    <2>2. /\ made[t] \in 1..Len(Asks[t]) /\ Asks[t][made[t]] \in Names /\ Others
          /\ made'[t] = made[t] /\ stage'[t] \notin Calling /\ stage[t] # "over"
      BY <1>1, <1>2, <2>1 DEF CallBegun, Stages, Calling
    <2>3. InOrder(t)'
      BY <1>1, <1>3, <2>1, <2>2, EmitInOrder
    <2> QED
      BY <2>1, <2>2, <2>3, EmitTells
  <1>7. CASE Finishes(t)
    <2>1. /\ stage[t] # "over" /\ stage' = [stage EXCEPT ![t] = "over"]
          /\ Emit(t, "finished", "") /\ UNCHANGED <<home, made, stream, telegram>>
      BY <1>7 DEF Finishes
    <2>2. stage'[t] \notin Calling /\ Others /\ "" \in Names
      BY <1>1, <2>1 DEF Stages, Names, Calling
    <2>3. InOrder(t)'
      BY <1>1, <1>3, <2>1, <2>2, EmitInOrder
    <2> QED
      BY <2>1, <2>2, <2>3, EmitTells
  <1> QED
    BY <1>4, <1>5, <1>6, <1>7

-----------------------------------------------------------------------------
(* A quiet step: renderers stay with a stream that stays, or go.             *)
LEMMA QuietTells == ASSUME TellInv, Inv', Quiet PROVE TellInv'
PROOF
  <1> USE DEF TellInv, Inv, StreamInv
  <1>1. UNCHANGED <<made, log, bubbles>>
    BY DEF Quiet
  <1>2. \A u \in Turns: stage'[u] \in Calling => stage[u] \in Calling
    BY DEF Quiet
  <1>3. \A u \in Turns: \A k \in {"planned", "executed", "finished"}: Logged(u, k)' = Logged(u, k)
    BY <1>1 DEF Logged
  <1>4. CallsOrdered'
    <2>1. ASSUME NEW u \in Turns PROVE InOrder(u)'
      BY <1>1, <1>2, <1>3, OrderStays DEF CallsOrdered
    <2> QED
      BY <2>1 DEF CallsOrdered
  <1>5. \A s \in Sessions: \A u \in DOMAIN renderers'[s]:
          u \in DOMAIN renderers[s] /\ renderers'[s] = renderers[s] /\ stream'[s] = stream[s]
    <2>1. \A s \in Sessions: stream[s].state # "open" => DOMAIN renderers[s] = {}
      BY DEF RenderersAreLive
    <2> QED
      BY <2>1 DEF Quiet, Stays, Closes, Opens
  <1>6. RenderersShow'
    <2> SUFFICES ASSUME NEW s \in Sessions, NEW u \in DOMAIN renderers'[s]
                 PROVE  /\ renderers'[s][u].from <= stream'[s].next
                        /\ Distinct(u) =>
                             Shows(u, renderers[s][u].rows, renderers[s][u].from, stream[s].next)'
      BY DEF RenderersShow, Distinct, IsInjective
    <2>1. u \in DOMAIN renderers[s] /\ renderers'[s] = renderers[s] /\ stream'[s] = stream[s]
      BY <1>5
    <2>2. u \in Turns
      BY <2>1 DEF BotTyped
    <2>3. ASSUME Distinct(u)
          PROVE  Shows(u, renderers[s][u].rows, renderers[s][u].from, stream[s].next)'
      <3>1. PICK rows0, from0, next0: /\ rows0 = renderers[s][u].rows
                                      /\ from0 = renderers[s][u].from /\ next0 = stream[s].next
        OBVIOUS
      <3>2. \A kinds, c: Within(u, kinds, from0, next0, c)' <=> Within(u, kinds, from0, next0, c)
        BY <1>1 DEF Within
      <3>3. Shows(u, rows0, from0, next0)
        BY <2>1, <2>3, <3>1 DEF RenderersShow
      <3>4. Shows(u, rows0, from0, next0)'
        BY <2>2, <3>2, <3>3, ShowsStays
      <3> QED
        BY <2>1, <3>1, <3>4
    <2> QED
      BY <2>1, <2>3 DEF RenderersShow
  <1>7. BubblesOpen'
    BY <1>1, <1>5 DEF BubblesOpen
  <1>8. \A b \in DOMAIN bubbles: bubbles[b].turn \in Turns
    <2>1. \A b \in DOMAIN bubbles: bubbles[b] \in BubbleSet
      BY DEF BotTyped
    <2> QED
      BY <2>1 DEF BubbleSet
  <1>9. SealedOver'
    BY <1>1, <1>8 DEF SealedOver, Quiet
  <1>10. TextsTell'
    <2> SUFFICES ASSUME NEW b \in DOMAIN bubbles, bubbles[b].sealed PROVE TextTells(bubbles[b])'
      BY <1>1 DEF TextsTell
    <2>1. PICK x: x = bubbles[b]
      OBVIOUS
    <2>2. x.turn \in Turns /\ TextTells(x)
      BY <1>8, <2>1 DEF TextsTell
    <2>3. TextTells(x)'
      BY <1>1, <1>3, <2>2, TellsStays
    <2> QED
      BY <1>1, <2>1, <2>3
  <1> QED
    BY <1>4, <1>6, <1>7, <1>9, <1>10

-----------------------------------------------------------------------------
(* A delivery.                                                               *)

(* A bubble that is posted, and one that is edited: the others stay.         *)
LEMMA PostedBubble ==
  ASSUME BotTyped, NEW x \in BubbleSet, bubbles' = Append(bubbles, x)
  PROVE  /\ DOMAIN bubbles' = DOMAIN bubbles \union {Len(bubbles) + 1}
         /\ bubbles'[Len(bubbles) + 1] = x /\ Len(bubbles) + 1 \notin DOMAIN bubbles
         /\ \A b \in DOMAIN bubbles: bubbles'[b] = bubbles[b]
PROOF
  <1>1. bubbles \in Seq(BubbleSet) /\ Len(bubbles) \in Nat /\ DOMAIN bubbles = 1..Len(bubbles)
    BY DEF BotTyped
  <1>2. /\ bubbles' \in Seq(BubbleSet) /\ Len(bubbles') = Len(bubbles) + 1
        /\ \A b \in 1..Len(bubbles): bubbles'[b] = bubbles[b]
        /\ bubbles'[Len(bubbles) + 1] = x
    BY <1>1, AppendProperties
  <1>3. DOMAIN bubbles' = 1..(Len(bubbles) + 1)
    BY <1>1, <1>2
  <1> QED
    BY <1>1, <1>2, <1>3

LEMMA EditedBubble ==
  ASSUME BotTyped, NEW k \in DOMAIN bubbles, NEW x, bubbles' = [bubbles EXCEPT ![k] = x]
  PROVE  /\ DOMAIN bubbles' = DOMAIN bubbles /\ bubbles'[k] = x
         /\ \A b \in DOMAIN bubbles: b # k => bubbles'[b] = bubbles[b]
PROOF
  <1>1. DOMAIN bubbles = 1..Len(bubbles)
    BY DEF BotTyped
  <1> QED
    BY <1>1

(* The renderer an event is handed to shows what came before the event, and  *)
(* its bubble is open.                                                       *)
LEMMA GivenShows ==
  ASSUME TellInv, NEW s \in Sessions, NEW t \in Turns
  PROVE  /\ Kept(s, t).from <= stream[s].next
         /\ Distinct(t) => Shows(t, Kept(s, t).rows, Kept(s, t).from, stream[s].next)
         /\ Kept(s, t).bubble # 0 =>
              /\ Kept(s, t).bubble \in DOMAIN bubbles
              /\ bubbles[Kept(s, t).bubble].turn = t
              /\ bubbles[Kept(s, t).bubble].from = Kept(s, t).from
              /\ ~bubbles[Kept(s, t).bubble].sealed
PROOF
  <1> USE DEF TellInv, Inv, StreamInv
  <1>1. CASE t \in DOMAIN renderers[s]
    <2>1. Kept(s, t) = renderers[s][t]
      BY <1>1 DEF Kept
    <2> QED
      BY <1>1, <2>1 DEF RenderersShow, BubblesOpen, OwnBubble
  <1>2. CASE t \notin DOMAIN renderers[s]
    <2>1. /\ Kept(s, t).from = stream[s].next /\ Kept(s, t).rows = <<>>
          /\ Kept(s, t).bubble = 0 /\ stream[s].next \in Nat
      BY <1>2 DEF Kept, NewRenderer, LogTyped
    <2>2. DOMAIN log \subseteq Nat
      BY DEF LogTyped
    <2>3. \A kinds, c: ~Within(t, kinds, stream[s].next, stream[s].next, c)
      BY <2>1, <2>2 DEF Within
    <2>4. Shows(t, <<>>, stream[s].next, stream[s].next)
      BY <2>3 DEF Shows
    <2> QED
      BY <2>1, <2>4
  <1> QED
    BY <1>1, <1>2

(* What the bot shows after event i of its session, or of another one: the   *)
(* other turns' renderers stay, this one's shows the event too.              *)
TableShows(s, i, table) ==
  /\ \A u \in DOMAIN table: u # log[i].turn => u \in DOMAIN renderers[s] /\ table[u] = renderers[s][u]
  /\ log[i].turn \in DOMAIN table =>
       LET r == table[log[i].turn]
       IN /\ r.from <= i
          /\ Distinct(log[i].turn) => Shows(log[i].turn, r.rows, r.from, i + 1)
          /\ r.bubble # 0 => bubbles'[r.bubble].from = r.from /\ ~bubbles'[r.bubble].sealed

(* Only bubbles of the event's turn change, and one that is closed is closed *)
(* with what the turn has come to.                                           *)
BubblesAfter(s, i) ==
  /\ DOMAIN bubbles \subseteq DOMAIN bubbles'
  /\ \A b \in DOMAIN bubbles: bubbles[b].turn # log[i].turn \/ home[log[i].turn] # s =>
       bubbles'[b] = bubbles[b]
  /\ \A b \in DOMAIN bubbles': bubbles'[b].sealed =>
       \/ b \in DOMAIN bubbles /\ bubbles'[b] = bubbles[b]
       \/ stage[bubbles'[b].turn] = "over" /\ TextTells(bubbles'[b])

LEMMA PastEventTells ==
  ASSUME TellInv, Inv', NEW s \in Sessions, NEW i \in DOMAIN log,
         stream[s].state = "open", i = stream[s].next,
         stream' = [stream EXCEPT ![s].next = i + 1], UNCHANGED gateway,
         NEW table, renderers' = [renderers EXCEPT ![s] = table],
         TableShows(s, i, table), BubblesAfter(s, i)
  PROVE  TellInv'
PROOF
  <1> USE DEF TellInv, Inv, StreamInv
  <1> DEFINE t == log[i].turn
  <1>1. UNCHANGED <<stage, home, made, log>>
    BY DEF gateway
  <1>2. i \in Nat /\ t \in Turns
    BY EventTyped
  <1>3. /\ stream'[s].next = i + 1
        /\ \A u \in Sessions: u # s => stream'[u] = stream[u]
    BY DEF LogTyped
  <1>4. /\ renderers'[s] = table
        /\ \A u \in Sessions: u # s => renderers'[u] = renderers[u]
    BY DEF BotTyped
  <1>5. \A u \in Turns: \A k \in {"planned", "executed", "finished"}: Logged(u, k)' = Logged(u, k)
    BY <1>1 DEF Logged
  <1>6. CallsOrdered'
    <2>1. ASSUME NEW u \in Turns PROVE InOrder(u)'
      BY <1>1, <1>5, OrderStays DEF CallsOrdered
    <2> QED
      BY <2>1 DEF CallsOrdered
  <1>7. \A u \in Turns: \A rows, from, next: Shows(u, rows, from, next) => Shows(u, rows, from, next)'
    <2>1. \A u, kinds, from, next, c: Within(u, kinds, from, next, c)' <=> Within(u, kinds, from, next, c)
      BY <1>1 DEF Within
    <2> QED
      BY <2>1, ShowsStays
  <1>8. RenderersShow'
    <2> SUFFICES ASSUME NEW v \in Sessions, NEW u \in DOMAIN renderers'[v]
                 PROVE  \E r, next: /\ r = renderers'[v][u] /\ next = stream'[v].next
                                    /\ r.from <= next
                                    /\ Distinct(u) => Shows(u, r.rows, r.from, next)'
      BY DEF RenderersShow, Distinct, IsInjective
    <2>1. u \in Turns
      BY DEF BotTyped
    <2>2. CASE v # s
      <3>1. renderers'[v] = renderers[v] /\ stream'[v] = stream[v]
        BY <1>3, <1>4, <2>2
      <3>2. PICK r, next: r = renderers[v][u] /\ next = stream[v].next
        OBVIOUS
      <3>3. r.from <= next /\ (Distinct(u) => Shows(u, r.rows, r.from, next))
        BY <3>1, <3>2 DEF RenderersShow
      <3>4. Distinct(u) => Shows(u, r.rows, r.from, next)'
        BY <1>7, <2>1, <3>3
      <3>5. r = renderers'[v][u] /\ next = stream'[v].next
        BY <3>1, <3>2
      <3> QED
        BY <3>3, <3>4, <3>5
    <2>3. CASE v = s /\ u # t
      <3>1. PICK r: r = table[u] /\ r = renderers[s][u] /\ u \in DOMAIN renderers[s]
        BY <1>4, <2>3 DEF TableShows
      <3>2. r.from <= i /\ (Distinct(u) => Shows(u, r.rows, r.from, i)) /\ r.from \in Nat
        BY <3>1 DEF RenderersShow, BotTyped, Renderer
      <3>3. \A kinds, c: Within(u, kinds, r.from, i + 1, c) <=> Within(u, kinds, r.from, i, c)
        BY <2>1, <2>3, <3>2, WindowGrows
      <3>4. Distinct(u) => Shows(u, r.rows, r.from, i + 1)
        BY <3>2, <3>3 DEF Shows
      <3>5. r.from <= i + 1
        BY <1>2, <3>2
      <3>6. PICK next: next = i + 1
        OBVIOUS
      <3>7. Distinct(u) => Shows(u, r.rows, r.from, next)'
        BY <1>7, <2>1, <3>4, <3>6
      <3>8. r = renderers'[v][u] /\ next = stream'[v].next
        BY <1>3, <1>4, <2>3, <3>1, <3>6
      <3> QED
        BY <3>5, <3>6, <3>7, <3>8
    <2>4. CASE v = s /\ u = t
      <3>1. PICK r: r = table[t] /\ t \in DOMAIN table
        BY <1>4, <2>4
      <3>2. r.from <= i /\ (Distinct(t) => Shows(t, r.rows, r.from, i + 1))
        BY <3>1 DEF TableShows
      <3>3. r.from \in Nat
        BY <1>4, <2>4, <3>1 DEF BotTyped, Renderer
      <3>4. r.from <= i + 1
        BY <1>2, <3>2, <3>3
      <3>5. PICK next: next = i + 1
        OBVIOUS
      <3>6. Distinct(u) => Shows(u, r.rows, r.from, next)'
        BY <1>7, <2>1, <2>4, <3>2, <3>5
      <3>7. r = renderers'[v][u] /\ next = stream'[v].next
        BY <1>3, <1>4, <2>4, <3>1, <3>5
      <3> QED
        BY <3>4, <3>5, <3>6, <3>7
    <2> QED
      BY <2>2, <2>3, <2>4
  <1>9. BubblesOpen'
    <2> SUFFICES ASSUME NEW v \in Sessions, NEW u \in DOMAIN renderers'[v],
                        renderers'[v][u].bubble # 0
                 PROVE  /\ bubbles'[renderers'[v][u].bubble].from = renderers'[v][u].from
                        /\ ~bubbles'[renderers'[v][u].bubble].sealed
      BY DEF BubblesOpen
    <2>1. CASE v = s /\ u = t
      BY <1>4, <2>1 DEF TableShows
    <2>2. CASE v # s \/ u # t
      <3>1. /\ u \in DOMAIN renderers[v] /\ renderers'[v][u] = renderers[v][u]
            /\ renderers[v][u].bubble \in DOMAIN bubbles
            /\ bubbles[renderers[v][u].bubble].turn = u
        BY <1>4, <2>2 DEF TableShows, OwnBubble
      <3>2. bubbles[renderers[v][u].bubble].from = renderers[v][u].from
            /\ ~bubbles[renderers[v][u].bubble].sealed
        BY <3>1 DEF BubblesOpen
      <3>3. CASE u # t
        BY <3>1, <3>2, <3>3 DEF BubblesAfter
      <3>4. CASE u = t
        <4>1. v # s /\ home[t] = v
          BY <2>2, <3>1, <3>4 DEF RenderersAreLive
        <4>2. bubbles'[renderers[v][u].bubble] = bubbles[renderers[v][u].bubble]
          BY <3>1, <4>1 DEF BubblesAfter
        <4> QED
          BY <3>1, <3>2, <4>2
      <3> QED
        BY <3>3, <3>4
    <2> QED
      BY <2>1, <2>2
  <1>10. SealedOver'
    BY <1>1 DEF SealedOver, BubblesAfter
  <1>11. TextsTell'
    <2> SUFFICES ASSUME NEW b \in DOMAIN bubbles', bubbles'[b].sealed
                 PROVE  \E x: x = bubbles'[b] /\ TextTells(x)'
      BY DEF TextsTell
    <2>1. PICK x: x = bubbles'[b]
      OBVIOUS
    <2>2. TextTells(x) /\ x.turn \in Turns
      <3>1. bubbles'[b] \in BubbleSet
        BY DEF BotTyped
      <3> QED
        BY <2>1, <3>1 DEF BubblesAfter, TextsTell, BubbleSet
    <2>3. TextTells(x)'
      BY <1>1, <1>5, <2>2, TellsStays
    <2> QED
      BY <2>1, <2>3
  <1> QED
    BY <1>6, <1>8, <1>9, <1>10, <1>11

LEMMA DeliverTells ==
  ASSUME TellInv, Inv', NEW s \in Sessions, NEW sent, NEW footed, Deliver(s, sent, footed)
  PROVE  TellInv'
PROOF
  <1> USE DEF TellInv, Inv, StreamInv
  <1> DEFINE i == stream[s].next
             t == log[i].turn
             r == Kept(s, t)
  <1>1. /\ i \in DOMAIN log /\ t \in Turns /\ i \in Nat
        /\ stream[s].state = "open"
    <2>1. log \in Seq(Events) /\ i \in Nat /\ 1 <= i /\ i <= Len(log) /\ stream[s].state = "open"
      BY DEF Deliver, LogTyped, StreamsFollow
    <2>2. i \in DOMAIN log
      BY <2>1
    <2> QED
      BY <2>1, <2>2, EventTyped
  <1>2. stream' = [stream EXCEPT ![s].next = i + 1] /\ UNCHANGED gateway
    BY DEF Deliver
  <1>3. /\ bubbles \in Seq(BubbleSet) /\ Len(bubbles) \in Nat /\ DOMAIN bubbles = 1..Len(bubbles)
        /\ renderers = [u \in Sessions |-> renderers[u]]
    BY DEF BotTyped
  <1>4. r \in Renderer
    BY <1>1, RendererGiven
  <1>5. /\ r.from <= i /\ (Distinct(t) => Shows(t, r.rows, r.from, i))
        /\ r.bubble # 0 => /\ r.bubble \in DOMAIN bubbles /\ bubbles[r.bubble].turn = t
                           /\ bubbles[r.bubble].from = r.from /\ ~bubbles[r.bubble].sealed
    BY <1>1, GivenShows
  <1>6. InOrder(t)
    BY <1>1 DEF CallsOrdered
  <1>7. CASE home[t] # s
    <2>1. UNCHANGED telegram
      BY <1>7 DEF Deliver
    <2>2. renderers' = [renderers EXCEPT ![s] = renderers[s]] /\ bubbles' = bubbles
      BY <1>3, <2>1 DEF telegram
    <2>3. t \notin DOMAIN renderers[s]
      BY <1>7 DEF RenderersAreLive
    <2>4. TableShows(s, i, renderers[s]) /\ BubblesAfter(s, i)
      BY <2>2, <2>3 DEF TableShows, BubblesAfter
    <2> QED
      BY <1>1, <1>2, <2>2, <2>4, PastEventTells
  <1>8. ASSUME home[t] = s, log[i].kind # "finished" PROVE TellInv'
    <2> DEFINE rows == RowsAfter(r, log[i])
    <2>1. HandleUnfinished(s, t, r, log[i], sent)
      BY <1>8 DEF Deliver, Dispatch, Kept
    <2>2. rows \in Seq(Row)
      BY <1>1, <1>4, RowsAfterEvent, EventTyped
    <2>3. Distinct(t) => Shows(t, rows, r.from, i + 1)
      BY <1>1, <1>4, <1>5, <1>6, NextShown
    <2> HIDE DEF rows, r
    <2>4. \E nb \in Nat:
            /\ renderers' = [renderers EXCEPT ![s] =
                 With(renderers[s], t, [r EXCEPT !.rows = rows, !.bubble = nb])]
            /\ nb # 0 => bubbles'[nb].from = r.from /\ ~bubbles'[nb].sealed
            /\ BubblesAfter(s, i)
      <3>1. CASE PostsBubble(r, log[i]) /\ sent
        <4>1. PICK cut \in Cuts(rows): bubbles' = Append(bubbles, Bubble(t, r, rows, cut))
          BY <2>1, <3>1 DEF HandleUnfinished, rows
        <4>2. renderers' = [renderers EXCEPT ![s] =
                With(renderers[s], t, [r EXCEPT !.rows = rows, !.bubble = Len(bubbles) + 1])]
          BY <1>3, <2>1, <3>1 DEF HandleUnfinished, rows
        <4>3. /\ Bubble(t, r, rows, cut) \in BubbleSet /\ Bubble(t, r, rows, cut).from = r.from
              /\ ~Bubble(t, r, rows, cut).sealed
          BY <1>1, <1>4, <2>2, CutsNumbers DEF Bubble, BubbleSet, Renderer
        <4>4. PICK x \in BubbleSet: /\ bubbles' = Append(bubbles, x)
                                    /\ x.from = r.from /\ ~x.sealed
          BY <4>1, <4>3
        <4>5. /\ DOMAIN bubbles' = DOMAIN bubbles \union {Len(bubbles) + 1}
              /\ bubbles'[Len(bubbles) + 1] = x
              /\ \A b \in DOMAIN bubbles: bubbles'[b] = bubbles[b]
          BY <4>4, PostedBubble
        <4>6. BubblesAfter(s, i)
          BY <4>4, <4>5 DEF BubblesAfter
        <4>7. Len(bubbles) + 1 \in Nat
          BY <1>3
        <4> QED
          BY <4>2, <4>4, <4>5, <4>6, <4>7
      <3>2. CASE ~(PostsBubble(r, log[i]) /\ sent)
        <4>1. r.bubble \in Nat /\ [r EXCEPT !.rows = rows].bubble = r.bubble
          BY <1>4 DEF Renderer
        <4>2. /\ renderers' = [renderers EXCEPT ![s] =
                   With(renderers[s], t, [r EXCEPT !.rows = rows, !.bubble = r.bubble])]
              /\ \/ bubbles' = bubbles
                 \/ /\ r.bubble # 0
                    /\ \E cut \in Cuts(rows):
                         bubbles' = [bubbles EXCEPT ![r.bubble] = Edit(@, rows, cut)]
          BY <2>1, <3>2, <4>1 DEF HandleUnfinished, EditsBubble, Edit, rows
        <4>3. CASE bubbles' = bubbles
          BY <1>5, <4>1, <4>2, <4>3 DEF BubblesAfter
        <4>4. ASSUME r.bubble # 0, NEW cut \in Cuts(rows),
                     bubbles' = [bubbles EXCEPT ![r.bubble] = Edit(@, rows, cut)]
              PROVE  bubbles'[r.bubble].from = r.from /\ ~bubbles'[r.bubble].sealed /\ BubblesAfter(s, i)
          <5>1. PICK old \in BubbleSet: old = bubbles[r.bubble]
            BY <1>3, <1>5, <4>4
          <5>2. Edit(old, rows, cut).from = old.from /\ Edit(old, rows, cut).sealed = old.sealed
            BY <1>1, <1>4, <2>2, <5>1, BubblesMade
          <5>3. bubbles' = [bubbles EXCEPT ![r.bubble] = Edit(old, rows, cut)]
            BY <4>4, <5>1
          <5>4. /\ DOMAIN bubbles' = DOMAIN bubbles /\ bubbles'[r.bubble] = Edit(old, rows, cut)
                /\ \A b \in DOMAIN bubbles: b # r.bubble => bubbles'[b] = bubbles[b]
            BY <1>5, <4>4, <5>3, EditedBubble
          <5> QED
            BY <1>5, <1>8, <4>4, <5>1, <5>2, <5>4 DEF BubblesAfter
        <4> QED
          BY <1>5, <4>1, <4>2, <4>3, <4>4
      <3> QED
        BY <3>1, <3>2
    <2>5. PICK nb \in Nat:
            /\ renderers' = [renderers EXCEPT ![s] =
                 With(renderers[s], t, [r EXCEPT !.rows = rows, !.bubble = nb])]
            /\ nb # 0 => bubbles'[nb].from = r.from /\ ~bubbles'[nb].sealed
            /\ BubblesAfter(s, i)
      BY <2>4
    <2> DEFINE nr == [r EXCEPT !.rows = rows, !.bubble = nb]
               table == With(renderers[s], t, nr)
    <2>6. nr.from = r.from /\ nr.rows = rows /\ nr.bubble = nb
      BY <1>4 DEF Renderer
    <2>7. renderers' = [renderers EXCEPT ![s] = table]
      BY <2>5
    <2> HIDE DEF nr
    <2>8. /\ DOMAIN table = DOMAIN renderers[s] \union {t} /\ table[t] = nr
          /\ \A u \in DOMAIN table: u # t => table[u] = renderers[s][u]
      BY DEF With
    <2> HIDE DEF table
    <2>9. TableShows(s, i, table)
      BY <1>5, <2>3, <2>5, <2>6, <2>8 DEF TableShows
    <2> QED
      BY <1>1, <1>2, <2>5, <2>7, <2>9, PastEventTells
  <1>9. ASSUME home[t] = s, log[i].kind = "finished" PROVE TellInv'
    <2> DEFINE table == [u \in DOMAIN renderers[s] \ {t} |-> renderers[s][u]]
    <2>1. HandleFinished(s, t, r, sent, footed)
      BY <1>9 DEF Deliver, Dispatch, Kept
    <2>2. renderers' = [renderers EXCEPT ![s] = table]
      BY <2>1 DEF HandleFinished
    <2>3. TableShows(s, i, table)
      BY DEF TableShows
    <2>4. BubblesAfter(s, i)
      <3>1. CASE bubbles' = bubbles
        BY <3>1 DEF BubblesAfter
      <3>2. ASSUME r.bubble # 0, NEW cut \in Cuts(r.rows),
                   bubbles' = [bubbles EXCEPT ![r.bubble] = Seal(@, r.rows, cut)]
            PROVE  BubblesAfter(s, i)
        <4> HIDE DEF r
        <4>1. PICK old \in BubbleSet: old = bubbles[r.bubble]
          BY <1>3, <1>5, <3>2
        <4>2. /\ Seal(old, r.rows, cut).turn = old.turn /\ Seal(old, r.rows, cut).from = old.from
              /\ Seal(old, r.rows, cut).rows = r.rows
          BY <1>1, <1>4, <3>2, <4>1, BubblesMade DEF Renderer
        <4>3. bubbles' = [bubbles EXCEPT ![r.bubble] = Seal(old, r.rows, cut)]
          BY <3>2, <4>1
        <4>4. /\ DOMAIN bubbles' = DOMAIN bubbles
              /\ \A b \in DOMAIN bubbles: b # r.bubble => bubbles'[b] = bubbles[b]
              /\ bubbles'[r.bubble].turn = t /\ bubbles'[r.bubble].from = r.from
              /\ bubbles'[r.bubble].rows = r.rows
          BY <1>5, <3>2, <4>1, <4>2, <4>3, EditedBubble
        <4>5. i \in Logged(t, "finished")
          BY <1>1, <1>9 DEF Logged
        <4>6. stage[t] = "over"
          BY <1>1, <4>5 DEF FinishesOnce
        <4>7. PICK b: b = bubbles'[r.bubble]
          OBVIOUS
        <4>8. b.turn = t /\ b.rows \in Seq(Row) /\ b.from \in Nat /\ b.from <= i
              /\ b.rows = r.rows /\ b.from = r.from
          BY <1>4, <1>5, <4>4, <4>7 DEF Renderer
        <4>9. TextTells(b)
          BY <1>1, <1>5, <1>6, <4>5, <4>8, EndTells
        <4> QED
          BY <1>5, <1>9, <3>2, <4>4, <4>6, <4>7, <4>9 DEF BubblesAfter
      <3> QED
        BY <2>1, <3>1, <3>2 DEF HandleFinished, LastEdit, Seal
    <2> HIDE DEF table
    <2> QED
      BY <1>1, <1>2, <2>2, <2>3, <2>4, PastEventTells
  <1> QED
    BY <1>7, <1>8, <1>9

-----------------------------------------------------------------------------
(* What the text tells, the rows that are shown tell, but for the calls of   *)
(* the rows that are cut: those come before the shown ones.                  *)
LEMMA ShownTells ==
  ASSUME NEW b \in BubbleSet, TextTells(b)
  PROVE  Tells(b)
PROOF
  <1> DEFINE t == b.turn
             outcomes == {i \in Logged(t, "executed"): i >= b.from}
             hidden == {i \in outcomes: \A n \in Shown(b): b.rows[n].call # log[i].call}
  <1> SUFFICES ASSUME Recorded(t), Distinct(t)
               PROVE  /\ \A n \in Shown(b): /\ b.rows[n].done
                                            /\ \E i \in outcomes: log[i].call = b.rows[n].call
                      /\ \A m, n \in Shown(b): m < n => Before(t, b.rows[m].call, b.rows[n].call)
                      /\ \A i \in hidden: \A n \in Shown(b):
                           Before(t, log[i].call, b.rows[n].call)
                      /\ hidden # {} => Len(b.rows) - b.cut >= FitRows
    BY DEF Tells
  <1>1. /\ b.rows \in Seq(Row) /\ b.cut \in Nat /\ b.cut \in Cuts(b.rows)
        /\ Len(b.rows) \in Nat /\ DOMAIN b.rows = 1..Len(b.rows)
    BY DEF BubbleSet
  <1>2. /\ {b.rows[n].call: n \in DOMAIN b.rows} = {log[i].call: i \in outcomes}
        /\ \A n \in DOMAIN b.rows: b.rows[n].done
        /\ \A m, n \in DOMAIN b.rows: m < n => Before(t, b.rows[m].call, b.rows[n].call)
    BY DEF TextTells
  <1>3. Shown(b) \subseteq DOMAIN b.rows
    BY DEF Shown
  <1>4. \A i \in hidden: \E m \in DOMAIN b.rows: m <= b.cut /\ b.rows[m].call = log[i].call
    <2> SUFFICES ASSUME NEW i \in hidden
                 PROVE  \E m \in DOMAIN b.rows: m <= b.cut /\ b.rows[m].call = log[i].call
      OBVIOUS
    <2>1. PICK m \in DOMAIN b.rows: b.rows[m].call = log[i].call
      BY <1>2
    <2>2. m \notin Shown(b)
      BY <2>1
    <2> QED
      BY <1>1, <2>1, <2>2 DEF Shown
  <1>5. \A i \in hidden: \A n \in Shown(b): Before(t, log[i].call, b.rows[n].call)
    <2> SUFFICES ASSUME NEW i \in hidden, NEW n \in Shown(b)
                 PROVE  Before(t, log[i].call, b.rows[n].call)
      OBVIOUS
    <2>1. PICK m \in DOMAIN b.rows: m <= b.cut /\ b.rows[m].call = log[i].call
      BY <1>4
    <2>2. m < n /\ n \in DOMAIN b.rows
      BY <1>1, <2>1 DEF Shown
    <2> QED
      BY <1>2, <2>1, <2>2
  <1>6. hidden # {} => b.cut > 0
    BY <1>1, <1>4
  <1>7. \A n \in Shown(b): b.rows[n].done /\ \E i \in outcomes: log[i].call = b.rows[n].call
    BY <1>2, <1>3
  <1> QED
    BY <1>1, <1>2, <1>3, <1>5, <1>6, <1>7 DEF Cuts

(* A finished bubble tells what happened, in every behaviour: whatever was   *)
(* dropped, refused or restarted, a turn's closed bubble shows in order and  *)
(* done the calls whose outcomes came after its renderer was made, all of    *)
(* them or, of a turn too long for one message, the newest                   *)
(* (turn_renderer.py _on_tool_call_executed, _on_turn_finished,              *)
(* _compose_stream_bubble_text).                                             *)
THEOREM SealedBubblesTell == Spec => []SealedTells
PROOF
  <1>1. Init /\ Inv => TellInv
    <2> SUFFICES ASSUME Init, Inv PROVE TellInv
      OBVIOUS
    <2>1. \A t \in Turns: Len(Asks[t]) \in Nat
      <3>1. \A t \in Turns: Asks[t] \in Seq(CallIds)
        BY TurnStreamAssumption
      <3> QED
        BY <3>1
    <2>2. bubbles = <<>> /\ log = <<>> /\ \A s \in Sessions: DOMAIN renderers[s] = {}
      BY DEF Init, Nobody
    <2>3. \A t \in Turns: made[t] = 0 /\ stage[t] \notin Calling
                          /\ Logged(t, "finished") = {} /\ CallEvents(t) = {}
                          /\ Logged(t, "executed") = {}
      BY <2>2 DEF Init, Logged, CallEvents, Calling
    <2>4. CallsOrdered
      BY <2>1, <2>3 DEF CallsOrdered, InOrder
    <2> QED
      BY <2>2, <2>4 DEF TellInv, RenderersShow, BubblesOpen, SealedOver, TextsTell
  <1>2. TellInv /\ Inv' /\ [Next]_vars => TellInv'
    <2> SUFFICES ASSUME TellInv, Inv', [Next]_vars PROVE TellInv'
      OBVIOUS
    <2>1. CASE \E s \in Sessions: \E sent, footed \in BOOLEAN: Deliver(s, sent, footed)
      BY <2>1, DeliverTells
    <2>2. CASE \E t \in Turns: Plans(t) \/ CallPlanned(t) \/ CallExecuted(t) \/ Finishes(t)
      BY <2>2, EmittingTells
    <2>3. CASE \/ \E t \in Turns: (\E viaBot \in BOOLEAN: Ask(t, viaBot)) \/ EndsDetached(t)
               \/ \E s \in Sessions: Connect(s) \/ ConnectFails(s) \/ Drop(s) \/ BackoffOver(s)
               \/ GatewayRestart \/ BotRestart \/ UNCHANGED vars
      <3>1. Quiet
        BY <2>3, QuietActions DEF TellInv
      <3> QED
        BY <3>1, QuietTells
    <2> QED
      BY <2>1, <2>2, <2>3 DEF Next
  <1>3. TellInv => SealedTells
    <2> SUFFICES ASSUME TellInv, NEW k \in DOMAIN bubbles, bubbles[k].sealed
                 PROVE  Tells(bubbles[k])
      BY DEF SealedTells
    <2>1. bubbles[k] \in BubbleSet
      BY DEF TellInv, Inv, StreamInv, BotTyped
    <2>2. TextTells(bubbles[k])
      BY DEF TellInv, TextsTell
    <2> QED
      BY <2>1, <2>2, ShownTells
  <1> QED
    BY <1>1, <1>2, <1>3, StreamInvariance, PTL DEF Spec
=============================================================================
