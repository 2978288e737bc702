---------------------------- MODULE MemoryProofs ----------------------------
(* What TLAPS proves of the conversation memory, for any batches of calls,  *)
(* headers in its texts, budget, ages and number of days: a turn whose append*)
(* returned stays in its day's file; a result that holds no header is read  *)
(* back with its own call; today's layer is never cut twice; the pruner     *)
(* takes only old lines of the summary.                                     *)
EXTENDS Memory, FiniteSetTheorems, SequenceTheorems, TLAPS

-----------------------------------------------------------------------------
(* Sequences.                                                               *)

(* s stands somewhere in f, in one piece. *)
Within(s, f) ==
  \E n \in 0..Len(f): n + Len(s) <= Len(f) /\ \A k \in 1..Len(s): f[n + k] = s[k]

(* The form TurnsKept states it in says the same. *)
LEMMA WithinIsPrefix ==
  ASSUME NEW S, NEW s \in Seq(S), NEW f \in Seq(S), NEW n \in 0..Len(f)
  PROVE  IsPrefix(s, SubSeq(f, n + 1, Len(f)))
           <=> n + Len(s) <= Len(f) /\ \A k \in 1..Len(s): f[n + k] = s[k]
<1> DEFINE g == SubSeq(f, n + 1, Len(f))
<1>1. Len(f) \in Nat /\ Len(s) \in Nat /\ \A k \in 1..Len(f): f[k] \in S
  BY LenProperties, ElementOfSeq
<1>2. g \in Seq(S) /\ Len(g) = Len(f) - n /\ \A k \in 1..Len(f) - n: g[k] = f[n + k]
  <2>1. \A k \in n + 1 .. Len(f): f[k] \in S
    BY <1>1
  <2>2. /\ g \in Seq(S)
        /\ Len(g) = IF n + 1 <= Len(f) THEN Len(f) - (n + 1) + 1 ELSE 0
        /\ \A k \in 1..Len(f) - (n + 1) + 1: g[k] = f[n + 1 + k - 1]
    <3> HIDE DEF g
    <3>1. n + 1 \in Int /\ Len(f) \in Int
      BY <1>1
    <3> QED BY <2>1, <3>1, SubSeqProperties DEF g
  <2> HIDE DEF g
  <2> QED BY <2>2, <1>1
<1> HIDE DEF g
<1>3. SubSeq(s, 1, Len(s)) = s
  BY SubSeqFull
<1>4. ASSUME Len(s) <= Len(g)
      PROVE  SubSeq(g, 1, Len(s)) = s <=> \A k \in 1..Len(s): g[k] = s[k]
  <2>1. \A k \in 1..Len(s): g[k] \in S
    BY <1>1, <1>2, <1>4, ElementOfSeq
  <2> DEFINE h == SubSeq(g, 1, Len(s))
  <2>2. /\ h \in Seq(S)
        /\ Len(h) = IF 1 <= Len(s) THEN Len(s) - 1 + 1 ELSE 0
        /\ \A k \in 1..Len(s) - 1 + 1: h[k] = g[1 + k - 1]
    <3>1. 1 \in Int /\ Len(s) \in Int
      BY <1>1
    <3> HIDE DEF h
    <3> QED BY <2>1, <3>1, SubSeqProperties DEF h
  <2> HIDE DEF h
  <2>3. Len(h) = Len(s) /\ \A k \in 1..Len(s): h[k] = g[k]
    BY <2>2, <1>1
  <2>4. (\A k \in 1..Len(s): g[k] = s[k]) => h = s
    BY <2>2, <2>3, SeqEqual
  <2> QED BY <2>3, <2>4 DEF h
<1>5. IsPrefix(s, g) <=> Len(s) <= Len(g) /\ SubSeq(g, 1, Len(s)) = s
  BY <1>3 DEF IsPrefix
<1>6. Len(s) <= Len(g) <=> n + Len(s) <= Len(f)
  BY <1>1, <1>2
<1>7. Len(s) <= Len(g) => \A k \in 1..Len(s): g[k] = f[n + k]
  BY <1>1, <1>2
<1> QED BY <1>4, <1>5, <1>6, <1>7 DEF g

(* What is written behind a sequence leaves what stands in it, and stands in *)
(* the result.                                                              *)
LEMMA WithinConcat ==
  ASSUME NEW S, NEW f \in Seq(S), NEW g \in Seq(S)
  PROVE  /\ \A s \in Seq(S): Within(s, f) => Within(s, f \o g)
         /\ Within(g, f \o g)
<1>1. /\ f \o g \in Seq(S) /\ Len(f \o g) = Len(f) + Len(g)
      /\ \A i \in 1..Len(f) + Len(g): (f \o g)[i] = IF i <= Len(f) THEN f[i] ELSE g[i - Len(f)]
  BY ConcatProperties
<1>2. Len(f) \in Nat /\ Len(g) \in Nat
  BY LenProperties
<1>3. ASSUME NEW s \in Seq(S), Within(s, f) PROVE Within(s, f \o g)
  <2>1. PICK n \in 0..Len(f): n + Len(s) <= Len(f) /\ \A k \in 1..Len(s): f[n + k] = s[k]
    BY <1>3 DEF Within
  <2>2. Len(s) \in Nat
    BY LenProperties
  <2>3. n \in 0..Len(f \o g) /\ n + Len(s) <= Len(f \o g)
    BY <1>1, <1>2, <2>1, <2>2
  <2>4. \A k \in 1..Len(s): (f \o g)[n + k] = s[k]
    BY <1>1, <1>2, <2>1, <2>2
  <2> QED BY <2>3, <2>4 DEF Within
<1>4. Within(g, f \o g)
  <2>1. Len(f) \in 0..Len(f \o g) /\ Len(f) + Len(g) <= Len(f \o g)
    BY <1>1, <1>2
  <2>2. \A k \in 1..Len(g): (f \o g)[Len(f) + k] = g[k]
    BY <1>1, <1>2
  <2> QED BY <2>1, <2>2 DEF Within
<1> QED BY <1>3, <1>4

-----------------------------------------------------------------------------
(* The blocks of a turn.                                                    *)

LEMMA CallsTyped ==
  ASSUME NEW t \in 1..MaxTurns, NEW batch \in Batches
  PROVE  /\ batch \in Seq(Names)
         /\ Len(batch) \in Nat
         /\ CallsOf(t, batch) \in Seq(Calls)
         /\ Len(CallsOf(t, batch)) = Len(batch)
         /\ DOMAIN CallsOf(t, batch) = 1..Len(batch)
         /\ \A n \in 1..Len(batch): CallsOf(t, batch)[n] = [turn |-> t, nth |-> n, name |-> batch[n]]
<1>1. batch \in Seq(Names) /\ Len(batch) \in Nat
  BY MemoryAssumption, LenProperties
<1>2. \A n \in 1..Len(batch): batch[n] \in Names
  BY <1>1, ElementOfSeq
<1>3. CallsOf(t, batch) \in [1..Len(batch) -> Calls]
  BY <1>1, <1>2 DEF CallsOf, Calls
<1>4. CallsOf(t, batch) \in Seq(Calls)
  BY <1>1, <1>3 DEF Seq
<1>5. Len(CallsOf(t, batch)) = Len(batch)
  BY <1>1, <1>3, <1>4, LenProperties
<1> QED BY <1>1, <1>3, <1>4, <1>5 DEF CallsOf

(* They are written as blocks of which the first is the user's; what follows *)
(* the block of calls is each call's result, in the calls' order, and then  *)
(* the reply.                                                               *)
PlainShape(t, batch, torn, blocks) ==
  /\ blocks \in Seq(Block)
  /\ Len(blocks) = IF batch = <<>> THEN 2 ELSE Len(batch) + 3
  /\ blocks[1] = Text("user", t) /\ blocks[Len(blocks)] = Text("assistant", t)
  /\ batch # <<>> =>
       /\ blocks[2] = [role |-> "calls", turn |-> t, calls |-> CallsOf(t, batch), bad |-> torn]
       /\ \A n \in 1..Len(batch):
            blocks[n + 2] = [role |-> "tool", turn |-> t, call |-> CallsOf(t, batch)[n]]

LEMMA PlainBlocksShape ==
  ASSUME NEW t \in 1..MaxTurns, NEW batch \in Batches, NEW torn \in BOOLEAN
  PROVE  PlainShape(t, batch, torn, PlainBlocks(t, batch, torn))
<1> DEFINE calls == CallsOf(t, batch)
           head  == [role |-> "calls", turn |-> t, calls |-> calls, bad |-> torn]
           outs  == [n \in 1..Len(batch) |-> [role |-> "tool", turn |-> t, call |-> calls[n]]]
           tools == IF batch = <<>> THEN <<>> ELSE <<head>> \o outs
           user  == Text("user", t)
           reply == Text("assistant", t)
<1>1. /\ batch \in Seq(Names) /\ Len(batch) \in Nat /\ calls \in Seq(Calls)
      /\ \A n \in 1..Len(batch): calls[n] \in Calls
  BY CallsTyped, ElementOfSeq
<1>2. PlainBlocks(t, batch, torn) = <<user>> \o tools \o <<reply>>
  BY DEF PlainBlocks
<1>3. head \in Block /\ user \in Block /\ reply \in Block
  BY <1>1 DEF Block, Text
<1>4. outs \in Seq(Block) /\ Len(outs) = Len(batch)
  <2>1. \A n \in 1..Len(batch): [role |-> "tool", turn |-> t, call |-> calls[n]] \in Block
    BY <1>1 DEF Block
  <2>2. outs \in [1..Len(batch) -> Block]
    BY <2>1
  <2> HIDE DEF outs
  <2>3. outs \in Seq(Block)
    BY <1>1, <2>2 DEF Seq
  <2> QED BY <1>1, <2>2, <2>3, LenProperties
<1>5. \A n \in 1..Len(batch): outs[n] = [role |-> "tool", turn |-> t, call |-> calls[n]]
  OBVIOUS
<1> HIDE DEF head, outs, user, reply
<1>6. batch # <<>> => Len(batch) >= 1
  BY <1>1, EmptySeq
<1>7. /\ <<head>> \in Seq(Block) /\ Len(<<head>>) = 1 /\ <<head>>[1] = head
      /\ <<user>> \in Seq(Block) /\ Len(<<user>>) = 1 /\ <<user>>[1] = user
      /\ <<reply>> \in Seq(Block) /\ Len(<<reply>>) = 1 /\ <<reply>>[1] = reply
  BY <1>3
<1> DEFINE made1 == <<head>> \o outs
<1>8. /\ made1 \in Seq(Block) /\ Len(made1) = 1 + Len(batch)
      /\ made1[1] = head /\ \A n \in 1..Len(batch): made1[1 + n] = outs[n]
  <2>1. /\ made1 \in Seq(Block) /\ Len(made1) = Len(<<head>>) + Len(outs)
        /\ \A i \in 1..Len(<<head>>) + Len(outs):
             made1[i] = IF i <= Len(<<head>>) THEN <<head>>[i] ELSE outs[i - Len(<<head>>)]
    BY <1>4, <1>7, ConcatProperties
  <2> HIDE DEF made1
  <2> QED BY <1>1, <1>4, <1>7, <2>1
<1>9. /\ tools \in Seq(Block) /\ Len(tools) = IF batch = <<>> THEN 0 ELSE 1 + Len(batch)
      /\ batch # <<>> => tools = made1
  BY <1>8, EmptySeq
<1> HIDE DEF made1, tools
<1> DEFINE front == <<user>> \o tools
<1>10. /\ front \in Seq(Block) /\ Len(front) = 1 + Len(tools)
       /\ front[1] = user /\ \A i \in 1..Len(tools): front[1 + i] = tools[i]
  <2>1. /\ front \in Seq(Block) /\ Len(front) = Len(<<user>>) + Len(tools)
        /\ \A i \in 1..Len(<<user>>) + Len(tools):
             front[i] = IF i <= Len(<<user>>) THEN <<user>>[i] ELSE tools[i - Len(<<user>>)]
    BY <1>9, <1>7, ConcatProperties
  <2>2. Len(tools) \in Nat
    BY <1>9, LenProperties
  <2> HIDE DEF front
  <2> QED BY <1>7, <2>1, <2>2
<1> HIDE DEF front
<1> DEFINE all == front \o <<reply>>
<1>11. /\ all \in Seq(Block) /\ Len(all) = 2 + Len(tools)
       /\ all[Len(all)] = reply /\ \A i \in 1..Len(front): all[i] = front[i]
  <2>1. /\ all \in Seq(Block) /\ Len(all) = Len(front) + Len(<<reply>>)
        /\ \A i \in 1..Len(front) + Len(<<reply>>):
             all[i] = IF i <= Len(front) THEN front[i] ELSE <<reply>>[i - Len(front)]
    BY <1>7, <1>10, ConcatProperties
  <2>2. Len(tools) \in Nat
    BY <1>9, LenProperties
  <2> HIDE DEF all
  <2> QED BY <1>7, <1>10, <2>1, <2>2
<1>12. PlainBlocks(t, batch, torn) = all
  BY <1>2 DEF front
<1> HIDE DEF all
<1>13. Len(all) = (IF batch = <<>> THEN 2 ELSE Len(batch) + 3) /\ all[1] = user
  BY <1>1, <1>9, <1>10, <1>11
<1>14. ASSUME batch # <<>>
       PROVE  all[2] = head /\ \A n \in 1..Len(batch): all[n + 2] = outs[n]
  <2>1. Len(tools) = 1 + Len(batch) /\ Len(front) = 2 + Len(batch) /\ Len(batch) >= 1
    BY <1>1, <1>6, <1>9, <1>10, <1>14
  <2>2. all[2] = front[2] /\ front[2] = tools[1] /\ tools[1] = head
    BY <1>1, <1>8, <1>9, <1>10, <1>11, <1>14, <2>1
  <2>3. ASSUME NEW n \in 1..Len(batch) PROVE all[n + 2] = outs[n]
    <3>1. n + 2 \in 1..Len(front) /\ n + 1 \in 1..Len(tools) /\ 1 + (n + 1) = n + 2 /\ 1 + n = n + 1
      BY <1>1, <2>1
    <3>2. all[n + 2] = front[n + 2]
      BY <1>11, <3>1
    <3>3. front[1 + (n + 1)] = tools[n + 1]
      BY <1>10, <3>1
    <3>4. tools[n + 1] = outs[n]
      BY <1>8, <1>9, <1>14, <3>1
    <3> QED BY <3>1, <3>2, <3>3, <3>4
  <2> QED BY <2>2, <2>3
<1>15. PlainShape(t, batch, torn, all)
  BY <1>5, <1>11, <1>13, <1>14 DEF PlainShape, head, user, reply
<1> QED BY <1>12, <1>15

LEMMA ThreeParts ==
  ASSUME NEW S, NEW a \in Seq(S), NEW b \in Seq(S), NEW c \in Seq(S)
  PROVE  /\ a \o b \o c \in Seq(S) /\ Len(a \o b \o c) = Len(a) + Len(b) + Len(c)
         /\ \A k \in 1..Len(a): (a \o b \o c)[k] = a[k]
         /\ \A k \in 1..Len(b): (a \o b \o c)[Len(a) + k] = b[k]
         /\ \A k \in 1..Len(c): (a \o b \o c)[Len(a) + Len(b) + k] = c[k]
<1>1. Len(a) \in Nat /\ Len(b) \in Nat /\ Len(c) \in Nat
  BY LenProperties
<1> DEFINE ab == a \o b
<1>2. /\ ab \in Seq(S) /\ Len(ab) = Len(a) + Len(b)
      /\ \A i \in 1..Len(a) + Len(b): ab[i] = IF i <= Len(a) THEN a[i] ELSE b[i - Len(a)]
  BY ConcatProperties
<1> HIDE DEF ab
<1>3. /\ ab \o c \in Seq(S) /\ Len(ab \o c) = Len(ab) + Len(c)
      /\ \A i \in 1..Len(ab) + Len(c): (ab \o c)[i] = IF i <= Len(ab) THEN ab[i] ELSE c[i - Len(ab)]
  <2>1. ab \in Seq(S)
    BY <1>2
  <2> QED BY <2>1, ConcatProperties
<1>4. \A k \in 1..Len(a): (ab \o c)[k] = a[k]
  BY <1>1, <1>2, <1>3
<1>5. ASSUME NEW k \in 1..Len(b) PROVE (ab \o c)[Len(a) + k] = b[k]
  <2>1. /\ Len(a) + k \in 1..Len(a) + Len(b) /\ Len(a) + k \in 1..Len(ab) + Len(c) /\ Len(a) + k <= Len(ab)
        /\ ~(Len(a) + k <= Len(a)) /\ Len(a) + k - Len(a) = k
    BY <1>1, <1>2
  <2> QED BY <1>2, <1>3, <2>1
<1>6. ASSUME NEW k \in 1..Len(c) PROVE (ab \o c)[Len(a) + Len(b) + k] = c[k]
  <2>1. /\ Len(a) + Len(b) + k \in 1..Len(ab) + Len(c) /\ ~(Len(a) + Len(b) + k <= Len(ab))
        /\ Len(a) + Len(b) + k - Len(ab) = k
    BY <1>1, <1>2
  <2> QED BY <1>3, <2>1
<1> QED BY <1>1, <1>2, <1>3, <1>4, <1>5, <1>6 DEF ab

(* A header in a text opens a block of its role; the calls in it are none    *)
(* that was made.                                                           *)
OnlyQuoted(b) == \A n \in 1..Len(b.calls): b.calls[n].nth = 0

LEMMA QuotedShape ==
  ASSUME NEW b \in Block, NEW h \in Header, h.role = "tool" => h.names # <<>>
  PROVE  /\ Quoted(b, h) \in Block /\ Quoted(b, h).role = h.role
         /\ h.role = "calls" => OnlyQuoted(Quoted(b, h))
<1>1. /\ b.turn \in 1..MaxTurns /\ (b.role = "tool" => b.call \in Calls)
      /\ h.role \in {"user", "assistant", "system", "other", "calls", "tool"}
      /\ h.names \in Seq(Names) /\ h.bad \in BOOLEAN
  BY DEF Block, Header
<1>2. Len(h.names) \in Nat /\ \A n \in 1..Len(h.names): h.names[n] \in Names
  BY <1>1, LenProperties, ElementOfSeq
<1>3. \A n \in 1..Len(h.names): QuotedCall(b.turn, h.names[n]) \in Calls /\ QuotedCall(b.turn, h.names[n]).nth = 0
  BY <1>1, <1>2 DEF QuotedCall, Calls
<1>4. CASE h.role = "calls"
  <2> DEFINE calls == [n \in 1..Len(h.names) |-> QuotedCall(b.turn, h.names[n])]
  <2>1. calls \in [1..Len(h.names) -> Calls] /\ \A n \in 1..Len(h.names): calls[n].nth = 0
    BY <1>3
  <2>2. Quoted(b, h) = [role |-> "calls", turn |-> b.turn, bad |-> h.bad, calls |-> calls]
    BY <1>4 DEF Quoted
  <2> HIDE DEF calls
  <2>3. calls \in Seq(Calls)
    BY <1>2, <2>1 DEF Seq
  <2>4. Len(calls) = Len(h.names)
    BY <1>2, <2>1, <2>3, LenProperties
  <2> QED BY <1>1, <1>4, <2>1, <2>2, <2>3, <2>4 DEF Block, OnlyQuoted
<1>5. CASE h.role = "tool"
  <2>1. 1 \in 1..Len(h.names)
    BY <1>1, <1>2, <1>5, EmptySeq
  <2>2. (IF b.role = "tool" THEN b.call ELSE QuotedCall(b.turn, h.names[1])) \in Calls
    BY <1>1, <1>3, <2>1
  <2>3. Quoted(b, h) = [role |-> "tool", turn |-> b.turn,
                        call |-> IF b.role = "tool" THEN b.call ELSE QuotedCall(b.turn, h.names[1])]
    BY <1>5 DEF Quoted
  <2> QED BY <1>1, <1>5, <2>2, <2>3 DEF Block
<1>6. CASE h.role \notin {"calls", "tool"}
  <2>1. Quoted(b, h) = Text(h.role, b.turn)
    BY <1>6 DEF Quoted
  <2> QED BY <1>1, <1>6, <2>1 DEF Block, Text
<1> QED BY <1>4, <1>5, <1>6

(* What is read back of a turn begins with no tool block, unless the user's  *)
(* message opens as one; a block of calls in it is only quoted, or holds the*)
(* turn's calls and is followed, unless a result holds headers, by their    *)
(* results.                                                                 *)
Opening(q) == q.at = 1 /\ q.opens /\ q.headers # <<>> /\ q.headers[1].role = "tool"

TurnShape(t, batch, q, blocks) ==
  /\ blocks \in Seq(Block) /\ Len(blocks) >= 1
  /\ ~Opening(q) => blocks[1].role # "tool"
  /\ \A k \in 1..Len(blocks): blocks[k].role = "calls" =>
       \/ OnlyQuoted(blocks[k])
       \/ /\ blocks[k].turn = t /\ blocks[k].calls = CallsOf(t, batch)
          /\ q.at \notin ResultTexts(batch) =>
               \A j \in 1..Len(batch): blocks[k + j].call = CallsOf(t, batch)[j]

LEMMA TurnBlocksShape ==
  ASSUME NEW t \in 1..MaxTurns, NEW batch \in Batches, NEW q \in Quotes, Fits(batch, q)
  PROVE  TurnShape(t, batch, q, TurnBlocks(t, batch, q))
<1> DEFINE plain == PlainBlocks(t, batch, q.torn)
           cut   == IF q.opens THEN q.at - 1 ELSE q.at
           front == SubSeq(plain, 1, cut)
           mid   == [n \in 1..Len(q.headers) |-> Quoted(plain[q.at], q.headers[n])]
           rest  == SubSeq(plain, q.at + 1, Len(plain))
           all   == front \o mid \o rest
           calls == CallsOf(t, batch)
<1>1. /\ q.at \in Nat /\ q.opens \in BOOLEAN /\ q.torn \in BOOLEAN /\ q.headers \in Seq(Header)
      /\ Len(q.headers) \in Nat /\ (q.at = 0 => Len(q.headers) = 0)
      /\ \A n \in 1..Len(q.headers): /\ q.headers[n] \in Header
                                     /\ q.headers[n].role = "tool" => q.headers[n].names # <<>>
  <2>1. q \in Quote /\ (q.at = 0 => q.headers = <<>>)
        /\ \A n \in 1..Len(q.headers): q.headers[n].role = "tool" => q.headers[n].names # <<>>
    BY MemoryAssumption
  <2>2. q.headers \in Seq(Header) /\ q.at \in Nat /\ q.opens \in BOOLEAN /\ q.torn \in BOOLEAN
    BY <2>1 DEF Quote
  <2> QED BY <2>1, <2>2, LenProperties, ElementOfSeq, EmptySeq
<1>2. TurnBlocks(t, batch, q) = all
  BY DEF TurnBlocks
<1>3. PlainShape(t, batch, q.torn, plain)
  BY <1>1, PlainBlocksShape
<1>4. batch \in Seq(Names) /\ Len(batch) \in Nat /\ (batch # <<>> => Len(batch) >= 1)
  BY CallsTyped, EmptySeq
<1>5. /\ q.at <= IF batch = <<>> THEN 2 ELSE Len(batch) + 3
      /\ batch # <<>> => q.at # 2
      /\ q.opens => q.at \notin 3..Len(batch) + 2
  BY DEF Fits, ResultTexts
<1> HIDE DEF plain, calls
<1>6. /\ plain \in Seq(Block) /\ Len(plain) = (IF batch = <<>> THEN 2 ELSE Len(batch) + 3) /\ Len(plain) \in Nat
      /\ \A k \in 1..Len(plain): plain[k] \in Block
      /\ plain[1].role = "user" /\ plain[Len(plain)].role = "assistant"
  BY <1>3, <1>4, LenProperties, ElementOfSeq DEF PlainShape, Text
<1>7. batch # <<>> => /\ plain[2].role = "calls" /\ plain[2].turn = t /\ plain[2].calls = calls
                      /\ \A j \in 1..Len(batch): plain[j + 2].role = "tool" /\ plain[j + 2].call = calls[j]
  <2> SUFFICES ASSUME batch # <<>>
               PROVE  /\ plain[2].role = "calls" /\ plain[2].turn = t /\ plain[2].calls = calls
                      /\ \A j \in 1..Len(batch): plain[j + 2].role = "tool" /\ plain[j + 2].call = calls[j]
    OBVIOUS
  <2>1. /\ plain[2] = [role |-> "calls", turn |-> t, calls |-> calls, bad |-> q.torn]
        /\ \A j \in 1..Len(batch): plain[j + 2] = [role |-> "tool", turn |-> t, call |-> calls[j]]
    BY <1>3 DEF PlainShape, calls
  <2>2. plain[2].role = "calls" /\ plain[2].turn = t /\ plain[2].calls = calls
    BY <2>1
  <2>3. ASSUME NEW j \in 1..Len(batch) PROVE plain[j + 2].role = "tool" /\ plain[j + 2].call = calls[j]
    <3>1. plain[j + 2] = [role |-> "tool", turn |-> t, call |-> calls[j]]
      BY <2>1
    <3> QED BY <3>1
  <2> QED BY <2>2, <2>3
<1>8. ASSUME NEW k \in 1..Len(plain), plain[k].role = "calls" PROVE k = 2 /\ batch # <<>>
  <2>1. k # 1 /\ k # Len(plain)
    BY <1>6, <1>8
  <2>2. batch # <<>>
    BY <1>6, <2>1
  <2>3. ASSUME k # 2 PROVE FALSE
    <3>1. k - 2 \in 1..Len(batch) /\ (k - 2) + 2 = k
      BY <1>4, <1>6, <2>1, <2>2, <2>3
    <3> QED BY <1>7, <1>8, <2>2, <3>1
  <2> QED BY <2>2, <2>3
<1> DEFINE c == IF cut >= 1 THEN cut ELSE 0
           len == Len(q.headers)
<1>9. cut \in Int /\ cut <= Len(plain) /\ q.at <= Len(plain)
  BY <1>1, <1>5, <1>6
<1>10. front \in Seq(Block) /\ Len(front) = c /\ \A k \in 1..c: front[k] = plain[k]
  <2> HIDE DEF cut
  <2>1. \A k \in 1..cut: plain[k] \in Block
    BY <1>6, <1>9
  <2>2. /\ front \in Seq(Block) /\ Len(front) = IF 1 <= cut THEN cut - 1 + 1 ELSE 0
        /\ \A k \in 1..cut - 1 + 1: front[k] = plain[1 + k - 1]
    <3>1. 1 \in Int /\ cut \in Int
      BY <1>9
    <3> HIDE DEF front
    <3> QED BY <2>1, <3>1, SubSeqProperties DEF front
  <2> HIDE DEF front
  <2> QED BY <1>9, <2>2
<1>11. rest \in Seq(Block) /\ Len(rest) = Len(plain) - q.at /\ \A k \in 1..Len(plain) - q.at: rest[k] = plain[q.at + k]
  <2>1. \A k \in q.at + 1 .. Len(plain): plain[k] \in Block
    BY <1>1, <1>6
  <2>2. /\ rest \in Seq(Block) /\ Len(rest) = IF q.at + 1 <= Len(plain) THEN Len(plain) - (q.at + 1) + 1 ELSE 0
        /\ \A k \in 1..Len(plain) - (q.at + 1) + 1: rest[k] = plain[q.at + 1 + k - 1]
    <3>1. q.at + 1 \in Int /\ Len(plain) \in Int
      BY <1>1, <1>6
    <3> HIDE DEF rest
    <3> QED BY <2>1, <3>1, SubSeqProperties DEF rest
  <2> HIDE DEF rest
  <2>3. Len(rest) = Len(plain) - q.at
    <3>1. q.at \in Nat /\ Len(plain) \in Nat /\ q.at <= Len(plain)
      BY <1>1, <1>6, <1>9
    <3>2. Len(rest) = IF q.at + 1 <= Len(plain) THEN Len(plain) - (q.at + 1) + 1 ELSE 0
      BY <2>2
    <3>3. CASE q.at = Len(plain)
      BY <3>1, <3>2, <3>3
    <3>4. CASE q.at < Len(plain)
      BY <3>1, <3>2, <3>4
    <3> QED BY <3>1, <3>3, <3>4
  <2>4. ASSUME NEW k \in 1..Len(plain) - q.at PROVE rest[k] = plain[q.at + k]
    <3>1. k \in 1..Len(plain) - (q.at + 1) + 1 /\ q.at + 1 + k - 1 = q.at + k
      BY <1>1, <1>6
    <3> QED BY <2>2, <3>1
  <2> QED BY <2>2, <2>3, <2>4
<1>12. /\ mid \in Seq(Block) /\ Len(mid) = len
       /\ \A n \in 1..len: /\ mid[n].role = q.headers[n].role
                           /\ mid[n].role = "calls" => OnlyQuoted(mid[n])
  <2>1. ASSUME NEW n \in 1..len
        PROVE  /\ Quoted(plain[q.at], q.headers[n]) \in Block
               /\ Quoted(plain[q.at], q.headers[n]).role = q.headers[n].role
               /\ q.headers[n].role = "calls" => OnlyQuoted(Quoted(plain[q.at], q.headers[n]))
    <3>1. q.at \in 1..Len(plain)
      BY <1>1, <1>9
    <3>2. plain[q.at] \in Block
      BY <1>6, <3>1
    <3> QED BY <1>1, <3>2, QuotedShape
  <2>2. mid \in [1..len -> Block] /\ \A n \in 1..len: mid[n] = Quoted(plain[q.at], q.headers[n])
    BY <2>1
  <2>3. mid \in Seq(Block)
    <3> HIDE DEF mid
    <3> QED BY <1>1, <2>2 DEF Seq
  <2>4. Len(mid) = len
    <3> HIDE DEF mid
    <3> QED BY <1>1, <2>2, <2>3, LenProperties
  <2> HIDE DEF mid
  <2> QED BY <2>1, <2>2, <2>3, <2>4
<1> HIDE DEF front, mid, rest
<1>13. /\ all \in Seq(Block) /\ Len(all) = Len(front) + Len(mid) + Len(rest)
       /\ \A k \in 1..Len(front): all[k] = front[k]
       /\ \A k \in 1..Len(mid): all[Len(front) + k] = mid[k]
       /\ \A k \in 1..Len(rest): all[Len(front) + Len(mid) + k] = rest[k]
  <2>1. front \in Seq(Block) /\ mid \in Seq(Block) /\ rest \in Seq(Block)
    BY <1>10, <1>11, <1>12
  <2> QED BY <2>1, ThreeParts
<1> HIDE DEF all
<1>14. /\ all \in Seq(Block) /\ Len(all) = c + len + (Len(plain) - q.at)
       /\ \A k \in 1..c: all[k] = plain[k]
       /\ \A k \in 1..len: all[c + k] = mid[k]
       /\ \A k \in 1..Len(plain) - q.at: all[c + len + k] = plain[q.at + k]
  <2> HIDE DEF c, len
  <2> QED BY <1>10, <1>11, <1>12, <1>13
<1>15. /\ c \in Nat /\ len \in Nat /\ c <= q.at /\ (q.at = 0 => c = 0 /\ len = 0)
       /\ q.at >= 1 => c = (IF q.opens THEN q.at - 1 ELSE q.at)
  BY <1>1
<1> HIDE DEF c, len
<1>16. Len(all) >= 1
  <2>1. Len(all) = c + len + (Len(plain) - q.at) /\ Len(plain) >= 2
    BY <1>4, <1>6, <1>14
  <2>2. CASE q.at = 0
    BY <1>6, <1>15, <2>1, <2>2
  <2>3. CASE q.at >= 1
    <3>1. c >= q.at - 1
      BY <1>1, <1>15, <2>3
    <3> QED BY <1>1, <1>6, <1>9, <1>15, <2>1, <3>1
  <2> QED BY <1>1, <2>2, <2>3
<1>17. ASSUME ~Opening(q) PROVE all[1].role # "tool"
  <2>1. CASE c >= 1
    <3>1. all[1] = plain[1]
      BY <1>14, <1>15, <2>1
    <3> QED BY <1>6, <3>1
  <2>2. CASE c = 0 /\ q.at = 0
    <3>1. all[0 + 0 + 1] = plain[0 + 1]
      BY <1>4, <1>6, <1>14, <1>15, <2>2
    <3>2. all[1] = plain[1]
      BY <3>1
    <3> QED BY <1>6, <3>2
  <2>3. CASE c = 0 /\ q.at # 0
    <3>1. q.at = 1 /\ q.opens
      BY <1>1, <1>15, <2>3
    <3>2. CASE len >= 1
      <4>1. 1 \in 1..len /\ all[0 + 1] = mid[1]
        BY <1>14, <1>15, <2>3, <3>2
      <4>2. q.headers # <<>>
        BY <3>2, EmptySeq DEF len
      <4>3. q.headers[1].role # "tool"
        BY <1>17, <3>1, <4>2 DEF Opening
      <4> QED BY <1>12, <4>1, <4>3
    <3>3. CASE len = 0
      <4>1. all[0 + 0 + 1] = plain[1 + 1]
        BY <1>4, <1>6, <1>14, <2>3, <3>1, <3>3
      <4>2. all[1] = plain[2]
        BY <4>1
      <4>3. plain[2].role # "tool"
        BY <1>6, <1>7
      <4> QED BY <4>2, <4>3
    <3> QED BY <1>15, <3>2, <3>3
  <2> QED BY <1>15, <2>1, <2>2, <2>3
<1>18. ASSUME NEW k \in 1..Len(all), all[k].role = "calls", ~OnlyQuoted(all[k])
       PROVE  /\ all[k].turn = t /\ all[k].calls = calls
              /\ q.at \notin ResultTexts(batch) => \A j \in 1..Len(batch): all[k + j].call = calls[j]
  <2>1. CASE k <= c
    <3>1. k \in 1..c /\ k \in 1..Len(plain) /\ all[k] = plain[k]
      BY <1>1, <1>6, <1>9, <1>14, <1>15, <2>1
    <3>2. k = 2 /\ batch # <<>>
      BY <1>8, <1>18, <3>1
    <3>3. ASSUME q.at \notin ResultTexts(batch), NEW j \in 1..Len(batch) PROVE all[k + j].call = calls[j]
      <4>1. q.at >= 3 /\ q.at > Len(batch) + 2 /\ c >= Len(batch) + 2
        BY <1>1, <1>4, <1>5, <1>15, <2>1, <3>2, <3>3 DEF ResultTexts
      <4>2. j + 2 \in 1..c /\ k + j = j + 2
        BY <1>4, <1>15, <3>2, <4>1
      <4>3. all[k + j] = plain[j + 2]
        BY <1>14, <4>2
      <4> QED BY <1>7, <3>2, <4>3
    <3> QED BY <1>7, <3>1, <3>2, <3>3
  <2>2. CASE k > c /\ k <= c + len
    <3>1. k - c \in 1..len /\ c + (k - c) = k
      BY <1>15, <2>2
    <3>2. all[k] = mid[k - c]
      BY <1>14, <3>1
    <3> QED BY <1>12, <1>18, <3>1, <3>2 DEF len
  <2>3. CASE k > c + len
    <3> DEFINE x == k - c - len
    <3>1. x \in 1..Len(plain) - q.at /\ c + len + x = k
      <4>1. k \in Nat /\ k <= c + len + (Len(plain) - q.at) /\ Len(plain) - q.at \in Nat
        BY <1>1, <1>6, <1>9, <1>14, <1>15
      <4> QED BY <1>15, <2>3, <4>1
    <3> HIDE DEF x
    <3>2. all[k] = plain[q.at + x] /\ q.at + x \in 1..Len(plain)
      <4>1. all[c + len + x] = plain[q.at + x]
        BY <1>14, <3>1
      <4>2. q.at + x \in 1..Len(plain)
        BY <1>1, <1>6, <1>9, <3>1
      <4> QED BY <3>1, <4>1, <4>2
    <3>3. q.at + x = 2 /\ batch # <<>>
      BY <1>8, <1>18, <3>2
    <3>4. ASSUME NEW j \in 1..Len(batch) PROVE all[k + j].call = calls[j]
      <4>1. x + j \in 1..Len(plain) - q.at /\ q.at + (x + j) = j + 2 /\ c + len + (x + j) = k + j
        <5>1. x \in Nat /\ j \in Nat /\ k \in Nat /\ x >= 1 /\ j >= 1 /\ q.at + x = 2 /\ c + len + x = k
          BY <1>15, <3>1, <3>3
        <5>2. q.at + (x + j) = j + 2 /\ c + len + (x + j) = k + j
          <6>1. q.at \in Nat /\ c \in Nat /\ len \in Nat
            BY <1>1, <1>15
          <6>2. q.at + (x + j) = (q.at + x) + j /\ c + len + (x + j) = (c + len + x) + j
            BY <5>1, <6>1
          <6>3. 2 + j = j + 2
            BY <5>1
          <6> QED BY <5>1, <6>2, <6>3
        <5>3. j + 2 <= Len(plain)
          BY <1>4, <1>6, <3>3
        <5> QED BY <1>1, <1>6, <5>1, <5>2, <5>3
      <4>2. all[k + j] = plain[j + 2]
        BY <1>14, <4>1
      <4> QED BY <1>7, <3>3, <4>2
    <3> QED BY <1>7, <3>2, <3>3, <3>4
  <2> QED BY <1>15, <2>1, <2>2, <2>3
<1>19. TurnShape(t, batch, q, all)
  BY <1>14, <1>16, <1>17, <1>18 DEF TurnShape, calls
<1> QED BY <1>2, <1>19

-----------------------------------------------------------------------------
(* What a stopped write leaves.                                             *)

(* A first part of the blocks: all whole but the last one, of which a block  *)
(* of calls may have kept only its first calls.                             *)
CutOf(blocks, left) ==
  /\ left \in Seq(Block)
  /\ Len(left) <= Len(blocks)
  /\ \A i \in 1..Len(left):
       \/ left[i] = blocks[i]
       \/ /\ i = Len(left) /\ blocks[i].role = "calls" /\ left[i].role = "calls"
          /\ left[i].turn = blocks[i].turn
          /\ Len(left[i].calls) <= Len(blocks[i].calls)
          /\ \A n \in 1..Len(left[i].calls): left[i].calls[n] = blocks[i].calls[n]

LEMMA BlockFields ==
  ASSUME NEW b \in Block
  PROVE  /\ b.role \in {"user", "assistant", "system", "other", "calls", "tool"} /\ b.turn \in 1..MaxTurns
         /\ b.role = "calls" =>
              /\ b \in [role: {"calls"}, turn: 1..MaxTurns, calls: Seq(Calls), bad: BOOLEAN]
              /\ b.calls \in Seq(Calls) /\ Len(b.calls) \in Nat /\ DOMAIN b.calls = 1..Len(b.calls)
         /\ b.role = "tool" => b.call \in Calls
<1>1. \/ b \in [role: {"user", "assistant", "system", "other"}, turn: 1..MaxTurns]
      \/ b \in [role: {"calls"}, turn: 1..MaxTurns, calls: Seq(Calls), bad: BOOLEAN]
      \/ b \in [role: {"tool"}, turn: 1..MaxTurns, call: Calls]
  BY DEF Block
<1>2. CASE b \in [role: {"calls"}, turn: 1..MaxTurns, calls: Seq(Calls), bad: BOOLEAN]
  <2>1. b.calls \in Seq(Calls) /\ b.role = "calls" /\ b.turn \in 1..MaxTurns
    BY <1>2
  <2> QED BY <1>2, <2>1, LenProperties
<1> QED BY <1>1, <1>2

LEMMA StumpShape ==
  ASSUME NEW b \in Block, NEW stump \in Stumps(b)
  PROVE  /\ stump \in Block
         /\ \/ stump = b
            \/ /\ b.role = "calls" /\ stump.role = "calls" /\ stump.turn = b.turn
               /\ Len(stump.calls) <= Len(b.calls)
               /\ \A n \in 1..Len(stump.calls): stump.calls[n] = b.calls[n]
<1>1. SUFFICES ASSUME stump # b PROVE
            /\ stump \in Block
            /\ b.role = "calls" /\ stump.role = "calls" /\ stump.turn = b.turn
            /\ Len(stump.calls) <= Len(b.calls)
            /\ \A n \in 1..Len(stump.calls): stump.calls[n] = b.calls[n]
  OBVIOUS
<1>2. b.role = "calls" /\ \E n \in 1..Len(b.calls):
        stump \in {[b EXCEPT !.calls = SubSeq(b.calls, 1, n - 1), !.bad = bad]: bad \in BOOLEAN}
  BY <1>1, Zenon DEF Stumps
<1>3a. PICK n \in 1..Len(b.calls):
        stump \in {[b EXCEPT !.calls = SubSeq(b.calls, 1, n - 1), !.bad = bad]: bad \in BOOLEAN}
  BY <1>2
<1>3. PICK bad \in BOOLEAN: stump = [b EXCEPT !.calls = SubSeq(b.calls, 1, n - 1), !.bad = bad]
  BY <1>3a
<1>4. /\ b \in [role: {"calls"}, turn: 1..MaxTurns, calls: Seq(Calls), bad: BOOLEAN]
      /\ b.calls \in Seq(Calls) /\ Len(b.calls) \in Nat
  BY <1>2, BlockFields
<1> DEFINE part == SubSeq(b.calls, 1, n - 1)
<1>5. \A i \in 1..n - 1: b.calls[i] \in Calls
  BY <1>4, ElementOfSeq
<1>6. /\ part \in Seq(Calls) /\ Len(part) = IF 1 <= n - 1 THEN (n - 1) - 1 + 1 ELSE 0
      /\ \A i \in 1..(n - 1) - 1 + 1: part[i] = b.calls[1 + i - 1]
  <2>1. 1 \in Int /\ n - 1 \in Int
    BY <1>4
  <2> HIDE DEF part
  <2> QED BY <1>5, <2>1, SubSeqProperties DEF part
<1>7. stump = [b EXCEPT !.calls = part, !.bad = bad]
  BY <1>3
<1> HIDE DEF part
<1>8. Len(part) <= Len(b.calls) /\ \A i \in 1..Len(part): part[i] = b.calls[i]
  BY <1>4, <1>6
<1>9. /\ stump \in [role: {"calls"}, turn: 1..MaxTurns, calls: Seq(Calls), bad: BOOLEAN]
      /\ stump.calls = part /\ stump.role = "calls" /\ stump.turn = b.turn
  BY <1>4, <1>6, <1>7
<1> QED BY <1>2, <1>8, <1>9 DEF Block

LEMMA CutShape ==
  ASSUME NEW blocks \in Seq(Block), NEW left \in CutWrites(blocks)
  PROVE  CutOf(blocks, left)
<1>1. Len(blocks) \in Nat /\ \A i \in 1..Len(blocks): blocks[i] \in Block
  BY LenProperties, ElementOfSeq
<1>2. CASE left = <<>>
  <2>1. left \in Seq(Block) /\ Len(left) = 0
    BY <1>2, EmptySeq
  <2> QED BY <1>1, <2>1 DEF CutOf
<1>3. CASE left # <<>>
  <2>1. \E n \in 1..Len(blocks): \E stump \in Stumps(blocks[n]): left = SubSeq(blocks, 1, n - 1) \o <<stump>>
    BY <1>3 DEF CutWrites
  <2>2a. PICK n \in 1..Len(blocks): \E stump \in Stumps(blocks[n]): left = SubSeq(blocks, 1, n - 1) \o <<stump>>
    BY <2>1
  <2>2. PICK stump \in Stumps(blocks[n]): left = SubSeq(blocks, 1, n - 1) \o <<stump>>
    BY <2>2a
  <2> DEFINE front == SubSeq(blocks, 1, n - 1)
  <2>3. \A i \in 1..n - 1: blocks[i] \in Block
    BY <1>1
  <2>4. /\ front \in Seq(Block) /\ Len(front) = IF 1 <= n - 1 THEN (n - 1) - 1 + 1 ELSE 0
        /\ \A i \in 1..(n - 1) - 1 + 1: front[i] = blocks[1 + i - 1]
    <3>1. 1 \in Int /\ n - 1 \in Int
      BY <1>1
    <3> HIDE DEF front
    <3> QED BY <2>3, <3>1, SubSeqProperties DEF front
  <2>5. left = front \o <<stump>>
    BY <2>2
  <2> HIDE DEF front
  <2>6. blocks[n] \in Block
    BY <1>1
  <2>7. /\ stump \in Block
        /\ \/ stump = blocks[n]
           \/ /\ blocks[n].role = "calls" /\ stump.role = "calls" /\ stump.turn = blocks[n].turn
              /\ Len(stump.calls) <= Len(blocks[n].calls)
              /\ \A k \in 1..Len(stump.calls): stump.calls[k] = blocks[n].calls[k]
    BY <2>6, StumpShape
  <2>8. <<stump>> \in Seq(Block) /\ Len(<<stump>>) = 1 /\ <<stump>>[1] = stump
    BY <2>7
  <2>9. /\ left \in Seq(Block) /\ Len(left) = Len(front) + Len(<<stump>>)
        /\ \A i \in 1..Len(front) + Len(<<stump>>):
             left[i] = IF i <= Len(front) THEN front[i] ELSE <<stump>>[i - Len(front)]
    BY <2>4, <2>5, <2>8, ConcatProperties
  <2>10. Len(left) = n /\ left[n] = stump /\ \A i \in 1..n - 1: left[i] = blocks[i]
    <3>1. n \in Int /\ n >= 1
      BY <1>1
    <3>2. Len(front) = n - 1
      BY <2>4, <3>1
    <3>3. Len(left) = n
      BY <2>8, <2>9, <3>1, <3>2
    <3>4. left[n] = stump
      <4>1. n \in 1..Len(front) + Len(<<stump>>) /\ ~(n <= Len(front)) /\ n - Len(front) = 1
        BY <2>8, <3>1, <3>2
      <4> QED BY <2>8, <2>9, <4>1
    <3>5. ASSUME NEW i \in 1..n - 1 PROVE left[i] = blocks[i]
      <4>1. i \in 1..Len(front) + Len(<<stump>>) /\ i <= Len(front)
        BY <2>8, <3>1, <3>2
      <4>2. left[i] = front[i]
        BY <2>9, <4>1
      <4>3. i \in 1..(n - 1) - 1 + 1 /\ 1 + i - 1 = i
        BY <3>1
      <4> QED BY <2>4, <4>2, <4>3
    <3> QED BY <3>3, <3>4, <3>5
  <2>11. ASSUME NEW i \in 1..Len(left)
         PROVE  \/ left[i] = blocks[i]
                \/ i = n /\ left[i] = stump
    BY <1>1, <2>10
  <2> HIDE DEF CutOf
  <2>12. /\ left \in Seq(Block) /\ Len(left) <= Len(blocks)
    BY <1>1, <2>9, <2>10
  <2> QED BY <2>7, <2>10, <2>11, <2>12 DEF CutOf
<1> QED BY <1>2, <1>3

-----------------------------------------------------------------------------
(* Types.                                                                   *)

LEMMA FilesTyped ==
  ASSUME TypeOK
  PROVE  /\ \A d \in Days: files[d] \in Seq(Block)
         /\ cli.blocks \in Seq(Block) /\ (cli # NotOpen => cli.day \in Days)
         /\ \A a \in made: /\ a.turn \in 1..MaxTurns /\ a.day \in Days /\ a.calls \in Batches
                            /\ a.quote \in Quotes /\ Fits(a.calls, a.quote)
         /\ day \in Nat /\ turns \in Nat /\ MaxDay \in Nat /\ MaxTurns \in Nat /\ MaxAge \in Int
<1>1. cli = NotOpen \/ cli \in [day: Days, blocks: Seq(Block)]
  BY DEF TypeOK
<1>2. (cli = NotOpen => cli.blocks \in Seq(Block)) /\ (cli # NotOpen => cli.blocks \in Seq(Block) /\ cli.day \in Days)
  <2>1. CASE cli = NotOpen
    <3>1. cli.blocks = <<>>
      BY <2>1 DEF NotOpen
    <3> QED BY <2>1, <3>1, EmptySeq
  <2>2. CASE cli # NotOpen
    BY <1>1, <2>2
  <2> QED BY <2>1, <2>2
<1>3. \A a \in made: /\ a.turn \in 1..MaxTurns /\ a.day \in Days /\ a.calls \in Batches /\ a.done \in BOOLEAN
                        /\ a.quote \in Quotes /\ Fits(a.calls, a.quote)
  BY DEF TypeOK, TurnRecord
<1> QED BY <1>2, <1>3, MemoryAssumption DEF TypeOK, Days

(* A turn's append: the file it goes to and the turn. *)
LEMMA AppendTyped ==
  ASSUME TypeOK, turns < MaxTurns, NEW batch \in Batches, NEW q \in Quotes,
         Fits(batch, q), NEW f \in Seq(Block)
  PROVE  /\ turns + 1 \in 1..MaxTurns
         /\ TurnBlocks(turns + 1, batch, q) \in Seq(Block)
         /\ f \o TurnBlocks(turns + 1, batch, q) \in Seq(Block)
<1>1. turns + 1 \in 1..MaxTurns
  BY MemoryAssumption DEF TypeOK
<1>2. TurnBlocks(turns + 1, batch, q) \in Seq(Block)
  BY <1>1, TurnBlocksShape DEF TurnShape
<1> QED BY <1>1, <1>2, ConcatProperties

LEMMA TypeInit == Init => TypeOK
<1> SUFFICES ASSUME Init PROVE TypeOK
  OBVIOUS
<1>1. <<>> \in Seq(Block)
  BY EmptySeq
<1>2. 1 \in Days
  BY MemoryAssumption DEF Days
<1> QED BY <1>1, <1>2, MemoryAssumption DEF Init, TypeOK, NotOpen

LEMMA TypeStep == TypeOK /\ [Next]_vars => TypeOK'
<1> SUFFICES ASSUME TypeOK, [Next]_vars PROVE TypeOK'
  OBVIOUS
<1>1. ASSUME NEW batch \in Batches, NEW q \in Quotes, AppendTurn(batch, q) PROVE TypeOK'
  <2>1. day \in Days /\ files[day] \in Seq(Block)
    BY DEF TypeOK
  <2>2. turns + 1 \in 1..MaxTurns /\ files[day] \o TurnBlocks(turns + 1, batch, q) \in Seq(Block)
    BY <1>1, <2>1, AppendTyped DEF AppendTurn
  <2>3. files' \in [Days -> Seq(Block)]
    BY <1>1, <2>1, <2>2 DEF AppendTurn, TypeOK
  <2>4. made' \subseteq TurnRecord
    <3>1. [turn |-> turns + 1, day |-> day, calls |-> batch, quote |-> q, done |-> TRUE] \in TurnRecord
      BY <1>1, <2>1, <2>2 DEF TurnRecord, AppendTurn
    <3>2. made' = made \union {[turn |-> turns + 1, day |-> day, calls |-> batch, quote |-> q, done |-> TRUE]}
      BY <1>1 DEF AppendTurn
    <3> QED BY <3>1, <3>2 DEF TypeOK
  <2> QED BY <1>1, <2>2, <2>3, <2>4 DEF AppendTurn, TypeOK
<1>2. ASSUME NEW batch \in Batches, NEW q \in Quotes, AppendCutShort(batch, q) PROVE TypeOK'
  <2>1. day \in Days /\ files[day] \in Seq(Block)
    BY DEF TypeOK
  <2>2. turns + 1 \in 1..MaxTurns /\ files[day] \o TurnBlocks(turns + 1, batch, q) \in Seq(Block)
    BY <1>2, <2>1, AppendTyped DEF AppendCutShort
  <2>3. PICK left \in CutWrites(files[day] \o TurnBlocks(turns + 1, batch, q)):
          files' = [files EXCEPT ![day] = left]
    BY <1>2 DEF AppendCutShort
  <2>4. left \in Seq(Block)
    BY <2>2, <2>3, CutShape DEF CutOf
  <2>5. files' \in [Days -> Seq(Block)]
    BY <2>1, <2>3, <2>4 DEF TypeOK
  <2>6. made' \subseteq TurnRecord
    <3>1. [turn |-> turns + 1, day |-> day, calls |-> batch, quote |-> q, done |-> FALSE] \in TurnRecord
      BY <1>2, <2>1, <2>2 DEF TurnRecord, AppendCutShort
    <3>2. made' = made \union {[turn |-> turns + 1, day |-> day, calls |-> batch, quote |-> q, done |-> FALSE]}
      BY <1>2 DEF AppendCutShort
    <3> QED BY <3>1, <3>2 DEF TypeOK
  <2>7. cuts' \in 0..MaxCuts
    BY <1>2, MemoryAssumption DEF AppendCutShort, TypeOK
  <2> QED BY <1>2, <2>1, <2>2, <2>5, <2>6, <2>7 DEF AppendCutShort, TypeOK
<1>3. CASE CliOpen
  <2>1. [day |-> day, blocks |-> files[day]] \in [day: Days, blocks: Seq(Block)]
    BY DEF TypeOK
  <2> QED BY <1>3, <2>1 DEF CliOpen, TypeOK
<1>4. ASSUME NEW q \in Quotes, CliWrite(q) PROVE TypeOK'
  <2>1. cli.blocks \in Seq(Block) /\ cli.day \in Days /\ <<>> \in Batches
    BY <1>4, MemoryAssumption, FilesTyped DEF CliWrite
  <2>2. turns + 1 \in 1..MaxTurns /\ cli.blocks \o TurnBlocks(turns + 1, <<>>, q) \in Seq(Block)
    BY <1>4, <2>1, AppendTyped DEF CliWrite
  <2>3. files' \in [Days -> Seq(Block)]
    BY <1>4, <2>2 DEF CliWrite, TypeOK
  <2>4. made' \subseteq TurnRecord
    <3>1. [turn |-> turns + 1, day |-> cli.day, calls |-> <<>>, quote |-> q, done |-> TRUE] \in TurnRecord
      BY <1>4, <2>1, <2>2 DEF TurnRecord, CliWrite
    <3>2. made' = made \union {[turn |-> turns + 1, day |-> cli.day, calls |-> <<>>, quote |-> q, done |-> TRUE]}
      BY <1>4 DEF CliWrite
    <3> QED BY <3>1, <3>2 DEF TypeOK
  <2>5. harmed' \subseteq Days /\ cli' = NotOpen
    BY <1>4, <2>1 DEF CliWrite, TypeOK
  <2> QED BY <1>4, <2>2, <2>3, <2>4, <2>5 DEF CliWrite, TypeOK
<1>5. CASE Midnight
  BY <1>5, MemoryAssumption DEF Midnight, TypeOK, Days
<1>6. CASE Prune
  <2>1. files' \in [Days -> Seq(Block)]
    BY <1>6, EmptySeq DEF Prune, TypeOK
  <2> QED BY <1>6, <2>1 DEF Prune, TypeOK
<1>7. CASE UNCHANGED vars
  BY <1>7 DEF vars, TypeOK
<1> QED BY <1>1, <1>2, <1>3, <1>4, <1>5, <1>6, <1>7 DEF Next

-----------------------------------------------------------------------------
(* A turn whose append returned stays in its day's file.                    *)

TurnStands(a) ==
  a.done /\ a.day \notin harmed /\ day <= a.day + MaxAge =>
    Within(TurnBlocks(a.turn, a.calls, a.quote), files[a.day])

LEMMA KeptIsStanding == TypeOK => (TurnsKept <=> \A a \in made: TurnStands(a))
<1> SUFFICES ASSUME TypeOK, NEW a \in made
             PROVE  (\E n \in 0..Len(files[a.day]):
                       IsPrefix(TurnBlocks(a.turn, a.calls, a.quote), SubSeq(files[a.day], n + 1, Len(files[a.day]))))
                      <=> Within(TurnBlocks(a.turn, a.calls, a.quote), files[a.day])
  BY DEF TurnsKept, TurnStands
<1>1. files[a.day] \in Seq(Block) /\ a.turn \in 1..MaxTurns /\ a.calls \in Batches /\ a.quote \in Quotes /\ Fits(a.calls, a.quote)
  BY FilesTyped
<1>2. TurnBlocks(a.turn, a.calls, a.quote) \in Seq(Block)
  BY <1>1, TurnBlocksShape DEF TurnShape
<1>3. \A f, s \in Seq(Block): \A n \in 0..Len(f):
        IsPrefix(s, SubSeq(f, n + 1, Len(f)))
          <=> n + Len(s) <= Len(f) /\ \A k \in 1..Len(s): f[n + k] = s[k]
  BY WithinIsPrefix
<1>4. \A f, s \in Seq(Block):
        (\E n \in 0..Len(f): IsPrefix(s, SubSeq(f, n + 1, Len(f)))) <=> Within(s, f)
  BY <1>3 DEF Within
<1> QED BY <1>1, <1>2, <1>4

(* What does not touch its day's file leaves it. *)
LEMMA StandsStill ==
  ASSUME NEW a, TurnStands(a), files'[a.day] = files[a.day], harmed \subseteq harmed',
         day' <= a.day + MaxAge => day <= a.day + MaxAge
  PROVE  TurnStands(a)'
<1> SUFFICES ASSUME a.done, a.day \notin harmed', day' <= a.day + MaxAge
             PROVE  Within(TurnBlocks(a.turn, a.calls, a.quote), files'[a.day])
  BY DEF TurnStands
<1> QED BY DEF TurnStands

(* A file may grow by what is written behind it. *)
LEMMA StandsBehind ==
  ASSUME TypeOK, NEW d \in Days, NEW g \in Seq(Block), files' = [files EXCEPT ![d] = files[d] \o g],
         day' = day, harmed \subseteq harmed', NEW a \in made, TurnStands(a)
  PROVE  TurnStands(a)'
<1>1. files \in [Days -> Seq(Block)] /\ a.turn \in 1..MaxTurns /\ a.calls \in Batches /\ a.quote \in Quotes /\ Fits(a.calls, a.quote) /\ a.day \in Days
  BY FilesTyped DEF TypeOK
<1>2. TurnBlocks(a.turn, a.calls, a.quote) \in Seq(Block)
  BY <1>1, TurnBlocksShape DEF TurnShape
<1>3. SUFFICES ASSUME a.done, a.day \notin harmed, day <= a.day + MaxAge
               PROVE  Within(TurnBlocks(a.turn, a.calls, a.quote), files'[a.day])
  BY DEF TurnStands
<1>4. Within(TurnBlocks(a.turn, a.calls, a.quote), files[a.day])
  BY <1>3 DEF TurnStands
<1>5. CASE a.day = d
  <2>1. files'[a.day] = files[d] \o g /\ files[d] \in Seq(Block)
    BY <1>1, <1>5
  <2> QED BY <1>2, <1>4, <1>5, <2>1, WithinConcat
<1>6. CASE a.day # d
  <2>1. files'[a.day] = files[a.day]
    BY <1>1, <1>6
  <2> QED BY <1>4, <2>1
<1> QED BY <1>5, <1>6

(* A write that is not behind what was there harms its day. *)
LEMMA StandsElsewhere ==
  ASSUME TypeOK, NEW d \in Days, NEW f, files' = [files EXCEPT ![d] = f],
         day' = day, harmed \subseteq harmed', d \in harmed', NEW a \in made, TurnStands(a)
  PROVE  TurnStands(a)'
<1>1. files \in [Days -> Seq(Block)] /\ a.day \in Days
  BY FilesTyped DEF TypeOK
<1>2. SUFFICES ASSUME a.done, a.day \notin harmed', day <= a.day + MaxAge
               PROVE  Within(TurnBlocks(a.turn, a.calls, a.quote), files'[a.day])
  BY DEF TurnStands
<1>3. a.day # d /\ a.day \notin harmed
  BY <1>2
<1>4. files'[a.day] = files[a.day]
  BY <1>1, <1>3
<1> QED BY <1>2, <1>3, <1>4 DEF TurnStands

(* The new turn stands behind what was there. *)
LEMMA NewStands ==
  ASSUME TypeOK, TypeOK', NEW d \in Days, NEW batch \in Batches, NEW q \in Quotes, Fits(batch, q), turns < MaxTurns,
         files' = [files EXCEPT ![d] = files[d] \o TurnBlocks(turns + 1, batch, q)]
  PROVE  \A a \in TurnRecord: a.turn = turns + 1 /\ a.day = d /\ a.calls = batch /\ a.quote = q => TurnStands(a)'
<1>1. files[d] \in Seq(Block) /\ files \in [Days -> Seq(Block)]
  BY DEF TypeOK
<1>2. TurnBlocks(turns + 1, batch, q) \in Seq(Block)
  BY <1>1, AppendTyped
<1>3. files'[d] = files[d] \o TurnBlocks(turns + 1, batch, q)
  BY <1>1
<1>4. Within(TurnBlocks(turns + 1, batch, q), files'[d])
  BY <1>1, <1>2, <1>3, WithinConcat
<1> QED BY <1>4 DEF TurnStands

LEMMA KeptStep == TypeOK /\ TypeOK' /\ TurnsKept /\ [Next]_vars => TurnsKept'
<1> SUFFICES ASSUME TypeOK, TypeOK', TurnsKept, [Next]_vars PROVE TurnsKept'
  OBVIOUS
<1>1. \A a \in made: TurnStands(a)
  BY KeptIsStanding
<1>2. TurnsKept' <=> \A a \in made': TurnStands(a)'
  <2>1. (TypeOK => (TurnsKept <=> \A a \in made: TurnStands(a)))'
    BY KeptIsStanding, PTL
  <2> QED BY <2>1
<1> SUFFICES \A a \in made': TurnStands(a)'
  BY <1>2
<1>3. ASSUME NEW batch \in Batches, NEW q \in Quotes, AppendTurn(batch, q) PROVE \A a \in made': TurnStands(a)'
  <2>1. /\ turns < MaxTurns /\ Fits(batch, q) /\ day' = day /\ harmed' = harmed /\ day \in Days
        /\ files' = [files EXCEPT ![day] = files[day] \o TurnBlocks(turns + 1, batch, q)]
    BY <1>3 DEF AppendTurn, TypeOK
  <2>2. TurnBlocks(turns + 1, batch, q) \in Seq(Block)
    BY <2>1, EmptySeq, AppendTyped
  <2>3. \A a \in made: TurnStands(a)'
    BY <1>1, <2>1, <2>2, StandsBehind
  <2>4. \A a \in TurnRecord: a.turn = turns + 1 /\ a.day = day /\ a.calls = batch /\ a.quote = q => TurnStands(a)'
    BY <2>1, NewStands
  <2>5. \A a \in made': a \in made \/ (a \in TurnRecord /\ a.turn = turns + 1 /\ a.day = day /\ a.calls = batch /\ a.quote = q)
    BY <1>3 DEF AppendTurn, TypeOK
  <2> QED BY <2>3, <2>4, <2>5
<1>4. ASSUME NEW batch \in Batches, NEW q \in Quotes, AppendCutShort(batch, q) PROVE \A a \in made': TurnStands(a)'
  <2>1. /\ day' = day /\ harmed' = harmed \union {day} /\ day \in Days
        /\ \E left \in CutWrites(files[day] \o TurnBlocks(turns + 1, batch, q)): files' = [files EXCEPT ![day] = left]
    BY <1>4 DEF AppendCutShort, TypeOK
  <2>2. \A a \in made: TurnStands(a)'
    BY <1>1, <2>1, StandsElsewhere
  <2>3. \A a \in made': a \in made \/ a.done = FALSE
    BY <1>4 DEF AppendCutShort
  <2> QED BY <2>2, <2>3 DEF TurnStands
<1>5. CASE CliOpen
  <2>1. files' = files /\ made' = made /\ harmed' = harmed /\ day' = day
    BY <1>5 DEF CliOpen
  <2> QED BY <1>1, <2>1, StandsStill
<1>6. ASSUME NEW q \in Quotes, CliWrite(q) PROVE \A a \in made': TurnStands(a)'
  <2>1. /\ cli.day \in Days /\ turns < MaxTurns /\ day' = day /\ <<>> \in Batches /\ Fits(<<>>, q)
        /\ files' = [files EXCEPT ![cli.day] = cli.blocks \o TurnBlocks(turns + 1, <<>>, q)]
        /\ harmed' = IF files[cli.day] = cli.blocks THEN harmed ELSE harmed \union {cli.day}
    BY <1>6, FilesTyped, MemoryAssumption DEF CliWrite
  <2>2. TurnBlocks(turns + 1, <<>>, q) \in Seq(Block)
    BY <2>1, EmptySeq, AppendTyped
  <2>3. \A a \in made': a \in made \/ (a \in TurnRecord /\ a.turn = turns + 1 /\ a.day = cli.day /\ a.calls = <<>> /\ a.quote = q)
    BY <1>6 DEF CliWrite, TypeOK
  <2>4. CASE files[cli.day] = cli.blocks
    <3>1. files' = [files EXCEPT ![cli.day] = files[cli.day] \o TurnBlocks(turns + 1, <<>>, q)]
      BY <2>1, <2>4
    <3>2. \A a \in made: TurnStands(a)'
      BY <1>1, <2>1, <2>2, <2>4, <3>1, StandsBehind
    <3>3. \A a \in TurnRecord: a.turn = turns + 1 /\ a.day = cli.day /\ a.calls = <<>> /\ a.quote = q => TurnStands(a)'
      <4>1. PICK none \in Batches: none = <<>> /\ Fits(none, q)
        BY <2>1
      <4>2. files' = [files EXCEPT ![cli.day] = files[cli.day] \o TurnBlocks(turns + 1, none, q)]
        BY <3>1, <4>1
      <4>3. \A d \in Days: files' = [files EXCEPT ![d] = files[d] \o TurnBlocks(turns + 1, none, q)] =>
              \A a \in TurnRecord: a.turn = turns + 1 /\ a.day = d /\ a.calls = none /\ a.quote = q => TurnStands(a)'
        <5>1. turns < MaxTurns /\ Fits(none, q)
          BY <2>1, <4>1
        <5> QED BY <5>1, NewStands
      <4>4. \A a \in TurnRecord: a.turn = turns + 1 /\ a.day = cli.day /\ a.calls = none /\ a.quote = q => TurnStands(a)'
        BY <2>1, <4>2, <4>3
      <4> QED BY <4>1, <4>4
    <3> QED BY <2>3, <3>2, <3>3
  <2>5. CASE files[cli.day] # cli.blocks
    <3>1. cli.day \in harmed' /\ harmed \subseteq harmed'
      BY <2>1, <2>5
    <3>2. \A a \in made: TurnStands(a)'
      BY <1>1, <2>1, <3>1, StandsElsewhere
    <3>3. ASSUME NEW a \in made', a.day = cli.day PROVE TurnStands(a)'
      <4>1. a.day \in harmed'
        BY <3>1, <3>3
      <4> QED BY <4>1 DEF TurnStands
    <3> QED BY <2>3, <3>2, <3>3
  <2> QED BY <2>4, <2>5
<1>7. CASE Midnight
  <2>1. \A a \in made: a.day \in Nat /\ MaxAge \in Int /\ day \in Nat
    BY FilesTyped DEF Days
  <2>2. files' = files /\ made' = made /\ harmed' = harmed /\ day' = day + 1
    BY <1>7 DEF Midnight
  <2>3. ASSUME NEW a \in made PROVE TurnStands(a)'
    <3>1. day' <= a.day + MaxAge => day <= a.day + MaxAge
      BY <2>1, <2>2
    <3> QED BY <1>1, <2>2, <3>1, StandsStill
  <2> QED BY <2>2, <2>3
<1>8. CASE Prune
  <2>1. /\ files' = [d \in Days |-> IF d + MaxAge < day THEN <<>> ELSE files[d]]
        /\ made' = made /\ harmed' = harmed /\ day' = day
    BY <1>8 DEF Prune
  <2>2. ASSUME NEW a \in made PROVE TurnStands(a)'
    <3>1. a.day \in Days /\ a.day \in Nat /\ MaxAge \in Int /\ day \in Nat
      BY FilesTyped DEF Days
    <3>2. day <= a.day + MaxAge => files'[a.day] = files[a.day]
      BY <2>1, <3>1
    <3>3. CASE day <= a.day + MaxAge
      <4>1. files'[a.day] = files[a.day] /\ harmed \subseteq harmed' /\ (day' <= a.day + MaxAge => day <= a.day + MaxAge)
        BY <2>1, <3>2, <3>3
      <4> QED BY <1>1, <4>1, StandsStill
    <3>4. CASE ~(day <= a.day + MaxAge)
      BY <2>1, <3>4 DEF TurnStands
    <3> QED BY <3>3, <3>4
  <2> QED BY <2>1, <2>2
<1>9. CASE UNCHANGED vars
  <2>1. files' = files /\ made' = made /\ harmed' = harmed /\ day' = day
    BY <1>9 DEF vars
  <2> QED BY <1>1, <2>1, StandsStill
<1> QED BY <1>3, <1>4, <1>5, <1>6, <1>7, <1>8, <1>9 DEF Next

-----------------------------------------------------------------------------
(* The calls and results of a block of calls are those of a turn.           *)

(* The block at i holds the first calls of the turn, and the tool blocks that *)
(* directly follow it are, unless a result holds headers, the turn's results,*)
(* in order.                                                                *)
CallsBlock(a, blocks, i) ==
  /\ a.turn = blocks[i].turn
  /\ Len(blocks[i].calls) <= Len(a.calls)
  /\ \A n \in 1..Len(blocks[i].calls): blocks[i].calls[n] = CallsOf(a.turn, a.calls)[n]
  /\ ~QuotesInResults(a) =>
       \A j \in 1..Len(a.calls):
         (\A m \in i+1 .. i+j: m <= Len(blocks) /\ blocks[m].role = "tool") =>
           blocks[i + j].call = CallsOf(a.turn, a.calls)[j]

OfTurns(blocks, records) ==
  \A i \in 1..Len(blocks):
    blocks[i].role = "calls" => OnlyQuoted(blocks[i]) \/ \E a \in records: CallsBlock(a, blocks, i)

(* In every file, and in what the command has read, unless a user's message *)
(* opens as a tool's result.                                                *)
Unopened(records) == \A a \in records: ~OpensWithTool(a)

BlocksInStep == Unopened(made) => (\A d \in Days: OfTurns(files[d], made)) /\ OfTurns(cli.blocks, made)

LEMMA OfTurnsGrows ==
  ASSUME NEW blocks, NEW records, NEW more, records \subseteq more, OfTurns(blocks, records)
  PROVE  OfTurns(blocks, more)
BY DEF OfTurns

LEMMA OfTurnsCut ==
  ASSUME NEW blocks \in Seq(Block), NEW left, CutOf(blocks, left),
         NEW records \in SUBSET TurnRecord, OfTurns(blocks, records)
  PROVE  OfTurns(left, records)
<1>1. /\ Len(blocks) \in Nat /\ Len(left) \in Nat /\ Len(left) <= Len(blocks) /\ left \in Seq(Block)
      /\ \A i \in 1..Len(blocks): blocks[i] \in Block
  BY LenProperties, ElementOfSeq DEF CutOf
<1>2. \A i \in 1..Len(left):
        \/ left[i] = blocks[i]
        \/ /\ i = Len(left) /\ blocks[i].role = "calls" /\ left[i].role = "calls"
           /\ left[i].turn = blocks[i].turn
           /\ Len(left[i].calls) <= Len(blocks[i].calls)
           /\ \A n \in 1..Len(left[i].calls): left[i].calls[n] = blocks[i].calls[n]
  BY DEF CutOf
<1>3. SUFFICES ASSUME NEW i \in 1..Len(left), left[i].role = "calls", ~OnlyQuoted(left[i])
               PROVE  \E a \in records: CallsBlock(a, left, i)
  BY DEF OfTurns
<1>4. i \in 1..Len(blocks) /\ blocks[i].role = "calls" /\ left[i].turn = blocks[i].turn /\ i \in Nat
  BY <1>1, <1>2, <1>3
<1>5a. ~OnlyQuoted(blocks[i])
  <2>1. CASE left[i] = blocks[i]
    BY <1>3, <2>1
  <2>2. CASE left[i] # blocks[i]
    <3>1. /\ Len(left[i].calls) <= Len(blocks[i].calls)
          /\ \A n \in 1..Len(left[i].calls): left[i].calls[n] = blocks[i].calls[n]
      BY <1>2, <2>2
    <3>2. left[i] \in Block /\ blocks[i] \in Block
      BY <1>1, <1>4, ElementOfSeq
    <3>3. Len(left[i].calls) \in Nat /\ Len(blocks[i].calls) \in Nat
      BY <1>3, <1>4, <3>2, BlockFields
    <3>4. PICK n \in 1..Len(left[i].calls): left[i].calls[n].nth # 0
      BY <1>3 DEF OnlyQuoted
    <3>5. n \in 1..Len(blocks[i].calls) /\ blocks[i].calls[n].nth # 0
      BY <3>1, <3>3, <3>4
    <3> QED BY <3>5 DEF OnlyQuoted
  <2> QED BY <2>1, <2>2
<1>5. PICK a \in records: CallsBlock(a, blocks, i)
  BY <1>4, <1>5a DEF OfTurns
<1>6. /\ Len(left[i].calls) <= Len(a.calls)
      /\ \A n \in 1..Len(left[i].calls): left[i].calls[n] = CallsOf(a.turn, a.calls)[n]
  <2>1. CASE left[i] = blocks[i]
    BY <1>5, <2>1 DEF CallsBlock
  <2>2. CASE left[i] # blocks[i]
    <3>1. /\ Len(left[i].calls) <= Len(blocks[i].calls)
          /\ \A n \in 1..Len(left[i].calls): left[i].calls[n] = blocks[i].calls[n]
      BY <1>2, <2>2
    <3>2. left[i] \in Block /\ blocks[i] \in Block
      BY <1>1, <1>4, ElementOfSeq
    <3>3. Len(left[i].calls) \in Nat /\ Len(blocks[i].calls) \in Nat
      BY <1>3, <1>4, <3>2, BlockFields
    <3>4. /\ Len(blocks[i].calls) <= Len(a.calls)
          /\ \A n \in 1..Len(blocks[i].calls): blocks[i].calls[n] = CallsOf(a.turn, a.calls)[n]
      BY <1>5 DEF CallsBlock
    <3>5. Len(left[i].calls) <= Len(a.calls)
      <4>1. a.calls \in Seq(Names)
        BY MemoryAssumption DEF TurnRecord
      <4>2. Len(a.calls) \in Nat
        BY <4>1, LenProperties
      <4> QED BY <3>1, <3>3, <3>4, <4>2
    <3> QED BY <3>1, <3>3, <3>4, <3>5
  <2> QED BY <2>1, <2>2
<1>7. ASSUME ~QuotesInResults(a), NEW j \in 1..Len(a.calls), \A m \in i+1 .. i+j: m <= Len(left) /\ left[m].role = "tool"
      PROVE  left[i + j].call = CallsOf(a.turn, a.calls)[j]
  <2> DEFINE run == i+1 .. i+j
  <2>1. ASSUME NEW m \in run PROVE m <= Len(blocks) /\ blocks[m].role = "tool" /\ left[m] = blocks[m]
    <3>1. m \in 1..Len(left) /\ left[m].role = "tool"
      BY <1>1, <1>4, <1>7
    <3> QED BY <1>1, <1>2, <3>1
  <2>2. i + j \in i+1 .. i+j
    <3>1. a.calls \in Seq(Names)
      BY MemoryAssumption DEF TurnRecord
    <3>2. Len(a.calls) \in Nat
      BY <3>1, LenProperties
    <3> QED BY <1>4, <3>2
  <2>3. blocks[i + j].call = CallsOf(a.turn, a.calls)[j]
    BY <1>5, <1>7, <2>1 DEF CallsBlock
  <2> QED BY <2>1, <2>2, <2>3
<1>8. CallsBlock(a, left, i)
  BY <1>4, <1>5, <1>6, <1>7 DEF CallsBlock
<1> QED BY <1>8

LEMMA OfTurnsAppend ==
  ASSUME NEW blocks \in Seq(Block), NEW records \in SUBSET TurnRecord, OfTurns(blocks, records),
         NEW a \in records, ~OpensWithTool(a)
  PROVE  OfTurns(blocks \o TurnBlocks(a.turn, a.calls, a.quote), records)
<1> DEFINE new == TurnBlocks(a.turn, a.calls, a.quote)
           all == blocks \o new
           calls == CallsOf(a.turn, a.calls)
<1>1. a.turn \in 1..MaxTurns /\ a.calls \in Batches /\ a.quote \in Quotes /\ Fits(a.calls, a.quote)
  BY DEF TurnRecord
<1>2. TurnShape(a.turn, a.calls, a.quote, new)
  BY <1>1, TurnBlocksShape
<1>3. Len(a.calls) \in Nat /\ Len(calls) = Len(a.calls)
  BY <1>1, CallsTyped
<1> HIDE DEF new, calls
<1>4. /\ new \in Seq(Block) /\ Len(new) \in Nat /\ Len(new) >= 1 /\ new[1].role # "tool"
      /\ \A k \in 1..Len(new): new[k].role = "calls" =>
           \/ OnlyQuoted(new[k])
           \/ /\ new[k].turn = a.turn /\ new[k].calls = calls
              /\ ~QuotesInResults(a) => \A j \in 1..Len(a.calls): new[k + j].call = calls[j]
  <2>1. ~Opening(a.quote)
    BY DEF Opening, OpensWithTool
  <2> QED BY <1>2, <2>1, LenProperties DEF TurnShape, QuotesInResults, calls
<1>6. /\ all \in Seq(Block) /\ Len(all) = Len(blocks) + Len(new) /\ Len(blocks) \in Nat
      /\ \A i \in 1..Len(blocks) + Len(new): all[i] = IF i <= Len(blocks) THEN blocks[i] ELSE new[i - Len(blocks)]
  BY <1>4, ConcatProperties, LenProperties
<1> HIDE DEF all
<1>7. (\A i \in 1..Len(blocks): all[i] = blocks[i]) /\ (\A k \in 1..Len(new): all[Len(blocks) + k] = new[k])
  <2>1. \A i \in 1..Len(blocks): all[i] = blocks[i]
    BY <1>4, <1>6
  <2>2. ASSUME NEW k \in 1..Len(new) PROVE all[Len(blocks) + k] = new[k]
    <3>1. /\ Len(blocks) + k \in 1..Len(blocks) + Len(new) /\ ~(Len(blocks) + k <= Len(blocks))
          /\ Len(blocks) + k - Len(blocks) = k
      BY <1>4, <1>6
    <3> QED BY <1>6, <3>1
  <2> QED BY <2>1, <2>2
<1>8. SUFFICES ASSUME NEW i \in 1..Len(all), all[i].role = "calls", ~OnlyQuoted(all[i])
               PROVE  \E r \in records: CallsBlock(r, all, i)
  BY DEF OfTurns, all, new
<1>9. CASE i <= Len(blocks)
  <2>1. i \in 1..Len(blocks) /\ all[i] = blocks[i]
    BY <1>6, <1>7, <1>9
  <2>2. PICK r \in records: CallsBlock(r, blocks, i)
    BY <1>8, <2>1 DEF OfTurns
  <2>3. ASSUME ~QuotesInResults(r), NEW j \in 1..Len(r.calls),
               \A m \in i+1 .. i+j: m <= Len(all) /\ all[m].role = "tool"
        PROVE  all[i + j].call = CallsOf(r.turn, r.calls)[j]
    <3>0. j \in Nat /\ j >= 1
      <4>1. r.calls \in Seq(Names)
        BY MemoryAssumption DEF TurnRecord
      <4>2. Len(r.calls) \in Nat
        BY <4>1, LenProperties
      <4> QED BY <4>2
    <3>1. ~(i + j > Len(blocks))
      <4> SUFFICES ASSUME i + j > Len(blocks) PROVE FALSE
        OBVIOUS
      <4>1. Len(blocks) + 1 \in i+1 .. i+j
        BY <1>6, <2>1, <3>0
      <4>2. all[Len(blocks) + 1] = new[1]
        BY <1>4, <1>7
      <4> QED BY <1>4, <2>3, <4>1, <4>2
    <3>2. i + j \in 1..Len(blocks)
      BY <1>6, <2>1, <3>0, <3>1
    <3>3. \A m \in i+1 .. i+j: m <= Len(blocks) /\ all[m] = blocks[m]
      BY <1>6, <1>7, <2>1, <3>2
    <3>4. blocks[i + j].call = CallsOf(r.turn, r.calls)[j]
      BY <2>2, <2>3, <3>3 DEF CallsBlock
    <3> QED BY <1>7, <3>2, <3>4
  <2>4. CallsBlock(r, all, i)
    BY <2>1, <2>2, <2>3 DEF CallsBlock
  <2> QED BY <2>4
<1>10. CASE ~(i <= Len(blocks))
  <2> DEFINE k == i - Len(blocks)
  <2>1. k \in 1..Len(new) /\ Len(blocks) + k = i
    BY <1>4, <1>6, <1>10
  <2> HIDE DEF k
  <2>2. all[i] = new[k]
    BY <1>7, <2>1
  <2>3. /\ all[i].turn = a.turn /\ all[i].calls = calls
        /\ ~QuotesInResults(a) => \A j \in 1..Len(a.calls): new[k + j].call = calls[j]
    BY <1>4, <1>8, <2>1, <2>2
  <2>4. ASSUME ~QuotesInResults(a), NEW j \in 1..Len(a.calls),
               \A m \in i+1 .. i+j: m <= Len(all) /\ all[m].role = "tool"
        PROVE  all[i + j].call = calls[j]
    <3>1. i + j <= Len(all) /\ j \in Nat /\ j >= 1
      <4>1. i + j \in i+1 .. i+j
        BY <1>3, <1>6
      <4> QED BY <1>3, <2>4, <4>1
    <3>2. k + j \in 1..Len(new) /\ Len(blocks) + (k + j) = i + j
      <4>1. k \in Nat /\ k >= 1 /\ Len(blocks) + k = i /\ i + j <= Len(blocks) + Len(new)
        BY <1>4, <1>6, <2>1, <3>1
      <4>2. Len(blocks) \in Nat /\ Len(new) \in Nat /\ j \in Nat
        BY <1>4, <1>6, <3>1
      <4>3. Len(blocks) + (k + j) = (Len(blocks) + k) + j
        BY <4>1, <4>2
      <4>4. k + j <= Len(new) /\ k + j >= 1
        BY <4>1, <4>2, <4>3
      <4> QED BY <4>1, <4>2, <4>3, <4>4
    <3>3. all[i + j] = new[k + j]
      BY <1>7, <3>2
    <3> QED BY <2>3, <2>4, <3>3
  <2>5. CallsBlock(a, all, i)
    <3>1. Len(all[i].calls) <= Len(a.calls)
      BY <1>3, <2>3
    <3>2. \A n \in 1..Len(all[i].calls): all[i].calls[n] = CallsOf(a.turn, a.calls)[n]
      BY <2>3 DEF calls
    <3> QED BY <2>3, <2>4, <3>1, <3>2 DEF CallsBlock, calls
  <2> QED BY <2>5
<1> QED BY <1>9, <1>10

LEMMA InStepInit == Init => BlocksInStep
<1> SUFFICES ASSUME Init PROVE BlocksInStep
  OBVIOUS
<1>1. Len(<<>>) = 0
  BY EmptySeq
<1>2. OfTurns(<<>>, made)
  BY <1>1 DEF OfTurns
<1>3. cli.blocks = <<>> /\ \A d \in Days: files[d] = <<>>
  BY DEF Init, NotOpen
<1> QED BY <1>2, <1>3 DEF BlocksInStep

(* A turn written behind blocks that are in step. *)
LEMMA AppendInStep ==
  ASSUME TypeOK', NEW batch, NEW q, NEW blocks \in Seq(Block), OfTurns(blocks, made), Unopened(made'),
         made \subseteq made',
         \E a \in made': a.turn = turns + 1 /\ a.calls = batch /\ a.quote = q
  PROVE  OfTurns(blocks \o TurnBlocks(turns + 1, batch, q), made')
<1>1. PICK a \in made': a.turn = turns + 1 /\ a.calls = batch /\ a.quote = q
  OBVIOUS
<1>2. OfTurns(blocks, made')
  BY OfTurnsGrows
<1>3. made' \in SUBSET TurnRecord /\ ~OpensWithTool(a)
  BY DEF TypeOK, Unopened
<1>4. OfTurns(blocks \o TurnBlocks(a.turn, a.calls, a.quote), made')
  BY <1>2, <1>3, OfTurnsAppend
<1> QED BY <1>1, <1>4

(* One file is written, in step; the others stay. *)
LEMMA WriteInStep ==
  ASSUME TypeOK, BlocksInStep, NEW d \in Days, NEW f, files' = [files EXCEPT ![d] = f],
         Unopened(made') => OfTurns(f, made') /\ OfTurns(cli'.blocks, made'), made \subseteq made'
  PROVE  BlocksInStep'
<1>1. files \in [Days -> Seq(Block)]
  BY DEF TypeOK
<1>2. SUFFICES ASSUME Unopened(made') PROVE \A e \in Days: OfTurns(files'[e], made')
  BY DEF BlocksInStep, Unopened
<1>3. ASSUME NEW e \in Days PROVE OfTurns(files'[e], made')
  <2>1. CASE e = d
    BY <1>1, <1>2, <2>1
  <2>2. CASE e # d
    <3>1. files'[e] = files[e] /\ OfTurns(files[e], made)
      BY <1>1, <1>2, <2>2 DEF BlocksInStep, Unopened
    <3> QED BY <3>1, OfTurnsGrows
  <2> QED BY <2>1, <2>2
<1> QED BY <1>3

LEMMA InStepStep == TypeOK /\ TypeOK' /\ BlocksInStep /\ [Next]_vars => BlocksInStep'
<1> SUFFICES ASSUME TypeOK, TypeOK', BlocksInStep, [Next]_vars PROVE BlocksInStep'
  OBVIOUS
<1>1. files \in [Days -> Seq(Block)] /\ day \in Days /\ (\A d \in Days: files[d] \in Seq(Block))
  BY DEF TypeOK
<1>0. Unopened(made) => (\A d \in Days: OfTurns(files[d], made)) /\ OfTurns(cli.blocks, made)
  BY DEF BlocksInStep
<1>2. ASSUME NEW batch \in Batches, NEW q \in Quotes, AppendTurn(batch, q) PROVE BlocksInStep'
  <2>1. /\ cli' = cli /\ made \subseteq made'
        /\ files' = [files EXCEPT ![day] = files[day] \o TurnBlocks(turns + 1, batch, q)]
        /\ [turn |-> turns + 1, day |-> day, calls |-> batch, quote |-> q, done |-> TRUE] \in made'
    BY <1>2 DEF AppendTurn
  <2>2. \E a \in made': a.turn = turns + 1 /\ a.calls = batch /\ a.quote = q
    BY <2>1
  <2>3. ASSUME Unopened(made')
        PROVE  /\ OfTurns(files[day] \o TurnBlocks(turns + 1, batch, q), made')
               /\ OfTurns(cli'.blocks, made')
    <3>1. OfTurns(files[day], made) /\ OfTurns(cli.blocks, made)
      BY <1>0, <1>1, <2>1, <2>3 DEF Unopened
    <3>2. OfTurns(files[day] \o TurnBlocks(turns + 1, batch, q), made')
      BY <1>1, <2>1, <2>2, <2>3, <3>1, AppendInStep
    <3> QED BY <2>1, <3>1, <3>2, OfTurnsGrows
  <2> QED BY <1>1, <2>1, <2>3, WriteInStep
<1>3. ASSUME NEW batch \in Batches, NEW q \in Quotes, AppendCutShort(batch, q) PROVE BlocksInStep'
  <2>1. /\ turns < MaxTurns /\ Fits(batch, q) /\ cli' = cli /\ made \subseteq made'
        /\ [turn |-> turns + 1, day |-> day, calls |-> batch, quote |-> q, done |-> FALSE] \in made'
    BY <1>3 DEF AppendCutShort
  <2>2. PICK left \in CutWrites(files[day] \o TurnBlocks(turns + 1, batch, q)):
          files' = [files EXCEPT ![day] = left]
    BY <1>3 DEF AppendCutShort
  <2>3. \E a \in made': a.turn = turns + 1 /\ a.calls = batch /\ a.quote = q
    BY <2>1
  <2>4. files[day] \o TurnBlocks(turns + 1, batch, q) \in Seq(Block)
    BY <1>1, <2>1, AppendTyped
  <2>5. CutOf(files[day] \o TurnBlocks(turns + 1, batch, q), left)
    BY <2>2, <2>4, CutShape
  <2>6. ASSUME Unopened(made') PROVE OfTurns(left, made') /\ OfTurns(cli'.blocks, made')
    <3>1. OfTurns(files[day], made) /\ OfTurns(cli.blocks, made)
      BY <1>0, <1>1, <2>1, <2>6 DEF Unopened
    <3>2. OfTurns(files[day] \o TurnBlocks(turns + 1, batch, q), made')
      BY <1>1, <2>1, <2>3, <2>6, <3>1, AppendInStep
    <3>3. made' \in SUBSET TurnRecord
      BY DEF TypeOK
    <3>4. OfTurns(left, made')
      BY <2>4, <2>5, <3>2, <3>3, OfTurnsCut
    <3> QED BY <2>1, <3>1, <3>4, OfTurnsGrows
  <2> QED BY <1>1, <2>1, <2>2, <2>6, WriteInStep
<1>4. CASE CliOpen
  <2>1. cli'.blocks = files[day] /\ files' = files /\ made' = made
    BY <1>4 DEF CliOpen
  <2> QED BY <1>0, <1>1, <2>1 DEF BlocksInStep, Unopened
<1>5. ASSUME NEW q \in Quotes, CliWrite(q) PROVE BlocksInStep'
  <2>1. /\ cli.day \in Days /\ cli.blocks \in Seq(Block) /\ made \subseteq made' /\ cli' = NotOpen
        /\ files' = [files EXCEPT ![cli.day] = cli.blocks \o TurnBlocks(turns + 1, <<>>, q)]
        /\ [turn |-> turns + 1, day |-> cli.day, calls |-> <<>>, quote |-> q, done |-> TRUE] \in made'
    BY <1>5, FilesTyped DEF CliWrite
  <2>2. \E a \in made': a.turn = turns + 1 /\ a.calls = <<>> /\ a.quote = q
    BY <2>1
  <2>3. ASSUME Unopened(made')
        PROVE  OfTurns(cli.blocks \o TurnBlocks(turns + 1, <<>>, q), made') /\ OfTurns(cli'.blocks, made')
    <3>1. OfTurns(cli.blocks, made)
      BY <1>0, <2>1, <2>3 DEF Unopened
    <3>2. cli'.blocks = <<>> /\ Len(<<>>) = 0
      BY <2>1, EmptySeq DEF NotOpen
    <3>3. OfTurns(cli'.blocks, made')
      BY <3>2 DEF OfTurns
    <3>4. OfTurns(cli.blocks \o TurnBlocks(turns + 1, <<>>, q), made')
      BY <2>1, <2>2, <2>3, <3>1, AppendInStep
    <3> QED BY <3>3, <3>4
  <2> QED BY <2>1, <2>3, WriteInStep
<1>6. CASE Midnight
  BY <1>6 DEF Midnight, BlocksInStep, Unopened
<1>7. CASE Prune
  <2>1. /\ files' = [d \in Days |-> IF d + MaxAge < day THEN <<>> ELSE files[d]]
        /\ cli' = cli /\ made' = made
    BY <1>7 DEF Prune
  <2>2. OfTurns(<<>>, made')
    <3>1. Len(<<>>) = 0
      BY EmptySeq
    <3> QED BY <3>1 DEF OfTurns
  <2>3. \A d \in Days: files'[d] = <<>> \/ files'[d] = files[d]
    BY <2>1
  <2>4. Unopened(made) => \A d \in Days: OfTurns(files'[d], made')
    BY <1>0, <2>1, <2>2, <2>3
  <2> QED BY <1>0, <2>1, <2>4 DEF BlocksInStep, Unopened
<1>8. CASE UNCHANGED vars
  BY <1>8 DEF vars, BlocksInStep, Unopened
<1> QED BY <1>2, <1>3, <1>4, <1>5, <1>6, <1>7, <1>8 DEF Next

-----------------------------------------------------------------------------
(* The inductive invariant: the types, that every file is in step, and that *)
(* the turns stand in it.                                                   *)
MemoryInv == TypeOK /\ BlocksInStep /\ TurnsKept

(* It holds throughout, for any writers, stops and prunes (memory.py,        *)
(* append_turn).                                                            *)
THEOREM MemoryInvariance == Spec => []MemoryInv
<1>1. Init => MemoryInv
  <2>1. Init => TurnsKept
    BY DEF Init, TurnsKept
  <2> QED BY <2>1, TypeInit, InStepInit DEF MemoryInv
<1>2. MemoryInv /\ [Next]_vars => MemoryInv'
  BY TypeStep, InStepStep, KeptStep DEF MemoryInv
<1> QED BY <1>1, <1>2, PTL DEF Spec

(* The variables of the memory keep their types. *)
THEOREM MemoryTypeCorrect == Spec => []TypeOK
BY MemoryInvariance, PTL DEF MemoryInv

(* Any number of appends, by the gateway and by the command, of cut writes, *)
(* midnights and prunes leave a turn whose append returned whole in its day's*)
(* file, unless that day was harmed or is past the pruner's age.            *)
THEOREM AppendedTurnsStay == Spec => []TurnsKept
BY MemoryInvariance, PTL DEF MemoryInv

-----------------------------------------------------------------------------
(* A result is read back with its own call.                                 *)

LEMMA ParsedTyped ==
  ASSUME NEW b \in Block
  PROVE  /\ b.role # "calls" => ParsedCalls(b) = {}
         /\ b.role = "calls" => ParsedCalls(b) \subseteq 1..Len(b.calls) /\ Len(b.calls) \in Nat
         /\ IsFiniteSet(ParsedCalls(b))
         /\ \A n \in ParsedCalls(b): Number(b, n) \in Nat /\ Number(b, n) >= 1
<1>1. b.role # "calls" => ParsedCalls(b) = {}
  BY DEF ParsedCalls
<1>2. b.role = "calls" => ParsedCalls(b) \subseteq 1..Len(b.calls) /\ Len(b.calls) \in Nat
  BY BlockFields DEF ParsedCalls
<1>3. IsFiniteSet(ParsedCalls(b))
  <2>1. CASE b.role = "calls"
    <3>1. IsFiniteSet(1..Len(b.calls))
      BY <1>2, <2>1, FS_Interval
    <3>2. ParsedCalls(b) \in SUBSET (1..Len(b.calls))
      BY <1>2, <2>1
    <3> QED BY <3>1, <3>2, FS_Subset
  <2>2. CASE b.role # "calls"
    BY <1>1, <2>2, FS_EmptySet
  <2> QED BY <2>1, <2>2
<1>4. ASSUME NEW n \in ParsedCalls(b) PROVE Number(b, n) \in Nat /\ Number(b, n) >= 1
  <2> DEFINE upto == {k \in ParsedCalls(b): k <= n}
  <2>1. IsFiniteSet(upto)
    BY <1>3, FS_Subset
  <2>2. n \in upto
    BY <1>1, <1>2
  <2>3. Cardinality(upto) \in Nat /\ Cardinality(upto) # 0
    BY <2>1, <2>2, FS_CardinalityType, FS_EmptySet
  <2> QED BY <2>3 DEF Number
<1> QED BY <1>1, <1>2, <1>3, <1>4

(* If every call of the block is parsed, the n-th is number n. *)
LEMMA NumberIsPlace ==
  ASSUME NEW b \in Block, b.role = "calls", ParsedCalls(b) = 1..Len(b.calls), NEW n \in ParsedCalls(b)
  PROVE  Number(b, n) = n
<1>1. Len(b.calls) \in Nat
  BY BlockFields
<1>2. {k \in ParsedCalls(b): k <= n} = 1..n
  BY <1>1
<1>3. Cardinality(1..n) = n
  BY <1>1, FS_Interval
<1> QED BY <1>2, <1>3 DEF Number

LEMMA OwnResult ==
  ASSUME NEW blocks \in Seq(Block), NEW kept \in SUBSET (1..Len(blocks)),
         NEW records \in SUBSET TurnRecord, OfTurns(blocks, records),
         NEW i \in kept, NEW n \in ParsedCalls(blocks[i]),
         blocks[i].calls[n].nth > 0,
         \A a \in records: a.turn = blocks[i].turn => Range(a.calls) \subseteq Identifiers /\ ~QuotesInResults(a)
  PROVE  Result(blocks, kept, i, Number(blocks[i], n)) \in {blocks[i].calls[n], NoResult}
<1>1. i \in 1..Len(blocks) /\ Len(blocks) \in Nat /\ blocks[i] \in Block
  BY LenProperties, ElementOfSeq
<1>2. blocks[i].role = "calls" /\ Len(blocks[i].calls) \in Nat /\ n \in 1..Len(blocks[i].calls)
  BY <1>1, ParsedTyped
<1>3. PICK a \in records: CallsBlock(a, blocks, i)
  BY <1>1, <1>2 DEF OfTurns, OnlyQuoted
<1>4. /\ a.turn = blocks[i].turn /\ Len(blocks[i].calls) <= Len(a.calls)
      /\ \A k \in 1..Len(blocks[i].calls): blocks[i].calls[k] = CallsOf(a.turn, a.calls)[k]
      /\ \A j \in 1..Len(a.calls):
           (\A m \in i+1 .. i+j: m <= Len(blocks) /\ blocks[m].role = "tool") =>
             blocks[i + j].call = CallsOf(a.turn, a.calls)[j]
  BY <1>3 DEF CallsBlock
<1>5. a.turn \in 1..MaxTurns /\ a.calls \in Batches
  BY DEF TurnRecord
<1>6. /\ a.calls \in Seq(Names) /\ Len(a.calls) \in Nat /\ DOMAIN a.calls = 1..Len(a.calls)
      /\ \A k \in 1..Len(a.calls): CallsOf(a.turn, a.calls)[k] = [turn |-> a.turn, nth |-> k, name |-> a.calls[k]]
  BY <1>5, CallsTyped, LenProperties
<1>7. \A k \in 1..Len(a.calls): a.calls[k] \in Identifiers
  BY <1>4, <1>6 DEF Range
<1>8. \A k \in 1..Len(blocks[i].calls): blocks[i].calls[k].name \in Identifiers
  <2> SUFFICES ASSUME NEW k \in 1..Len(blocks[i].calls) PROVE blocks[i].calls[k].name \in Identifiers
    OBVIOUS
  <2>1. k \in 1..Len(a.calls)
    BY <1>2, <1>4, <1>6
  <2>2. blocks[i].calls[k] = [turn |-> a.turn, nth |-> k, name |-> a.calls[k]]
    BY <1>4, <1>6, <2>1
  <2> QED BY <1>7, <2>1, <2>2
<1>9. ParsedCalls(blocks[i]) = 1..Len(blocks[i].calls)
  <2>1. DOMAIN blocks[i].calls = 1..Len(blocks[i].calls)
    BY <1>1, <1>2, BlockFields
  <2> QED BY <1>2, <1>8, <2>1 DEF ParsedCalls
<1>10. Number(blocks[i], n) = n
  BY <1>1, <1>2, <1>9, NumberIsPlace
<1>11. CASE \A m \in i+1 .. i+n: m \in kept /\ blocks[m].role = "tool"
  <2>1. i + n \in i+1 .. i+n
    BY <1>1, <1>2
  <2>2. i + n \in 1..Len(blocks)
    BY <1>11, <2>1
  <2>3. n \in 1..Len(a.calls) /\ \A m \in i+1 .. i+n: m <= Len(blocks) /\ blocks[m].role = "tool"
    BY <1>1, <1>2, <1>4, <1>6, <1>11
  <2>4. blocks[i + n].call = CallsOf(a.turn, a.calls)[n]
    BY <1>4, <2>3
  <2>5. blocks[i + n].call = blocks[i].calls[n]
    BY <1>2, <1>4, <2>4
  <2> QED BY <1>10, <1>11, <2>5 DEF Result
<1>12. CASE ~(\A m \in i+1 .. i+n: m \in kept /\ blocks[m].role = "tool")
  BY <1>10, <1>12 DEF Result
<1> QED BY <1>11, <1>12

(* What a layer holds for a call is the result message of a kept block. *)
LEMMA LayerTells ==
  ASSUME NEW layer, NEW blocks \in Seq(Block), NEW kept \in SUBSET (1..Len(blocks)),
         NEW records \in SUBSET TurnRecord, OfTurns(blocks, records),
         NEW m \in Messages(layer, blocks, kept), m.role = "tool", m.call.nth > 0,
         \A a \in records: a.turn = m.turn => Range(a.calls) \subseteq Identifiers /\ ~QuotesInResults(a)
  PROVE  m.result \in {m.call, NoResult}
<1>1. ~\E i \in {k \in kept: blocks[k].role \notin {"tool", "other"}}: m = OwnMessage(layer, blocks, i)
  BY DEF OwnMessage
<1>2. \E i \in kept: m \in {ResultMessage(layer, blocks, kept, i, n): n \in ParsedCalls(blocks[i])}
  BY <1>1 DEF Messages
<1>3. PICK i \in kept: m \in {ResultMessage(layer, blocks, kept, i, n): n \in ParsedCalls(blocks[i])}
  BY <1>2
<1>4. PICK n \in ParsedCalls(blocks[i]): m = ResultMessage(layer, blocks, kept, i, n)
  BY <1>3
<1>5. /\ m.turn = blocks[i].turn /\ m.call = blocks[i].calls[n]
      /\ m.result = Result(blocks, kept, i, Number(blocks[i], n))
  BY <1>4 DEF ResultMessage
<1>6. Result(blocks, kept, i, Number(blocks[i], n)) \in {blocks[i].calls[n], NoResult}
  BY <1>5, OwnResult
<1> QED BY <1>5, <1>6

LEMMA OutcomeFollows == MemoryInv => OwnOutcome
<1> SUFFICES ASSUME MemoryInv, \A a \in made: ~OpensWithTool(a),
                    NEW m \in History, m.role = "tool", m.call.nth > 0,
                    \A a \in made: a.turn = m.turn =>
                      Range(a.calls) \subseteq Identifiers /\ ~QuotesInResults(a)
             PROVE  m.result \in {m.call, NoResult}
  BY DEF OwnOutcome
<1>1. /\ \A d \in Days: files[d] \in Seq(Block) /\ OfTurns(files[d], made)
      /\ made \in SUBSET TurnRecord /\ day \in Days /\ day \in Nat
  BY FilesTyped DEF MemoryInv, TypeOK, BlocksInStep, Unopened
<1>2. \A blocks: KeptToday(blocks) \in SUBSET (1..Len(blocks)) /\ FirstTurn(blocks) \in SUBSET (1..Len(blocks))
  BY DEF KeptToday, FirstTurn
<1>3. m \in PastActivity \/ m \in Yesterday \/ m \in Today
  BY DEF History
<1>4. m \notin PastActivity
  BY DEF PastActivity
<1>5. CASE m \in Yesterday
  <2>1. day # 1 /\ m \in Messages("yesterday", files[day - 1], FirstTurn(files[day - 1]))
    BY <1>5 DEF Yesterday
  <2>2. day - 1 \in Days
    BY <1>1, <2>1, MemoryAssumption DEF Days
  <2> QED BY <1>1, <1>2, <2>1, <2>2, LayerTells
<1>6. CASE m \in Today
  BY <1>1, <1>2, <1>6, LayerTells DEF Today
<1> QED BY <1>3, <1>4, <1>5, <1>6

(* Whatever was cut off a file by a stopped write or off its start by the   *)
(* budget, and whatever headers the texts hold, the result read back with a *)
(* call is that call's, in every turn whose tools have identifiers for names*)
(* and whose results hold no header, while no user's message opens as a     *)
(* tool's result.                                                           *)
THEOREM ResultsAreOwn == Spec => []OwnOutcome
BY MemoryInvariance, OutcomeFollows, PTL

-----------------------------------------------------------------------------
(* Today's layer weighs no more than the budget: each of its messages that  *)
(* weighs stands for a block of its own.                                    *)

(* A message of a layer comes from a kept block: it is the block's own, or  *)
(* the result of a call in it; a result that weighs was found in the tool   *)
(* block nth places further.                                                *)
Placed(m, layer, blocks, kept) ==
  /\ m.layer = layer /\ m.at \in kept /\ m.at \in Nat /\ m.nth \in Nat
  /\ m.nth = 0 => blocks[m.at].role \notin {"tool", "other"} /\ m = OwnMessage(layer, blocks, m.at)
  /\ m.nth # 0 =>
       /\ blocks[m.at].role = "calls"
       /\ \E n \in ParsedCalls(blocks[m.at]):
            m.nth = Number(blocks[m.at], n) /\ m = ResultMessage(layer, blocks, kept, m.at, n)
       /\ Weighs(m) => \A k \in m.at + 1 .. m.at + m.nth: k \in kept /\ blocks[k].role = "tool"

LEMMA MessagePlace ==
  ASSUME NEW layer, NEW blocks \in Seq(Block), NEW kept \in SUBSET (1..Len(blocks)),
         NEW m \in Messages(layer, blocks, kept)
  PROVE  Placed(m, layer, blocks, kept)
<1> USE DEF Placed
<1>1. \A i \in kept: i \in Nat /\ blocks[i] \in Block
  <2>1. Len(blocks) \in Nat /\ \A i \in 1..Len(blocks): blocks[i] \in Block
    BY LenProperties, ElementOfSeq
  <2> QED BY <2>1
<1>2. CASE \E i \in {k \in kept: blocks[k].role \notin {"tool", "other"}}: m = OwnMessage(layer, blocks, i)
  <2>1. PICK i \in kept: blocks[i].role \notin {"tool", "other"} /\ m = OwnMessage(layer, blocks, i)
    BY <1>2
  <2>2. m.layer = layer /\ m.at = i /\ m.nth = 0
    BY <2>1 DEF OwnMessage
  <2> QED BY <1>1, <2>1, <2>2
<1>3. CASE \E i \in kept: m \in {ResultMessage(layer, blocks, kept, i, n): n \in ParsedCalls(blocks[i])}
  <2>1. PICK i \in kept: m \in {ResultMessage(layer, blocks, kept, i, n): n \in ParsedCalls(blocks[i])}
    BY <1>3
  <2>2. PICK n \in ParsedCalls(blocks[i]): m = ResultMessage(layer, blocks, kept, i, n)
    BY <2>1
  <2>3. /\ m.layer = layer /\ m.at = i /\ m.nth = Number(blocks[i], n) /\ m.role = "tool"
        /\ m.result = Result(blocks, kept, i, Number(blocks[i], n))
    BY <2>2 DEF ResultMessage
  <2>4. blocks[i].role = "calls" /\ m.nth \in Nat /\ m.nth >= 1
    BY <1>1, <2>3, ParsedTyped
  <2>5. Weighs(m) => \A k \in i + 1 .. i + m.nth: k \in kept /\ blocks[k].role = "tool"
    BY <2>3 DEF Weighs, Result
  <2> QED BY <1>1, <2>2, <2>3, <2>4, <2>5
<1> QED BY <1>2, <1>3 DEF Messages

(* Two calls of a block have two numbers. *)
LEMMA NumbersDiffer ==
  ASSUME NEW b \in Block, NEW n \in ParsedCalls(b), NEW k \in ParsedCalls(b), Number(b, n) = Number(b, k)
  PROVE  n = k
<1> DEFINE upto(x) == {y \in ParsedCalls(b): y <= x}
<1>1. ParsedCalls(b) \subseteq Nat /\ IsFiniteSet(ParsedCalls(b))
  BY ParsedTyped
<1>2. \A x, y \in ParsedCalls(b): x < y => Number(b, x) # Number(b, y)
  <2> SUFFICES ASSUME NEW x \in ParsedCalls(b), NEW y \in ParsedCalls(b), x < y, Number(b, x) = Number(b, y)
               PROVE  FALSE
    OBVIOUS
  <2>1. x \in Nat /\ y \in Nat
    BY <1>1
  <2>2. Cardinality(upto(x)) = Cardinality(upto(y)) /\ IsFiniteSet(upto(y))
    BY <1>1, FS_Subset DEF Number
  <2>3. upto(x) = upto(y)
    <3>1. upto(x) \in SUBSET upto(y)
      BY <1>1, <2>1
    <3> HIDE DEF upto
    <3> QED BY <2>2, <3>1, FS_Subset
  <2>4. y \in upto(y) /\ y \notin upto(x)
    BY <2>1
  <2> QED BY <2>3, <2>4
<1>3. n \in Nat /\ k \in Nat
  BY <1>1
<1> QED BY <1>2, <1>3

LEMMA OneForABlock ==
  ASSUME NEW layer, NEW blocks \in Seq(Block), NEW kept \in SUBSET (1..Len(blocks)),
         NEW m \in Messages(layer, blocks, kept), Weighs(m),
         NEW k \in Messages(layer, blocks, kept), Weighs(k),
         m.at + m.nth = k.at + k.nth
  PROVE  m = k
<1>1. Placed(m, layer, blocks, kept)
  BY MessagePlace
<1>2. Placed(k, layer, blocks, kept)
  BY MessagePlace
<1> USE DEF Placed
<1>3. blocks[m.at].role # "tool" /\ blocks[k.at].role # "tool"
  BY <1>1, <1>2
<1>4. ~(m.at < k.at)
  <2> SUFFICES ASSUME m.at < k.at PROVE FALSE
    OBVIOUS
  <2>1. k.at \in m.at + 1 .. m.at + m.nth /\ m.nth # 0
    BY <1>1, <1>2
  <2> QED BY <1>1, <1>3, <2>1
<1>5. ~(k.at < m.at)
  <2> SUFFICES ASSUME k.at < m.at PROVE FALSE
    OBVIOUS
  <2>1. m.at \in k.at + 1 .. k.at + k.nth /\ k.nth # 0
    BY <1>1, <1>2
  <2> QED BY <1>2, <1>3, <2>1
<1>6. m.at = k.at /\ m.nth = k.nth
  BY <1>1, <1>2, <1>4, <1>5
<1>7. CASE m.nth = 0
  BY <1>1, <1>2, <1>6, <1>7
<1>8. CASE m.nth # 0
  <2>1. PICK n \in ParsedCalls(blocks[m.at]):
          m.nth = Number(blocks[m.at], n) /\ m = ResultMessage(layer, blocks, kept, m.at, n)
    BY <1>1, <1>8
  <2>2. PICK x \in ParsedCalls(blocks[m.at]):
          m.nth = Number(blocks[m.at], x) /\ k = ResultMessage(layer, blocks, kept, m.at, x)
    BY <1>2, <1>6, <1>8
  <2>3. blocks[m.at] \in Block
    BY <1>1, ElementOfSeq
  <2>4. n = x
    BY <2>1, <2>2, <2>3, NumbersDiffer
  <2> QED BY <2>1, <2>2, <2>4
<1> QED BY <1>7, <1>8

LEMMA LayerWeight ==
  ASSUME NEW layer, NEW blocks \in Seq(Block), NEW kept \in SUBSET (1..Len(blocks))
  PROVE  /\ IsFiniteSet({m \in Messages(layer, blocks, kept): Weighs(m)})
         /\ Weight(Messages(layer, blocks, kept)) <= Cardinality(kept)
<1> DEFINE heavy == {m \in Messages(layer, blocks, kept): Weighs(m)}
           place == [m \in heavy |-> m.at + m.nth]
<1>1. Len(blocks) \in Nat /\ IsFiniteSet(kept)
  <2>1. Len(blocks) \in Nat
    BY LenProperties
  <2>2. IsFiniteSet(1..Len(blocks))
    BY <2>1, FS_Interval
  <2> QED BY <2>1, <2>2, FS_Subset
<1>2. ASSUME NEW m \in heavy PROVE m.at + m.nth \in kept
  <2>1. /\ m.at \in kept /\ m.at \in Nat /\ m.nth \in Nat
        /\ m.nth # 0 => \A k \in m.at + 1 .. m.at + m.nth: k \in kept
    BY MessagePlace DEF Placed
  <2>2. CASE m.nth = 0
    BY <2>1, <2>2
  <2>3. CASE m.nth # 0
    <3>1. m.at + m.nth \in m.at + 1 .. m.at + m.nth
      BY <2>1, <2>3
    <3> QED BY <2>1, <2>3, <3>1
  <2> QED BY <2>2, <2>3
<1>3. ASSUME NEW m \in heavy, NEW k \in heavy, m.at + m.nth = k.at + k.nth PROVE m = k
  BY <1>3, OneForABlock
<1> HIDE DEF heavy
<1>4. place \in [heavy -> kept]
  BY <1>2
<1>5. \A m, k \in heavy: place[m] = place[k] => m = k
  BY <1>3
<1>6. place \in Injection(heavy, kept)
  BY <1>4, <1>5 DEF Injection, IsInjective
<1> HIDE DEF place
<1>7. IsFiniteSet(heavy) /\ Cardinality(heavy) <= Cardinality(kept)
  BY <1>1, <1>6, FS_Injection
<1> QED BY <1>7 DEF heavy, Weight

LEMMA TodayFits ==
  ASSUME NEW blocks \in Seq(Block)
  PROVE  IsFiniteSet(KeptToday(blocks)) /\ Cardinality(KeptToday(blocks)) <= Budget
<1>1. Len(blocks) \in Nat /\ Budget \in Nat
  BY LenProperties, MemoryAssumption
<1>2. CASE Len(blocks) <= Budget
  <2>1. KeptToday(blocks) = 1..Len(blocks)
    BY <1>1, <1>2 DEF KeptToday
  <2>2. /\ IsFiniteSet(1..Len(blocks))
        /\ Cardinality(1..Len(blocks)) = IF 1 > Len(blocks) THEN 0 ELSE Len(blocks) - 1 + 1
    <3>1. 1 \in Int /\ Len(blocks) \in Int
      BY <1>1
    <3> QED BY <3>1, FS_Interval
  <2> QED BY <1>1, <1>2, <2>1, <2>2
<1>3. CASE Len(blocks) > Budget
  <2>1. KeptToday(blocks) = (Len(blocks) - Budget + 1)..Len(blocks)
    BY <1>1, <1>3 DEF KeptToday
  <2>2. /\ IsFiniteSet((Len(blocks) - Budget + 1)..Len(blocks))
        /\ Cardinality((Len(blocks) - Budget + 1)..Len(blocks)) =
             IF Len(blocks) - Budget + 1 > Len(blocks) THEN 0 ELSE Len(blocks) - (Len(blocks) - Budget + 1) + 1
    <3>1. Len(blocks) - Budget + 1 \in Int /\ Len(blocks) \in Int
      BY <1>1
    <3> QED BY <3>1, FS_Interval
  <2> QED BY <1>1, <2>1, <2>2
<1> QED BY <1>1, <1>2, <1>3

(* Every message of an earlier layer is older than those of today. *)
LEMMA TodayIsLast ==
  ASSUME TypeOK, NEW m \in Today, NEW k \in PastActivity \union Yesterday \union Today, ~Older(k, m)
  PROVE  k \in Today
<1>1. files[day] \in Seq(Block) /\ day \in Days /\ day \in Nat
  BY FilesTyped DEF TypeOK
<1>2. \A blocks: KeptToday(blocks) \in SUBSET (1..Len(blocks)) /\ FirstTurn(blocks) \in SUBSET (1..Len(blocks))
  BY DEF KeptToday, FirstTurn
<1>3. m.layer = "today"
  BY <1>1, <1>2, MessagePlace DEF Today, Placed
<1>4. k \in PastActivity => k.layer = "summary"
  BY DEF PastActivity
<1>5. k \in Yesterday => k.layer \in {"yesterday", "marker"}
  <2> SUFFICES ASSUME k \in Yesterday PROVE k.layer \in {"yesterday", "marker"}
    OBVIOUS
  <2>1. day # 1 /\ (k \in Messages("yesterday", files[day - 1], FirstTurn(files[day - 1])) \/ k.layer = "marker")
    BY DEF Yesterday
  <2>2. day - 1 \in Days
    BY <1>1, <2>1, MemoryAssumption DEF Days
  <2>3. files[day - 1] \in Seq(Block)
    BY <2>2, FilesTyped
  <2> QED BY <1>2, <2>1, <2>3, MessagePlace DEF Placed
<1>6. \A l \in {"summary", "yesterday", "marker"}: LayerOrder[l] < LayerOrder["today"]
  BY DEF LayerOrder
<1> QED BY <1>3, <1>4, <1>5, <1>6 DEF Older

LEMMA WholeFollows == TypeOK => TodayIsWhole
<1> SUFFICES ASSUME TypeOK, NEW m \in Today PROVE m \in History
  BY DEF TodayIsWhole
<1> DEFINE all == PastActivity \union Yesterday \union Today
           tail == {k \in all: ~Older(k, m)}
           heavy == {k \in Today: Weighs(k)}
<1>1. files[day] \in Seq(Block) /\ KeptToday(files[day]) \in SUBSET (1..Len(files[day]))
  BY DEF TypeOK, KeptToday
<1>2. IsFiniteSet(heavy) /\ Weight(Today) <= Cardinality(KeptToday(files[day]))
  BY <1>1, LayerWeight DEF Today
<1>3. {k \in tail: Weighs(k)} \in SUBSET heavy
  BY TodayIsLast
<1>4. Weight(tail) <= Weight(Today)
  <2>1. Cardinality({k \in tail: Weighs(k)}) <= Cardinality(heavy)
    <3> HIDE DEF tail, heavy
    <3> QED BY <1>2, <1>3, FS_Subset
  <2> QED BY <2>1 DEF Weight
<1>5. /\ Cardinality(KeptToday(files[day])) <= Budget /\ Cardinality(KeptToday(files[day])) \in Nat
      /\ Weight(Today) \in Nat /\ Weight(tail) \in Nat /\ Budget \in Nat
  <2>1. IsFiniteSet({k \in tail: Weighs(k)})
    <3> HIDE DEF tail, heavy
    <3> QED BY <1>2, <1>3, FS_Subset
  <2>2. Weight(tail) \in Nat /\ Weight(Today) \in Nat
    <3> HIDE DEF tail
    <3> QED BY <1>2, <2>1, FS_CardinalityType DEF Weight, heavy
  <2>3. IsFiniteSet(KeptToday(files[day])) /\ Cardinality(KeptToday(files[day])) <= Budget
    BY <1>1, TodayFits
  <2> QED BY <2>2, <2>3, FS_CardinalityType, MemoryAssumption
<1>6. Weight(tail) <= Budget
  <2> HIDE DEF tail
  <2> QED BY <1>2, <1>4, <1>5
<1>7. m \in all
  OBVIOUS
<1> QED BY <1>6, <1>7 DEF History

(* Whatever the sizes of the files, the budget for all layers takes nothing *)
(* of today's: the cut of today's file alone has left no more than fits.    *)
THEOREM TodayStaysWhole == Spec => []TodayIsWhole
BY MemoryTypeCorrect, WholeFollows, PTL

-----------------------------------------------------------------------------
(* What the pruner takes from a load.                                       *)

(* Which messages of yesterday and of today are loaded has nothing to do    *)
(* with the summary, which is older than they are.                          *)
Recent == Yesterday \union Today

LEMMA RecentStays ==
  {m \in History: m.layer # "summary"} = {m \in Recent: Weight({k \in Recent: ~Older(k, m)}) <= Budget}
<1>1. \A layer, blocks, kept: \A m \in Messages(layer, blocks, kept): m.layer = layer
  <2> SUFFICES ASSUME NEW layer, NEW blocks, NEW kept, NEW m \in Messages(layer, blocks, kept)
               PROVE  m.layer = layer
    OBVIOUS
  <2>1. CASE \E i \in {k \in kept: blocks[k].role \notin {"tool", "other"}}: m = OwnMessage(layer, blocks, i)
    BY <2>1 DEF OwnMessage
  <2>2. CASE \E i \in kept: m \in {ResultMessage(layer, blocks, kept, i, n): n \in ParsedCalls(blocks[i])}
    <3>1. \E i, n: m = ResultMessage(layer, blocks, kept, i, n)
      BY <2>2
    <3> QED BY <3>1 DEF ResultMessage
  <2> QED BY <2>1, <2>2 DEF Messages
<1>2. \A m \in Today: m.layer = "today"
  BY <1>1 DEF Today
<1>3. \A m \in Yesterday: m.layer \in {"yesterday", "marker"}
  <2> SUFFICES ASSUME NEW m \in Yesterday PROVE m.layer \in {"yesterday", "marker"}
    OBVIOUS
  <2>1. m \in Messages("yesterday", files[day - 1], FirstTurn(files[day - 1])) \/ m.layer = "marker"
    BY DEF Yesterday
  <2> QED BY <1>1, <2>1
<1>4. \A m \in PastActivity: m.layer = "summary"
  BY DEF PastActivity
<1>5. \A l \in {"yesterday", "marker", "today"}: LayerOrder["summary"] < LayerOrder[l] /\ l # "summary"
  BY DEF LayerOrder
<1>6. ASSUME NEW m \in Recent, NEW k \in PastActivity PROVE Older(k, m) /\ m.layer # "summary"
  BY <1>2, <1>3, <1>4, <1>5 DEF Recent, Older
<1>7. \A m \in Recent: m.layer # "summary"
  BY <1>2, <1>3 DEF Recent
<1>8. ASSUME NEW m \in Recent
      PROVE  {k \in PastActivity \union Yesterday \union Today: ~Older(k, m)} = {k \in Recent: ~Older(k, m)}
  BY <1>6 DEF Recent
<1>9. \A m: m \in History /\ m.layer # "summary" <=>
              m \in Recent /\ Weight({k \in PastActivity \union Yesterday \union Today: ~Older(k, m)}) <= Budget
  BY <1>4, <1>7 DEF History, Recent
<1> QED BY <1>8, <1>9

(* A load reads today's file and yesterday's; and those of the summary. *)
LEMMA RecentReads ==
  ASSUME day' = day, files'[day] = files[day], day # 1 => files'[day - 1] = files[day - 1]
  PROVE  Today' = Today /\ Yesterday' = Yesterday /\ Recent' = Recent
<1>1. Today' = Today
  BY DEF Today
<1>2. Yesterday' = Yesterday
  <2>1. CASE day = 1
    BY <2>1 DEF Yesterday
  <2>2. CASE day # 1
    BY <2>2 DEF Yesterday
  <2> QED BY <2>1, <2>2
<1> QED BY <1>1, <1>2 DEF Recent

LEMMA RecentIsLoaded ==
  ASSUME Recent' = Recent
  PROVE  {m \in History': m.layer # "summary"} = {m \in History: m.layer # "summary"}
<1>1. {m \in History': m.layer # "summary"} = {m \in Recent': Weight({k \in Recent': ~Older(k, m)}) <= Budget}
  <2>1. ({m \in History: m.layer # "summary"} = {m \in Recent: Weight({k \in Recent: ~Older(k, m)}) <= Budget})'
    BY RecentStays, PTL
  <2> QED BY <2>1
<1> QED BY <1>1, RecentStays

(* The only step that leaves the day and the turns, and touches a file, is  *)
(* the pruner's.                                                            *)
LEMMA QuietStep ==
  ASSUME TypeOK, [Next]_vars, day' = day, turns' = turns
  PROVE  files' = files \/ files' = [d \in Days |-> IF d + MaxAge < day THEN <<>> ELSE files[d]]
<1>1. turns' # turns + 1 /\ day' # day + 1
  BY FilesTyped
<1>2. ~\E batch \in Batches, q \in Quotes: AppendTurn(batch, q) \/ AppendCutShort(batch, q)
  BY <1>1 DEF AppendTurn, AppendCutShort
<1>3. ~(\E q \in Quotes: CliWrite(q)) /\ ~Midnight
  BY <1>1 DEF CliWrite, Midnight
<1>4. CliOpen \/ Prune \/ UNCHANGED vars
  BY <1>2, <1>3 DEF Next
<1> QED BY <1>4 DEF CliOpen, Prune, vars

LEMMA PruneTakesStep ==
  TypeOK /\ [Next]_vars =>
    (day' = day /\ turns' = turns /\ MaxAge >= 1 =>
       /\ {m \in History': m.layer # "summary"} = {m \in History: m.layer # "summary"}
       /\ SummaryDays' \subseteq SummaryDays
       /\ \A d \in SummaryDays \ SummaryDays': d + MaxAge < day)
<1> SUFFICES ASSUME TypeOK, [Next]_vars, day' = day, turns' = turns, MaxAge >= 1
             PROVE  /\ {m \in History': m.layer # "summary"} = {m \in History: m.layer # "summary"}
                    /\ SummaryDays' \subseteq SummaryDays
                    /\ \A d \in SummaryDays \ SummaryDays': d + MaxAge < day
  OBVIOUS
<1>1. day \in Days /\ day \in Nat /\ MaxAge \in Int /\ MaxDay \in Nat
  BY FilesTyped DEF TypeOK
<1>2. \A d \in Days: /\ files'[d] = files[d] \/ (d + MaxAge < day /\ files'[d] = <<>>)
                     /\ d \in Nat
  <2>1. \A d \in Days: d \in Nat
    BY DEF Days
  <2> QED BY <2>1, QuietStep
<1>3. files'[day] = files[day]
  BY <1>1, <1>2
<1>4. ASSUME day # 1 PROVE files'[day - 1] = files[day - 1]
  <2>1. day - 1 \in Days /\ ~((day - 1) + MaxAge < day)
    BY <1>1, <1>4 DEF Days
  <2> QED BY <1>2, <2>1
<1>5. {m \in History': m.layer # "summary"} = {m \in History: m.layer # "summary"}
  BY <1>3, <1>4, RecentReads, RecentIsLoaded
<1>6. UserBlocks(<<>>) = {}
  <2>1. Len(<<>>) = 0
    BY EmptySeq
  <2> QED BY <2>1 DEF UserBlocks
<1>7. SummaryDays' \subseteq SummaryDays
  BY <1>2, <1>6 DEF SummaryDays
<1>8. ASSUME NEW d \in SummaryDays \ SummaryDays' PROVE d + MaxAge < day
  <2>1. d \in Days /\ files'[d] # files[d]
    BY DEF SummaryDays
  <2> QED BY <1>2, <2>1
<1> QED BY <1>5, <1>7, <1>8

(* For any age of a day or more, also one below the summary's 30 days: what *)
(* the pruner takes from a load is lines of the summary, of days past its   *)
(* age.                                                                     *)
THEOREM PrunesTakeOldLines == Spec => PruneTakesOldLines
<1>1. TypeOK /\ [Next]_vars =>
        [day' = day /\ turns' = turns /\ MaxAge >= 1 =>
           /\ {m \in History': m.layer # "summary"} = {m \in History: m.layer # "summary"}
           /\ SummaryDays' \subseteq SummaryDays
           /\ \A d \in SummaryDays \ SummaryDays': d + MaxAge < day]_vars
  BY PruneTakesStep
<1> QED BY <1>1, MemoryTypeCorrect, PTL DEF Spec, PruneTakesOldLines

LEMMA PruneUnseenStep ==
  ASSUME MaxAge >= Oldest
  PROVE  TypeOK /\ [Next]_vars => (day' = day /\ turns' = turns => History' = History)
<1> SUFFICES ASSUME TypeOK, [Next]_vars, day' = day, turns' = turns PROVE History' = History
  OBVIOUS
<1>1. day \in Days /\ day \in Nat /\ MaxAge \in Int /\ Oldest \in Nat /\ Oldest >= 1 /\ MaxAge >= 1
  BY FilesTyped, MemoryAssumption DEF TypeOK
<1>2. \A d \in Days: d \in Nat /\ (day <= d + MaxAge => files'[d] = files[d])
  <2>1. \A d \in Days: d \in Nat
    BY DEF Days
  <2> QED BY <1>1, <2>1, QuietStep
<1>3. Today' = Today /\ Yesterday' = Yesterday
  <2>1. files'[day] = files[day]
    BY <1>1, <1>2
  <2>2. ASSUME day # 1 PROVE files'[day - 1] = files[day - 1]
    <3>1. day - 1 \in Days /\ day <= (day - 1) + MaxAge
      BY <1>1, <2>2, MemoryAssumption DEF Days
    <3> QED BY <1>2, <3>1
  <2> QED BY <2>1, <2>2, RecentReads
<1>4. SummaryDays' = SummaryDays
  <2>1. \A d \in Days: day <= d + Oldest => files'[d] = files[d]
    BY <1>1, <1>2
  <2> QED BY <2>1 DEF SummaryDays
<1>5. PastActivity' = PastActivity
  BY <1>4 DEF PastActivity
<1> QED BY <1>3, <1>5 DEF History

(* With an age that is not below the summary's 30 days, such as the default *)
(* 90, a load shows after a prune what it would have shown before.          *)
THEOREM PrunesAreUnseen ==
  ASSUME MaxAge >= Oldest
  PROVE  Spec => [][day' = day /\ turns' = turns => History' = History]_vars
<1>1. TypeOK /\ [Next]_vars => [day' = day /\ turns' = turns => History' = History]_vars
  BY PruneUnseenStep
<1> QED BY <1>1, MemoryTypeCorrect, PTL DEF Spec
=============================================================================
