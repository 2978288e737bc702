------------------------------- MODULE Memory -------------------------------
(* The conversation memory (memory.py) of one session and the pruner of its *)
(* files (history_pruner.py): one file of blocks per day, rewritten for each*)
(* turn by the gateway and by `fitt memory append`, a process of its own,   *)
(* and read back into the messages of the next request.                     *)
(*                                                                          *)
(* A turn is its number, a text is one unit of the budget.  A tool call is  *)
(* its tool's name; only an identifier is read back as a call, and the names*)
(* of MCP tools (mcp.<server>.<tool>) are none.                             *)
(*                                                                          *)
(* A file is the blocks _parse_turns finds in it, which are not always those*)
(* that were written: a line of a text that looks like a header opens a     *)
(* block, a block without text is dropped, and a line separator left in an  *)
(* argument breaks its JSON.  Quotes are the ways a turn may do that, in one*)
(* of its texts; a header inside an argument is left out.                   *)
EXTENDS Integers, FiniteSets, SequencesExt

CONSTANTS
  Names,        \* tool names
  Identifiers,  \* those _TOOL_CALL_BULLET_RE matches
  Batches,      \* the tool calls a turn may have made: sequences of names
  Quotes,       \* what the texts of a turn may hold: see Quote
  Budget,       \* max_history_chars, in texts
  Oldest,       \* 30: the last day of the summary
  MaxAge,       \* history_max_days, 90 by default: days the pruner keeps
  MaxDay,       \* bound: days
  MaxTurns,     \* bound: turns
  MaxCuts       \* bound: writes that stop half way

(* A header in a text: its role ("other" is none that is read), the names in*)
(* it or, for a block of calls, under it, and whether that block breaks off.*)
Header == [role: {"user", "assistant", "system", "other", "calls", "tool"},
           names: Seq(Names), bad: BOOLEAN]

(* The block whose text holds headers, 0 for none; whether nothing precedes *)
(* them (a blank text is one of no headers); whether an argument of the last*)
(* call holds a separator.                                                  *)
Quote == [at: Nat, opens: BOOLEAN, headers: Seq(Header), torn: BOOLEAN]

ASSUME MemoryAssumption ==
  /\ Identifiers \subseteq Names /\ Batches \subseteq Seq(Names) /\ <<>> \in Batches
  /\ Quotes \subseteq Quote
  /\ \A q \in Quotes: /\ q.at = 0 => q.headers = <<>>
                     /\ \A n \in 1..Len(q.headers): q.headers[n].role = "tool" => q.headers[n].names # <<>>
  /\ Budget \in Nat /\ Oldest \in Nat \ {0} /\ MaxAge \in Int
  /\ MaxDay \in Nat \ {0} /\ MaxTurns \in Nat /\ MaxCuts \in Nat

Days  == 1..MaxDay
Calls == [turn: 1..MaxTurns, nth: Nat, name: Names]   \* nth 0: only quoted
NoResult == [turn |-> 0]

VARIABLES
  files,   \* history/<day>.md, a sequence of blocks
  day,     \* today
  turns,   \* turns so far
  cli,     \* what `fitt memory append` has read and not yet written
  cuts,    \* writes that stopped half way
  \* history:
  made,    \* every turn: [turn, day, calls, quote, done], done when its append returned
  harmed   \* days with a write that stopped, or that overwrote an unread turn

vars == <<files, day, turns, cli, cuts, made, harmed>>

NotOpen == [day |-> 0, blocks |-> <<>>]

Init ==
  /\ files = [d \in Days |-> <<>>] /\ day = 1 /\ turns = 0 /\ cli = NotOpen /\ cuts = 0
  /\ made = {} /\ harmed = {}

-----------------------------------------------------------------------------
(* append_turn.                                                             *)

Text(role, t) == [role |-> role, turn |-> t]

CallsOf(t, batch) ==
  [n \in 1..Len(batch) |-> [turn |-> t, nth |-> n, name |-> batch[n]]]

(* The blocks a turn is written as: its calls in one, each result in one of  *)
(* its own.                                                                 *)
PlainBlocks(t, batch, torn) ==
  LET calls == CallsOf(t, batch)
      tools == << [role |-> "calls", turn |-> t, calls |-> calls, bad |-> torn] >>
               \o [n \in 1..Len(batch) |-> [role |-> "tool", turn |-> t, call |-> calls[n]]]
  IN <<Text("user", t)>> \o (IF batch = <<>> THEN <<>> ELSE tools) \o <<Text("assistant", t)>>

ResultTexts(batch) == 3 .. Len(batch) + 2

(* A result's text begins with its status. *)
Fits(batch, q) ==
  /\ q.at <= IF batch = <<>> THEN 2 ELSE Len(batch) + 3
  /\ batch # <<>> => q.at # 2
  /\ q.opens => q.at \notin ResultTexts(batch)
  /\ q.torn => batch # <<>> /\ Last(batch) \in Identifiers

(* The block that a header in b's text opens. *)
QuotedCall(t, name) == [turn |-> t, nth |-> 0, name |-> name]

Quoted(b, h) ==
  CASE h.role = "calls" -> [role |-> "calls", turn |-> b.turn, bad |-> h.bad,
                            calls |-> [n \in 1..Len(h.names) |-> QuotedCall(b.turn, h.names[n])]]
    [] h.role = "tool"  -> [role |-> "tool", turn |-> b.turn,
                            call |-> IF b.role = "tool" THEN b.call ELSE QuotedCall(b.turn, h.names[1])]
    [] OTHER            -> Text(h.role, b.turn)

(* The blocks of a turn, as _parse_turns finds them. *)
TurnBlocks(t, batch, q) ==
  LET plain == PlainBlocks(t, batch, q.torn) IN
  SubSeq(plain, 1, IF q.opens THEN q.at - 1 ELSE q.at)
  \o [n \in 1..Len(q.headers) |-> Quoted(plain[q.at], q.headers[n])]
  \o SubSeq(plain, q.at + 1, Len(plain))

AppendFresh(batch, q) ==   \* the day's earlier turns are not read first
  /\ turns < MaxTurns /\ Fits(batch, q)
  /\ turns' = turns + 1
  /\ files' = [files EXCEPT ![day] = TurnBlocks(turns + 1, batch, q)]
  /\ made' = made \union {[turn |-> turns + 1, day |-> day, calls |-> batch, quote |-> q, done |-> TRUE]}
  /\ UNCHANGED <<day, cli, cuts, harmed>>

AppendTurn(batch, q) ==
  /\ turns < MaxTurns /\ Fits(batch, q)
  /\ turns' = turns + 1
  /\ files' = [files EXCEPT ![day] = @ \o TurnBlocks(turns + 1, batch, q)]
  /\ made' = made \union {[turn |-> turns + 1, day |-> day, calls |-> batch, quote |-> q, done |-> TRUE]}
  /\ UNCHANGED <<day, cli, cuts, harmed>>

(* write_text truncates the file and writes it anew.  A process that stops  *)
(* in it, or a full disk, leaves a first part: whole blocks, and perhaps a  *)
(* block of calls that breaks off, in the middle of a call (bad) or not.    *)
Stumps(b) ==
  IF b.role # "calls" THEN {b}
  ELSE {b} \union UNION {{[b EXCEPT !.calls = SubSeq(b.calls, 1, n - 1), !.bad = bad]: bad \in BOOLEAN}:
                          n \in 1..Len(b.calls)}

CutWrites(blocks) ==
  {<<>>} \union UNION {{SubSeq(blocks, 1, n - 1) \o <<stump>>: stump \in Stumps(blocks[n])}:
                         n \in 1..Len(blocks)}

AppendCutShort(batch, q) ==
  /\ turns < MaxTurns /\ cuts < MaxCuts /\ Fits(batch, q)
  /\ \E left \in CutWrites(files[day] \o TurnBlocks(turns + 1, batch, q)):
       files' = [files EXCEPT ![day] = left]
  /\ turns' = turns + 1
  /\ cuts' = cuts + 1
  /\ harmed' = harmed \union {day}
  /\ made' = made \union {[turn |-> turns + 1, day |-> day, calls |-> batch, quote |-> q, done |-> FALSE]}
  /\ UNCHANGED <<day, cli>>

(* `fitt memory append`: it reads the file, and then writes what it read and *)
(* a turn of its own.  (So does the gateway, and in one step here: a turn of*)
(* the command's that falls in between is lost, on a day that is harmed.)   *)
CliOpen ==
  /\ cli = NotOpen /\ turns < MaxTurns
  /\ cli' = [day |-> day, blocks |-> files[day]]
  /\ UNCHANGED <<files, day, turns, cuts, made, harmed>>

CliWrite(q) ==
  /\ cli # NotOpen /\ turns < MaxTurns /\ Fits(<<>>, q)
  /\ turns' = turns + 1
  /\ files' = [files EXCEPT ![cli.day] = cli.blocks \o TurnBlocks(turns + 1, <<>>, q)]
  /\ made' = made \union {[turn |-> turns + 1, day |-> cli.day, calls |-> <<>>, quote |-> q, done |-> TRUE]}
  /\ harmed' = IF files[cli.day] = cli.blocks THEN harmed ELSE harmed \union {cli.day}
  /\ cli' = NotOpen
  /\ UNCHANGED <<day, cuts>>

Midnight ==
  /\ day < MaxDay
  /\ day' = day + 1
  /\ UNCHANGED <<files, turns, cli, cuts, made, harmed>>

PruneOneMore ==   \* the cutoff is a day late
  /\ files' = [d \in Days |-> IF d + MaxAge <= day THEN <<>> ELSE files[d]]
  /\ files' # files
  /\ UNCHANGED <<day, turns, cli, cuts, made, harmed>>

(* HistoryPruner.tick: files from before today - max_age_days go.           *)
Prune ==
  /\ files' = [d \in Days |-> IF d + MaxAge < day THEN <<>> ELSE files[d]]
  /\ files' # files
  /\ UNCHANGED <<day, turns, cli, cuts, made, harmed>>

Next ==
  \/ \E batch \in Batches, q \in Quotes: AppendTurn(batch, q) \/ AppendCutShort(batch, q)
  \/ CliOpen \/ \E q \in Quotes: CliWrite(q)
  \/ Midnight \/ Prune

Spec == Init /\ [][Next]_vars

-----------------------------------------------------------------------------
(* load_context: _turns_to_messages, the layers, and the budget.            *)
(*                                                                          *)
(* A message is placed by its layer, its block and, in a block of calls, the*)
(* call it answers; it is oldest first in that order.                       *)

(* The calls parsed from a block, by their place in it, and a call's number *)
(* among them.                                                              *)
ParsedCalls(b) == IF b.role = "calls" THEN {n \in DOMAIN b.calls: b.calls[n].name \in Identifiers} ELSE {}
Number(b, n) == Cardinality({k \in ParsedCalls(b): k <= n})

ResultWherever(blocks, kept, i, j) ==   \* the j-th tool block from here on, whoever's turn it is
  LET tools == {m \in kept: m > i /\ blocks[m].role = "tool"}
      nth == {m \in tools: Cardinality({k \in tools: k <= m}) = j} IN
  IF nth = {} THEN NoResult ELSE blocks[CHOOSE m \in nth: TRUE].call

(* What is read back as the result of the j-th call parsed from block i: the *)
(* j-th of the tool blocks that directly follow, or a placeholder.          *)
Result(blocks, kept, i, j) ==
  IF \A m \in i+1 .. i+j: m \in kept /\ blocks[m].role = "tool"
  THEN blocks[i + j].call ELSE NoResult

(* A kept block becomes a message, a block of calls also one for each call's *)
(* result; tool blocks by themselves, and blocks of other roles, become none*)
OwnMessage(layer, blocks, i) ==
  [layer |-> layer, at |-> i, nth |-> 0, role |-> blocks[i].role, turn |-> blocks[i].turn,
   calls |-> ParsedCalls(blocks[i])]

ResultMessage(layer, blocks, kept, i, n) ==
  LET j == Number(blocks[i], n) IN
  [layer |-> layer, at |-> i, nth |-> j, role |-> "tool", turn |-> blocks[i].turn,
   call |-> blocks[i].calls[n], result |-> Result(blocks, kept, i, j)]

Messages(layer, blocks, kept) ==
  {OwnMessage(layer, blocks, i): i \in {k \in kept: blocks[k].role \notin {"tool", "other"}}}
  \union UNION {{ResultMessage(layer, blocks, kept, i, n): n \in ParsedCalls(blocks[i])}: i \in kept}

KeptTodayOverBudget(blocks) == {i \in 1..Len(blocks): i + Budget >= Len(blocks)}   \* one text too many

(* _load_and_truncate_history drops the oldest blocks. *)
KeptToday(blocks) == {i \in 1..Len(blocks): i + Budget > Len(blocks)}

UserBlocks(blocks) == {i \in 1..Len(blocks): blocks[i].role = "user"}

(* _render_yesterday: up to the second user block, and a count of the rest. *)
FirstTurn(blocks) ==
  {i \in 1..Len(blocks): Cardinality({k \in UserBlocks(blocks): k <= i}) < 2}

Yesterday ==
  LET blocks == files[day - 1]
      more   == UserBlocks(blocks) \ FirstTurn(blocks) IN
  IF day = 1 THEN {}
  ELSE Messages("yesterday", blocks, FirstTurn(blocks))
       \union (IF more = {} THEN {}
               ELSE {[layer |-> "marker", at |-> 0, nth |-> 0, role |-> "system",
                      turn |-> 0, about |-> Cardinality(more)]})

(* _render_past_activity: one message, with a line for each day that has a  *)
(* user block.                                                              *)
SummaryDays == {d \in Days: d + 3 <= day /\ day <= d + Oldest /\ UserBlocks(files[d]) # {}}

PastActivity ==
  IF SummaryDays = {} THEN {}
  ELSE {[layer |-> "summary", at |-> 0, nth |-> 0, role |-> "system", turn |-> 0, about |-> SummaryDays]}

Today == Messages("today", files[day], KeptToday(files[day]))

LayerOrder == [summary |-> 1, yesterday |-> 2, marker |-> 3, today |-> 4]

Older(m, k) ==
  \/ LayerOrder[m.layer] < LayerOrder[k.layer]
  \/ m.layer = k.layer /\ (m.at < k.at \/ (m.at = k.at /\ m.nth < k.nth))

(* Every message weighs one, but a call that was not parsed and a result     *)
(* that is a placeholder.                                                   *)
Weighs(m) == (m.role = "calls" => m.calls # {}) /\ (m.role = "tool" => m.result # NoResult)
Weight(ms) == Cardinality({m \in ms: Weighs(m)})

(* The layers, without the oldest messages that do not fit.                 *)
History ==
  LET all == PastActivity \union Yesterday \union Today IN
  {m \in all: Weight({k \in all: ~Older(k, m)}) <= Budget}

(* A block of calls that breaks off in a call, or whose JSON a separator has *)
(* split, makes the load raise.                                             *)
Broken(blocks, kept) == \E i \in kept: blocks[i].role = "calls" /\ blocks[i].bad
Raises ==
  \/ Broken(files[day], KeptToday(files[day]))
  \/ day > 1 /\ Broken(files[day - 1], FirstTurn(files[day - 1]))

-----------------------------------------------------------------------------
Block ==
  [role: {"user", "assistant", "system", "other"}, turn: 1..MaxTurns]
  \union [role: {"calls"}, turn: 1..MaxTurns, calls: Seq(Calls), bad: BOOLEAN]
  \union [role: {"tool"}, turn: 1..MaxTurns, call: Calls]

TurnRecord ==
  {a \in [turn: 1..MaxTurns, day: Days, calls: Batches, quote: Quotes, done: BOOLEAN]:
     Fits(a.calls, a.quote)}

(* What the variables may hold. *)
TypeOK ==
  /\ files \in [Days -> Seq(Block)] /\ day \in Days /\ turns \in 0..MaxTurns
  /\ cli \in {NotOpen} \union [day: Days, blocks: Seq(Block)] /\ cuts \in 0..MaxCuts
  /\ made \subseteq TurnRecord
  /\ harmed \subseteq Days

(* Turns whose results, and whose user's message, mislead the reader: a      *)
(* header in a result stands before the next call's result, and one that    *)
(* opens a user's message behind the results of a turn whose write stopped. *)
QuotesInResults(a) == a.quote.at \in ResultTexts(a.calls)
OpensWithTool(a) ==
  a.quote.at = 1 /\ a.quote.opens /\ a.quote.headers # <<>> /\ a.quote.headers[1].role = "tool"

(* A result is read back with the call it came from, or not at all, in every *)
(* turn whose tools have identifiers for names and whose results hold no    *)
(* header: whatever headers the other texts and turns hold, unless a user's *)
(* message opens as a tool's result, and whatever was cut off the file's end*)
(* by a crash or off its start by the budget.                               *)
OwnOutcome ==
  ~Raises /\ (\A a \in made: ~OpensWithTool(a)) =>
    \A m \in History:
      /\ m.role = "tool" /\ m.call.nth > 0
      /\ \A a \in made: a.turn = m.turn => Range(a.calls) \subseteq Identifiers /\ ~QuotesInResults(a)
      => m.result \in {m.call, NoResult}

(* Today's layer is never cut a second time by the budget for all layers:    *)
(* what goes is the summary and yesterday, so no call of today's is         *)
(* separated from its results.                                              *)
TodayIsWhole == ~Raises => Today \subseteq History

(* A turn whose append returned is in its day's file, whole, until the       *)
(* pruner takes the file, unless a write stopped half way on that day or    *)
(* wrote over what it had not read.                                         *)
TurnsKept ==
  \A a \in made:
    a.done /\ a.day \notin harmed /\ day <= a.day + MaxAge =>
      \E n \in 0..Len(files[a.day]):
        IsPrefix(TurnBlocks(a.turn, a.calls, a.quote), SubSeq(files[a.day], n + 1, Len(files[a.day])))

(* The pruner, told to keep a day or more, takes nothing that a load shows   *)
(* but lines of the summary, and those of days past its age only.           *)
PruneTakesOldLines ==
  [][day' = day /\ turns' = turns /\ MaxAge >= 1 =>
       /\ {m \in History': m.layer # "summary"} = {m \in History: m.layer # "summary"}
       /\ SummaryDays' \subseteq SummaryDays
       /\ \A d \in SummaryDays \ SummaryDays': d + MaxAge < day]_vars

(* memory.py:446 "a model reloading history sees the OUTCOME of a prior tool *)
(* call": the calls of a turn that is loaded whole are all in its message.  *)
OutcomeIsRead ==
  ~Raises =>
    \A m \in History, a \in made:
      m.role = "calls" /\ a.done /\ a.turn = m.turn => m.calls = DOMAIN a.calls
=============================================================================
