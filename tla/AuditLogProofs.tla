--------------------------- MODULE AuditLogProofs ---------------------------
(* What the audit log promises for any number of entries, keys, failures    *)
(* and restarts.                                                            *)
EXTENDS AuditLog, SequenceTheorems, FiniteSetTheorems, TLAPS

(* A line is never removed, and only an unfinished one is changed; the entry *)
(* just written is at the end.                                              *)
LEMMA WrittenFile ==
  ASSUME TypeOK, NEW text \in {"whole", "open", "torn"}, NEW long \in BOOLEAN,
         tried < MaxEntries, LoadKey
  PROVE  LET f == Written(text, long) IN
         /\ f \in Seq(Line)
         /\ Len(f) = IF Unfinished THEN Len(file) ELSE Len(file) + 1
         /\ \A i \in 1..Len(f): f[i] = IF i = Len(f) THEN NextLine(text, long) ELSE file[i]
PROOF
  <1> DEFINE f == Written(text, long)
             line == NextLine(text, long)
  <1> USE AuditLogAssumption
  <1>1. LoadedKey \in 1..MaxKeys
    BY DEF TypeOK, LoadedKey, LoadKey
  <1>2. line \in Line
    BY <1>1 DEF TypeOK, Line, Texts, NextLine
  <1>3. file \in Seq(Line) /\ Len(file) \in Nat
    BY DEF TypeOK
  <1>4. CASE Unfinished
    <2>1. Len(file) \in 1..Len(file)
      BY <1>3, <1>4, EmptySeq DEF Unfinished
    <2>2. f = [file EXCEPT ![Len(file)] = line]
      BY <1>4 DEF Written
    <2> HIDE DEF f, line
    <2>3. f \in Seq(Line) /\ Len(f) = Len(file)
          /\ \A i \in 1..Len(file): f[i] = IF i = Len(file) THEN line ELSE file[i]
      BY <2>1, <2>2, <1>2, <1>3, ExceptSeq
    <2> QED
      BY <2>3, <1>4 DEF f, line
  <1>5. CASE ~Unfinished
    <2>1. f = Append(file, line)
      BY <1>5 DEF Written
    <2> HIDE DEF f, line
    <2>2. f \in Seq(Line) /\ Len(f) = Len(file) + 1 /\ f[Len(file) + 1] = line
          /\ \A i \in 1..Len(file): f[i] = file[i]
      BY <2>1, <1>2, <1>3, AppendProperties
    <2> QED
      BY <2>2, <1>5, <1>3 DEF f, line
  <1> QED
    BY <1>4, <1>5

(* Before anything is written there is no HMAC to remember. *)
EmptyStart == file = <<>> => lastHmac = 0

(* A gateway that has loaded the key has the one in the file. *)
KeyHeld == keyLosses = 0 => key \in {0, keyFile} /\ (file # <<>> => keyFile # 0)

(* Without a failure the memory is the end of the file. *)
NoFaultYet == faults = 0 => /\ sound = Len(file)
                            /\ file # <<>> => lastHmac = Latest.entry
SoundLines == keyLosses = 0 => \A i \in 1..sound: Chains(i, keyFile) /\ file[i].text = "whole"

(* An append that returned wrote its line to the end. *)
AckedWritten ==
  \A a \in acked: \E i \in 1..Len(file): file[i].entry = a /\ file[i].text \in {"whole", "junk"}

(* The next line is going to be a break. *)
Pending == IF file # <<>> /\ (Latest.text = "open" \/ (Latest.text # "torn" /\ lastHmac # Latest.entry))
           THEN 1 ELSE 0
BreakCount == Cardinality(Breaks) + Pending <= faults

AuditInv == /\ TypeOK /\ EmptyStart /\ KeyHeld /\ NoFaultYet /\ SoundLines
            /\ AckedWritten /\ BreakCount

LEMMA AuditInit == Init => AuditInv
PROOF
  <1> SUFFICES ASSUME Init PROVE AuditInv
    OBVIOUS
  <1> USE AuditLogAssumption DEF Init
  <1>1. Len(file) = 0 /\ file \in Seq(Line)
    BY EmptySeq
  <1>2. TypeOK /\ EmptyStart /\ KeyHeld /\ NoFaultYet /\ SoundLines /\ AckedWritten
    BY <1>1 DEF TypeOK, EmptyStart, KeyHeld, NoFaultYet, SoundLines, AckedWritten
  <1>3. Breaks = {}
    BY <1>1 DEF Breaks
  <1>4. BreakCount
    BY <1>3, FS_EmptySet DEF BreakCount, Pending
  <1> QED
    BY <1>2, <1>4 DEF AuditInv

(* The last line of a file that has one. *)
LEMMA LatestLine ==
  ASSUME TypeOK, file # <<>>
  PROVE  Len(file) \in 1..Len(file) /\ Latest \in Line /\ Latest = file[Len(file)]
  BY EmptySeq, LenProperties DEF TypeOK, Latest

LEMMA LineFields ==
  ASSUME NEW l \in Line
  PROVE  /\ l.entry \in 1..MaxEntries /\ l.prev \in 0..MaxEntries /\ l.key \in 1..MaxKeys
         /\ l.text \in Texts /\ l.long \in BOOLEAN
  BY DEF Line

(* Types. *)
LEMMA TypeStep == ASSUME TypeOK, [Next]_vars PROVE TypeOK'
PROOF
  <1> USE AuditLogAssumption
  <1>0. Len(file) \in Nat
    BY DEF TypeOK
  <1>1. ASSUME NEW text \in {"whole", "open", "torn"}, NEW long \in BOOLEAN,
               tried < MaxEntries, LoadKey, file' = Written(text, long)
        PROVE  /\ file' \in Seq(Line) /\ Len(file') \in Nat /\ Len(file) <= Len(file')
               /\ key' \in 0..MaxKeys /\ keyFile' \in 0..MaxKeys /\ keys' \in 0..MaxKeys
    <2>1. file' \in Seq(Line) /\ Len(file') \in Nat /\ Len(file) <= Len(file')
      BY <1>0, <1>1, WrittenFile
    <2> QED
      BY <1>1, <2>1 DEF TypeOK, LoadKey, LoadedKey
  <1>2. CASE \E long \in BOOLEAN: AppendEntry(long)
    <2> PICK long \in BOOLEAN: AppendEntry(long)
      BY <1>2
    <2>1. file' \in Seq(Line) /\ Len(file') \in Nat /\ Len(file) <= Len(file')
          /\ key' \in 0..MaxKeys /\ keyFile' \in 0..MaxKeys /\ keys' \in 0..MaxKeys
      BY <1>1 DEF AppendEntry
    <2> QED
      BY <2>1, <1>0 DEF TypeOK, AppendEntry
  <1>3. CASE \E long \in BOOLEAN, text \in {"whole", "open", "torn"}: AppendBreaks(text, long)
    <2> PICK long \in BOOLEAN, text \in {"whole", "open", "torn"}: AppendBreaks(text, long)
      BY <1>3
    <2>1. file' \in Seq(Line) /\ Len(file') \in Nat /\ Len(file) <= Len(file')
          /\ key' \in 0..MaxKeys /\ keyFile' \in 0..MaxKeys /\ keys' \in 0..MaxKeys
      BY <1>1 DEF AppendBreaks
    <2> QED
      BY <2>1, <1>0 DEF TypeOK, AppendBreaks
  <1>4. CASE AppendFails
    BY <1>4 DEF TypeOK, AppendFails, LoadKey, LoadedKey
  <1>5. CASE Restart
    <2>1. lastHmac' \in 0..MaxEntries
      BY <1>5, LatestLine, LineFields DEF Restart
    <2> QED
      BY <1>5, <2>1 DEF TypeOK, Restart
  <1>6. CASE LoseKey
    BY <1>6, <1>0 DEF TypeOK, LoseKey
  <1>8. CASE CliVerify
    BY <1>8, <1>0 DEF TypeOK, CliVerify
  <1>7. CASE UNCHANGED vars
    BY <1>7 DEF TypeOK, vars
  <1> QED
    BY <1>2, <1>3, <1>4, <1>5, <1>6, <1>7, <1>8 DEF Next

(* The audit log's types, for any bounds. *)
THEOREM TypeCorrect == Spec => []TypeOK
PROOF
  <1>1. Init => TypeOK
    BY AuditInit DEF AuditInv
  <1>2. TypeOK /\ [Next]_vars => TypeOK'
    BY TypeStep
  <1> QED
    BY <1>1, <1>2, PTL DEF Spec

(* What every step but a write leaves alone. *)
LEMMA Otherwise ==
  ASSUME AppendFails \/ Restart \/ LoseKey \/ CliVerify \/ UNCHANGED vars
  PROVE  file' = file /\ acked' = acked /\ sound' = sound /\ Latest' = Latest
  BY DEF AppendFails, Restart, LoseKey, CliVerify, vars, Latest

(* The key: only a loss makes the file's differ from the one in memory. *)
LEMMA KeyStep == ASSUME TypeOK, EmptyStart, KeyHeld, [Next]_vars PROVE EmptyStart' /\ KeyHeld'
PROOF
  <1> USE AuditLogAssumption
  <1>0. Len(file) \in Nat /\ key \in Nat /\ keyFile \in Nat /\ keys \in Nat
        /\ keyLosses \in Nat
    BY DEF TypeOK
  <1>1. ASSUME NEW text \in {"whole", "open", "torn"}, NEW long \in BOOLEAN,
               tried < MaxEntries, LoadKey, file' = Written(text, long),
               keyLosses' = keyLosses
        PROVE  EmptyStart' /\ KeyHeld'
    <2>1. Len(file') # 0
      BY <1>0, <1>1, WrittenFile, LatestLine DEF Unfinished
    <2>2. file' # <<>>
      BY <2>1
    <2>3. key' = keyFile' \/ keyLosses # 0
      BY <1>0, <1>1 DEF LoadKey, LoadedKey, KeyHeld
    <2>4. keyFile' # 0 \/ keyLosses # 0
      BY <1>0, <1>1, <2>3 DEF LoadKey, LoadedKey, KeyHeld
    <2> QED
      BY <1>1, <2>2, <2>3, <2>4 DEF EmptyStart, KeyHeld
  <1>2. CASE \E long \in BOOLEAN: AppendEntry(long)
    BY <1>1, <1>2 DEF AppendEntry
  <1>3. CASE \E long \in BOOLEAN, text \in {"whole", "open", "torn"}: AppendBreaks(text, long)
    BY <1>1, <1>3 DEF AppendBreaks
  <1>4. CASE AppendFails
    BY <1>0, <1>4 DEF AppendFails, LoadKey, LoadedKey, KeyHeld, EmptyStart
  <1>5. CASE Restart
    BY <1>5 DEF Restart, KeyHeld, EmptyStart
  <1>6. CASE LoseKey
    BY <1>0, <1>6 DEF LoseKey, KeyHeld, EmptyStart
  <1>7. CASE CliVerify
    BY <1>0, <1>7 DEF CliVerify, KeyHeld, EmptyStart
  <1>8. CASE UNCHANGED vars
    BY <1>8 DEF vars, KeyHeld, EmptyStart
  <1> QED
    BY <1>2, <1>3, <1>4, <1>5, <1>6, <1>7, <1>8 DEF Next

(* The lines before the first failure keep verifying. *)
SoundPart == EmptyStart /\ KeyHeld /\ NoFaultYet /\ SoundLines

LEMMA SoundStep == ASSUME TypeOK, SoundPart, [Next]_vars PROVE NoFaultYet' /\ SoundLines'
PROOF
  <1> USE AuditLogAssumption DEF SoundPart
  <1>0. /\ file \in Seq(Line) /\ Len(file) \in Nat /\ key \in Nat /\ keyFile \in Nat
        /\ keys \in Nat /\ keyLosses \in Nat /\ faults \in Nat /\ keyLosses <= faults
        /\ sound \in Nat /\ sound <= Len(file)
    BY DEF TypeOK
  <1>1. faults = 0 => ~Unfinished
    <2> SUFFICES ASSUME faults = 0, file # <<>> PROVE Latest.text = "whole"
      BY DEF Unfinished
    <2> QED
      BY <1>0, LatestLine DEF NoFaultYet, SoundLines
  <1>2. Unfinished /\ keyLosses = 0 => sound < Len(file)
    <2> SUFFICES ASSUME Unfinished, keyLosses = 0, sound = Len(file) PROVE FALSE
      BY <1>0
    <2>1. Len(file) \in 1..sound /\ Latest = file[Len(file)]
      BY <1>0, LatestLine DEF Unfinished
    <2> QED
      BY <2>1 DEF SoundLines, Unfinished
  <1>3. ASSUME NEW text \in {"whole", "open", "torn"}, NEW long \in BOOLEAN,
               tried < MaxEntries, LoadKey, file' = Written(text, long), keyLosses' = 0,
               keyLosses = 0
        PROVE  \A i \in 1..sound: Chains(i, keyFile)' /\ file'[i].text = "whole"
    <2> SUFFICES ASSUME NEW i \in 1..sound PROVE Chains(i, keyFile)' /\ file'[i].text = "whole"
      OBVIOUS
    <2>1. Chains(i, keyFile) /\ file[i].text = "whole"
      BY <1>3 DEF SoundLines
    <2>2. i \in 1..Len(file) /\ (Unfinished => i < Len(file))
      BY <1>0, <1>2, <1>3
    <2>3. \A j \in 1..i: file'[j] = file[j]
      BY <1>0, <1>3, <2>2, WrittenFile
    <2>4. file'[i] = file[i] /\ (i # 1 => file'[i - 1] = file[i - 1])
      BY <2>3, <1>0
    <2>5. keyFile' = keyFile
      <3>1. file # <<>>
        BY <2>2, <1>0
      <3> QED
        BY <3>1, <1>3 DEF LoadKey, KeyHeld
    <2> QED
      BY <2>1, <2>4, <2>5 DEF Chains, Linked, Parses
  <1>4. CASE \E long \in BOOLEAN: AppendEntry(long)
    <2> PICK long \in BOOLEAN: AppendEntry(long)
      BY <1>4
    <2> USE DEF AppendEntry
    <2>1. /\ file' # <<>> /\ Len(file') \in Nat /\ Latest' = NextLine("whole", long)
          /\ Len(file') = IF Unfinished THEN Len(file) ELSE Len(file) + 1
          /\ file'[Len(file')] = NextLine("whole", long)
      <3>1. Len(file') # 0 /\ Len(file') \in Nat
        BY <1>0, WrittenFile, LatestLine DEF Unfinished
      <3> QED
        BY <3>1, <1>0, WrittenFile DEF Latest
    <2>2. NoFaultYet'
      BY <2>1, <1>0 DEF NoFaultYet, NextLine
    <2>3. CASE faults = 0 /\ keyLosses = 0
      <3> PICK n \in Nat: n = Len(file) + 1
        BY <1>0
      <3>1. sound = Len(file) /\ sound' = n /\ Len(file') = n /\ ~Unfinished
        BY <2>3, <2>1, <1>1 DEF NoFaultYet
      <3>2. \A i \in 1..sound: Chains(i, keyFile)' /\ file'[i].text = "whole"
        BY <1>3, <2>3
      <3>3. file'[n].text = "whole" /\ file'[n].prev = lastHmac /\ file'[n].key = LoadedKey
        BY <3>1, <2>1 DEF NextLine
      <3>4. LoadedKey = keyFile'
        BY <1>0, <2>3 DEF LoadKey, LoadedKey, KeyHeld
      <3>5. Linked(n)'
        <4>1. CASE file = <<>>
          BY <4>1, <3>3, <1>0 DEF Linked, EmptyStart
        <4>2. CASE file # <<>>
          <5>1. Len(file) \in 1..Len(file) /\ Latest = file[Len(file)] /\ lastHmac = Latest.entry
            BY <4>2, <2>3, LatestLine DEF NoFaultYet
          <5>2. file'[n - 1] = file[Len(file)]
            BY <5>1, <3>1, <1>0, WrittenFile
          <5> QED
            BY <5>1, <5>2, <3>3, <1>0 DEF Linked
        <4> QED
          BY <4>1, <4>2
      <3>6. Chains(n, keyFile)'
        BY <3>3, <3>4, <3>5 DEF Chains, Parses
      <3> QED
        BY <3>1, <3>2, <3>3, <3>6, <1>0, <2>2 DEF SoundLines
    <2>4. CASE faults # 0 /\ keyLosses = 0
      BY <2>4, <1>3, <2>2 DEF SoundLines
    <2>5. CASE keyLosses # 0
      BY <2>5, <2>2 DEF SoundLines
    <2> QED
      BY <2>3, <2>4, <2>5
  <1>5. CASE \E long \in BOOLEAN, text \in {"whole", "open", "torn"}: AppendBreaks(text, long)
    <2>1. NoFaultYet'
      BY <1>0, <1>5 DEF AppendBreaks, NoFaultYet
    <2>2. SoundLines'
      BY <1>3, <1>5 DEF AppendBreaks, SoundLines
    <2> QED
      BY <2>1, <2>2
  <1>6. CASE AppendFails
    <2>1. file # <<>> /\ keyLosses = 0 => keyFile' = keyFile
      BY <1>6 DEF AppendFails, LoadKey, KeyHeld
    <2>2. sound # 0 => file # <<>>
      BY <1>0
    <2> QED
      BY <1>0, <1>6, <2>1, <2>2, Otherwise
         DEF AppendFails, NoFaultYet, SoundLines, Chains, Linked, Parses
  <1>7. CASE Restart
    <2>1. NoFaultYet'
      BY <1>7, <1>0, Otherwise DEF Restart, NoFaultYet
    <2>2. SoundLines'
      BY <1>7, Otherwise DEF Restart, SoundLines, Chains, Linked, Parses
    <2> QED
      BY <2>1, <2>2
  <1>8. CASE LoseKey
    BY <1>8, <1>0 DEF LoseKey, NoFaultYet, SoundLines
  <1>9. CASE CliVerify
    <2>1. keyLosses # 0 /\ keyLosses' # 0 /\ faults' # 0
      BY <1>9, <1>0 DEF CliVerify, KeyHeld
    <2> QED
      BY <2>1 DEF NoFaultYet, SoundLines
  <1>10. CASE UNCHANGED vars
    BY <1>10, Otherwise DEF vars, NoFaultYet, SoundLines, Chains, Linked, Parses
  <1> QED
    BY <1>4, <1>5, <1>6, <1>7, <1>8, <1>9, <1>10 DEF Next

(* Lines before the first failure verify for as long as the key is kept, for *)
(* any number of entries, restarts and later failures.                      *)
THEOREM PrefixVerifies == Spec => []SoundPrefix
PROOF
  <1>1. Init => TypeOK /\ SoundPart
    BY AuditInit DEF AuditInv, SoundPart
  <1>2. TypeOK /\ SoundPart /\ [Next]_vars => (TypeOK /\ SoundPart)'
    BY TypeStep, KeyStep, SoundStep DEF SoundPart
  <1>3. SoundPart => SoundPrefix
    BY DEF SoundPart, SoundLines, SoundPrefix
  <1> QED
    BY <1>1, <1>2, <1>3, PTL DEF Spec

(* A line with its newline stays, so the entry of an append that returned   *)
(* stays where it was written, alone or glued to a torn line.               *)
LEMMA AckedStep == ASSUME TypeOK, AckedWritten, [Next]_vars PROVE AckedWritten'
PROOF
  <1>0. Len(file) \in Nat /\ tried \in Nat
    BY DEF TypeOK
  <1>1. ASSUME NEW text \in {"whole", "open", "torn"}, NEW long \in BOOLEAN,
               tried < MaxEntries, LoadKey, file' = Written(text, long), NEW a \in acked
        PROVE  \E i \in 1..Len(file'): file'[i].entry = a /\ file'[i].text \in {"whole", "junk"}
    <2> PICK i \in 1..Len(file): file[i].entry = a /\ file[i].text \in {"whole", "junk"}
      BY DEF AckedWritten
    <2>1. Unfinished => i # Len(file)
      BY DEF Unfinished, Latest
    <2>2. i \in 1..Len(file') /\ file'[i] = file[i]
      BY <1>0, <1>1, <2>1, WrittenFile
    <2> QED
      BY <2>2
  <1>2. CASE \E long \in BOOLEAN: AppendEntry(long)
    <2> PICK long \in BOOLEAN: AppendEntry(long)
      BY <1>2
    <2> USE DEF AppendEntry
    <2>1. \A a \in acked: \E i \in 1..Len(file'): file'[i].entry = a
                                               /\ file'[i].text \in {"whole", "junk"}
      BY <1>1
    <2>2. Len(file') \in 1..Len(file') /\ file'[Len(file')] = NextLine("whole", long)
      BY <1>0, WrittenFile, LatestLine DEF Unfinished
    <2> QED
      BY <2>1, <2>2 DEF AckedWritten, NextLine
  <1>3. CASE \E long \in BOOLEAN, text \in {"whole", "open", "torn"}: AppendBreaks(text, long)
    BY <1>1, <1>3 DEF AppendBreaks, AckedWritten
  <1>4. CASE AppendFails \/ Restart \/ LoseKey \/ CliVerify \/ UNCHANGED vars
    BY <1>4, Otherwise DEF AckedWritten
  <1> QED
    BY <1>2, <1>3, <1>4 DEF Next

(* If verify says ok, every entry whose append returned is there to be read. *)
THEOREM NothingLostSilently == Spec => []NoSilentLoss
PROOF
  <1>1. Init => TypeOK /\ AckedWritten
    BY AuditInit DEF AuditInv
  <1>2. TypeOK /\ AckedWritten /\ [Next]_vars => (TypeOK /\ AckedWritten)'
    BY TypeStep, AckedStep
  <1>3. AckedWritten => NoSilentLoss
    BY DEF AckedWritten, NoSilentLoss, Verifies, Chains, Readable
  <1> QED
    BY <1>1, <1>2, <1>3, PTL DEF Spec

(* Counting breaks: a write adds at most its own line to them. *)
LEMMA BreaksFinite ==
  ASSUME TypeOK PROVE IsFiniteSet(Breaks) /\ Cardinality(Breaks) \in Nat
PROOF
  <1>1. Breaks \subseteq 1..Len(file) /\ Len(file) \in Nat
    BY DEF Breaks, TypeOK
  <1>2. IsFiniteSet(1..Len(file))
    BY <1>1, FS_Interval
  <1> QED
    BY <1>1, <1>2, FS_Subset, FS_CardinalityType

(* The line a write makes the last is the only one whose being a break it    *)
(* decides: it is one unless it parses and follows the line before it.      *)
LEMMA BreaksAfterWrite ==
  ASSUME TypeOK, EmptyStart, NEW text \in {"whole", "open", "torn"}, NEW long \in BOOLEAN,
         tried < MaxEntries, LoadKey, file' = Written(text, long)
  PROVE  /\ Len(file') \in Nat /\ file' # <<>> /\ Latest' = NextLine(text, long)
         /\ Breaks' \subseteq Breaks \union {Len(file')}
         /\ Unfinished /\ Latest.text = "torn" => Breaks' \subseteq Breaks
         /\ ~Unfinished /\ text # "torn" /\ (file # <<>> => lastHmac = Latest.entry)
              => Breaks' \subseteq Breaks
PROOF
  <1>0. file \in Seq(Line) /\ Len(file) \in Nat
    BY DEF TypeOK
  <1>1. PICK n \in Nat: /\ n = Len(file') /\ n # 0 /\ n \in 1..n
                       /\ n = IF Unfinished THEN Len(file) ELSE Len(file) + 1
    BY <1>0, WrittenFile, LatestLine DEF Unfinished
  <1>2. \A i \in 1..n: file'[i] = IF i = n THEN NextLine(text, long) ELSE file[i]
    BY <1>1, WrittenFile
  <1>3. file' # <<>> /\ Latest' = NextLine(text, long)
    <2>1. file' # <<>>
      BY <1>1
    <2> QED
      BY <2>1, <1>1, <1>2 DEF Latest
  <1>4. ASSUME NEW i \in Breaks', i # n PROVE i \in Breaks
    <2>1. i \in 1..n /\ i \in 1..Len(file) /\ i \in Nat
      BY <1>1, <1>4, <1>0 DEF Breaks
    <2>2. file'[i] = file[i] /\ (i # 1 => file'[i - 1] = file[i - 1])
      BY <2>1, <1>2, <1>1, <1>4
    <2> QED
      BY <2>1, <2>2, <1>4 DEF Breaks, Parses, Linked
  <1>5. Breaks' \subseteq Breaks \union {n}
    BY <1>4
  <1>6. ASSUME Unfinished, Latest.text = "torn" PROVE Breaks' \subseteq Breaks
    <2>1. n \in Breaks
      BY <1>1, <1>6 DEF Breaks, Latest, Parses
    <2> QED
      BY <2>1, <1>5
  <1>7. ASSUME ~Unfinished, text # "torn", file # <<>> => lastHmac = Latest.entry
        PROVE  Breaks' \subseteq Breaks
    <2>1. file'[n].text \in {"whole", "open"} /\ file'[n].prev = lastHmac
      BY <1>1, <1>2, <1>7 DEF NextLine
    <2>2. file'[n].prev = IF n = 1 THEN 0 ELSE file'[n - 1].entry
      <3>1. CASE file = <<>>
        BY <3>1, <2>1, <1>1, <1>7 DEF EmptyStart
      <3>2. CASE file # <<>>
        <4>1. Len(file) \in 1..Len(file) /\ Latest = file[Len(file)]
          BY <3>2, LatestLine
        <4>2. n # 1 /\ n - 1 \in 1..n /\ n - 1 # n /\ n - 1 = Len(file)
          BY <4>1, <1>1, <1>7, <1>0
        <4>3. file'[n - 1] = file[Len(file)]
          BY <4>2, <1>2
        <4> QED
          BY <4>1, <4>2, <4>3, <3>2, <2>1, <1>7
      <3> QED
        BY <3>1, <3>2
    <2>3. n \notin Breaks'
      BY <2>1, <2>2 DEF Breaks, Parses, Linked
    <2> QED
      BY <2>3, <1>5
  <1> QED
    BY <1>1, <1>3, <1>5, <1>6, <1>7

LEMMA CountAfterWrite ==
  ASSUME NEW B, NEW C, NEW x, IsFiniteSet(B), C \subseteq B \union {x}
  PROVE  /\ Cardinality(C) \in Nat /\ Cardinality(C) <= Cardinality(B) + 1
         /\ C \subseteq B => Cardinality(C) <= Cardinality(B)
PROOF
  <1>1. Cardinality(B) \in Nat
    BY FS_CardinalityType
  <1>2. IsFiniteSet(B \union {x}) /\ Cardinality(B \union {x}) \in Nat
        /\ Cardinality(B \union {x}) <= Cardinality(B) + 1
    BY <1>1, FS_AddElement, FS_CardinalityType
  <1>3. IsFiniteSet(C) /\ Cardinality(C) \in Nat
        /\ Cardinality(C) <= Cardinality(B \union {x})
    BY <1>2, FS_Subset, FS_CardinalityType
  <1>4. C \subseteq B => Cardinality(C) <= Cardinality(B)
    BY FS_Subset
  <1> QED
    BY <1>1, <1>2, <1>3, <1>4

LEMMA BreakStep ==
  ASSUME TypeOK, EmptyStart, BreakCount, [Next]_vars PROVE BreakCount'
PROOF
  <1>0. faults \in Nat /\ Pending \in {0, 1} /\ IsFiniteSet(Breaks) /\ Cardinality(Breaks) \in Nat
    BY BreaksFinite DEF TypeOK, Pending
  <1>1. ASSUME NEW text \in {"whole", "open", "torn"}, NEW long \in BOOLEAN,
               tried < MaxEntries, LoadKey, file' = Written(text, long)
        PROVE  /\ Cardinality(Breaks') \in Nat /\ Cardinality(Breaks') <= Cardinality(Breaks) + 1
               /\ Breaks' \subseteq Breaks => Cardinality(Breaks') <= Cardinality(Breaks)
    BY <1>0, <1>1, BreaksAfterWrite, CountAfterWrite
  <1>2. CASE \E long \in BOOLEAN: AppendEntry(long)
    <2> PICK long \in BOOLEAN: AppendEntry(long)
      BY <1>2
    <2> USE DEF AppendEntry
    <2>2. Pending' = 0
      <3>1. Latest.text' # "open" /\ Latest.entry' = lastHmac'
        BY BreaksAfterWrite DEF NextLine, Unfinished
      <3> QED
        BY <3>1 DEF Pending
    <2>3. Pending = 0 => Breaks' \subseteq Breaks
      BY BreaksAfterWrite DEF Pending, Unfinished
    <2> QED
      BY <1>0, <1>1, <2>2, <2>3 DEF BreakCount
  <1>3. CASE \E long \in BOOLEAN, text \in {"whole", "open", "torn"}: AppendBreaks(text, long)
    <2> PICK long \in BOOLEAN, text \in {"whole", "open", "torn"}: AppendBreaks(text, long)
      BY <1>3
    <2> USE DEF AppendBreaks
    <2>1. Pending' \in {0, 1}
      BY DEF Pending
    <2>2. Pending = 0 => Breaks' \subseteq Breaks \/ Pending' = 0
      <3> SUFFICES ASSUME Pending = 0, ~(Breaks' \subseteq Breaks) PROVE Pending' = 0
        BY <2>1
      <3>1. text = "torn" /\ ~Unfinished
        BY BreaksAfterWrite DEF Pending, Unfinished
      <3>2. Latest.text' = "torn"
        BY <3>1, BreaksAfterWrite DEF NextLine
      <3> QED
        BY <3>2 DEF Pending
    <2> QED
      BY <1>0, <1>1, <2>1, <2>2 DEF BreakCount
  <1>4. ASSUME file' = file PROVE Breaks' = Breaks /\ Latest' = Latest
    BY <1>4 DEF Breaks, Latest, Parses, Linked
  <1>5. CASE AppendFails \/ LoseKey \/ CliVerify \/ UNCHANGED vars
    <2>1. file' = file /\ lastHmac' = lastHmac /\ faults' \in {faults, faults + 1}
      BY <1>5 DEF AppendFails, LoseKey, CliVerify, vars
    <2>2. Pending' = Pending /\ Breaks' = Breaks
      BY <2>1, <1>4 DEF Pending
    <2> QED
      BY <1>0, <2>1, <2>2 DEF BreakCount
  <1>6. CASE Restart
    <2>1. Breaks' = Breaks /\ Pending' \in {0, 1} /\ Latest' = Latest /\ file' = file
      BY <1>6, <1>4 DEF Restart, Pending
    <2>2. TailReads => Pending' <= Pending
      <3>1. TailReads /\ file # <<>> => lastHmac' = Latest.entry
        BY <1>6 DEF Restart
      <3>2. TailReads /\ Pending' = 1 => Pending = 1
        BY <2>1, <3>1 DEF Pending
      <3> QED
        BY <1>0, <2>1, <3>2
    <2>3. ~TailReads => faults' = faults + 1
      BY <1>6 DEF Restart
    <2>4. TailReads => faults' = faults
      BY <1>6 DEF Restart
    <2> QED
      BY <1>0, <2>1, <2>2, <2>3, <2>4 DEF BreakCount
  <1> QED
    BY <1>2, <1>3, <1>5, <1>6 DEF Next

(* A failure breaks the log in one place at most, for any number of them.   *)
THEOREM BreaksAreBounded == Spec => []OneFaultOneBreak
PROOF
  <1>1. Init => TypeOK /\ EmptyStart /\ KeyHeld /\ BreakCount
    BY AuditInit DEF AuditInv
  <1>2. TypeOK /\ EmptyStart /\ KeyHeld /\ BreakCount /\ [Next]_vars
          => (TypeOK /\ EmptyStart /\ KeyHeld /\ BreakCount)'
    BY TypeStep, KeyStep, BreakStep
  <1>3. TypeOK /\ BreakCount => OneFaultOneBreak
    BY BreaksFinite DEF BreakCount, OneFaultOneBreak, Pending, TypeOK
  <1> QED
    BY <1>1, <1>2, <1>3, PTL DEF Spec
=============================================================================
