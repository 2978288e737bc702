------------------------------ MODULE AuditLog ------------------------------
(* The audit log (audit.py): a JSONL file whose entries are chained by an   *)
(* HMAC, written by the gateway's agent loop and verified by `fitt audit`,  *)
(* a process of its own.                                                    *)
(*                                                                          *)
(* An entry is the number of the append that made it, which also stands for *)
(* its HMAC: no two entries have the same.  0 is the empty prev_hmac.       *)
EXTENDS Naturals, Sequences, FiniteSets

CONSTANTS MaxEntries,  \* bound: appends
          MaxKeys,     \* bound: keys that are generated
          MaxFaults    \* bound: failures of a write, a tail or the key file

ASSUME AuditLogAssumption == MaxEntries \in Nat /\ MaxKeys \in Nat /\ MaxFaults \in Nat

(* A line is whole, open (its newline is missing), torn (a part of an entry *)
(* without a newline) or junk (a torn or open line that the next entry was  *)
(* glued to).  A long one is more than _tail_last_hmac reads back.          *)
Texts == {"whole", "open", "torn", "junk"}
Line  == [entry: 1..MaxEntries, key: 1..MaxKeys, prev: 0..MaxEntries,
          long: BOOLEAN, text: Texts]

VARIABLES
  file,      \* audit.jsonl
  lastHmac,  \* _last_hmac
  keyFile,   \* audit.key, 0 if there is none
  key,       \* _key, 0 before it is loaded
  tried,     \* appends so far
  keys,      \* keys generated so far
  \* history:
  acked,     \* entries whose append returned
  faults,    \* how often something went wrong
  keyLosses, \* how often the key file was lost
  sound      \* lines before the first fault

vars == <<file, lastHmac, keyFile, key, tried, keys, acked, faults, keyLosses, sound>>

Init ==
  /\ file = <<>> /\ lastHmac = 0 /\ keyFile = 0 /\ key = 0 /\ tried = 0 /\ keys = 0
  /\ acked = {} /\ faults = 0 /\ keyLosses = 0 /\ sound = 0

Latest == file[Len(file)]
Unfinished == file # <<>> /\ Latest.text \in {"open", "torn"}
Parses(line) == line.text \in {"whole", "open"}

-----------------------------------------------------------------------------
(* append, under its lock: _load_key, the entry, the write, and _last_hmac  *)
(* only after fsync.  The agent loop logs an exception and goes on.         *)

LoadedKey == IF key # 0 THEN key ELSE IF keyFile # 0 THEN keyFile ELSE keys + 1

LoadKey ==
  /\ LoadedKey <= MaxKeys
  /\ key' = LoadedKey
  /\ IF key = 0 /\ keyFile = 0
     THEN keyFile' = keys + 1 /\ keys' = keys + 1
     ELSE UNCHANGED <<keyFile, keys>>

(* The next entry, of which `text` was put down; glued to an unfinished    *)
(* line it makes one line that does not parse.                              *)
NextLine(text, long) ==
  [entry |-> tried + 1, key |-> LoadedKey, prev |-> lastHmac, long |-> long,
   text |-> IF ~Unfinished THEN text ELSE IF text = "whole" THEN "junk" ELSE "torn"]

Written(text, long) ==
  IF Unfinished THEN [file EXCEPT ![Len(file)] = NextLine(text, long)]
                ELSE Append(file, NextLine(text, long))

AppendForgets(long) ==   \* _last_hmac is left as it was
  /\ tried < MaxEntries
  /\ LoadKey
  /\ file' = Written("whole", long)
  /\ acked' = acked \union {tried + 1}
  /\ tried' = tried + 1
  /\ sound' = IF faults = 0 THEN Len(file') ELSE sound
  /\ UNCHANGED <<lastHmac, faults, keyLosses>>

AppendEntry(long) ==
  /\ tried < MaxEntries
  /\ LoadKey
  /\ file' = Written("whole", long)
  /\ lastHmac' = tried + 1
  /\ acked' = acked \union {tried + 1}
  /\ tried' = tried + 1
  /\ sound' = IF faults = 0 THEN Len(file') ELSE sound
  /\ UNCHANGED <<faults, keyLosses>>

AppendFailsLate ==   \* remembered before it is written
  /\ tried < MaxEntries
  /\ LoadKey
  /\ lastHmac' = tried + 1
  /\ tried' = tried + 1
  /\ UNCHANGED <<file, acked, faults, keyLosses, sound>>

AppendFailsQuietly ==   \* returned although nothing was written
  /\ tried < MaxEntries
  /\ LoadKey
  /\ acked' = acked \union {tried + 1}
  /\ tried' = tried + 1
  /\ UNCHANGED <<file, lastHmac, faults, keyLosses, sound>>

(* Serialising, opening or writing raises before a byte is written.         *)
AppendFails ==
  /\ tried < MaxEntries
  /\ LoadKey
  /\ tried' = tried + 1
  /\ UNCHANGED <<file, lastHmac, acked, faults, keyLosses, sound>>

(* The write stops half way, or fsync raises with the line in the file.     *)
AppendBreaks(text, long) ==
  /\ tried < MaxEntries /\ faults < MaxFaults
  /\ LoadKey
  /\ file' = Written(text, long)
  /\ tried' = tried + 1
  /\ faults' = faults + 1
  /\ UNCHANGED <<lastHmac, acked, keyLosses, sound>>

-----------------------------------------------------------------------------
(* A new gateway process: _tail_last_hmac parses the last line it can see   *)
(* in the last 4096 bytes, and gives up with the empty HMAC.                *)

TailReads == file # <<>> => Parses(Latest) /\ ~Latest.long

Restart ==
  /\ ~TailReads => faults < MaxFaults
  /\ lastHmac' = IF TailReads /\ file # <<>> THEN Latest.entry ELSE 0
  /\ key' = 0
  /\ faults' = IF TailReads THEN faults ELSE faults + 1
  /\ UNCHANGED <<file, keyFile, tried, keys, acked, keyLosses, sound>>

(* The key file goes, by hand or with a home that was restored without it.  *)
LoseKey ==
  /\ keyFile # 0 /\ faults < MaxFaults
  /\ keyFile' = 0
  /\ keyLosses' = keyLosses + 1
  /\ faults' = faults + 1
  /\ UNCHANGED <<file, lastHmac, key, tried, keys, acked, sound>>

(* `fitt audit verify` without a key file: verify calls _load_key, which    *)
(* makes a new key.  With one it changes nothing.                           *)
CliVerify ==
  /\ file # <<>> /\ keyFile = 0 /\ keys < MaxKeys
  /\ keyFile' = keys + 1
  /\ keys' = keys + 1
  /\ UNCHANGED <<file, lastHmac, key, tried, acked, faults, keyLosses, sound>>

Next ==
  \/ \E long \in BOOLEAN: AppendEntry(long)
  \/ \E long \in BOOLEAN, text \in {"whole", "open", "torn"}: AppendBreaks(text, long)
  \/ AppendFails
  \/ Restart
  \/ LoseKey
  \/ CliVerify

Spec == Init /\ [][Next]_vars

-----------------------------------------------------------------------------
(* What verify looks at, line by line; it reports the first that fails.     *)

Linked(i) == file[i].prev = IF i = 1 THEN 0 ELSE file[i - 1].entry
Chains(i, k) == Parses(file[i]) /\ Linked(i) /\ file[i].key = k
Verifies(k) == \A i \in 1..Len(file): Chains(i, k)

Breaks == {i \in 1..Len(file): ~Parses(file[i]) \/ ~Linked(i)}

(* What the variables may hold. *)
TypeOK ==
  /\ file \in Seq(Line) /\ lastHmac \in 0..MaxEntries
  /\ keyFile \in 0..MaxKeys /\ key \in 0..MaxKeys
  /\ tried \in 0..MaxEntries /\ keys \in 0..MaxKeys
  /\ acked \subseteq 1..MaxEntries
  /\ faults \in 0..MaxFaults /\ keyLosses \in 0..faults /\ sound \in 0..Len(file)

(* While the key is kept, the lines before the first failure verify, so the *)
(* line verify names is never one of them; without a failure all do, through *)
(* appends that wrote nothing and through restarts.                         *)
SoundPrefix == keyLosses = 0 => \A i \in 1..sound: Chains(i, keyFile)

(* verify does not say "ok" when an entry whose append returned cannot be   *)
(* read: neither a write that failed nor a line glued to a torn one hides.  *)
Readable(a) == \E i \in 1..Len(file): file[i].entry = a /\ Parses(file[i])
NoSilentLoss == Verifies(keyFile) => \A a \in acked: Readable(a)

(* A failure breaks the log in one place at most: the entries after it are  *)
(* chained to each other again, through any number of restarts.             *)
OneFaultOneBreak == Cardinality(Breaks) <= faults
=============================================================================
