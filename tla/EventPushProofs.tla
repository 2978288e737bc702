-------------------------- MODULE EventPushProofs --------------------------
(* What the event pusher promises for any users, limits, ages and bounds.   *)
EXTENDS EventPush, TLAPS

(* Stamps are unique also among entries the pruner has removed meanwhile. *)
StampInv ==
  /\ \A e, f \in log \union page: e.ts = f.ts => e = f
  /\ \A e \in page: e.ts <= now

(* The pusher's position: file, memory and tick, in this order. *)
PlaceInv ==
  /\ bot # "pushing" => page = {}
  /\ page = {} => served = {}
  /\ bot = "idle" => newestTs = lastTs
  /\ bot = "pushing" => lastTs <= newestTs
  /\ \A e \in page: newestTs < e.ts
  /\ birth <= lastTs
  /\ cursor # Never => birth <= cursor /\ cursor <= lastTs

(* What was sent since the start lies behind the tick's position, or is the *)
(* entry it is at.                                                          *)
LatelyInv ==
  /\ bot = "down" => \A u \in Users: lately[u] = {}
  /\ \A u \in Users: \A t \in lately[u]:
       t <= newestTs \/ (u \in served /\ \E e \in page: IsFirst(e) /\ t = e.ts)

Missed(e) == e.loud /\ birth < e.ts /\ e.ts \notin cut /\ \E u \in Users: e.ts \notin told[u]

(* Nothing is missed up to the tick's position, and between it and an entry *)
(* of the page there is only the page and what the limit cut.               *)
TickInv ==
  /\ bot = "pushing" => \A e \in log: e.ts <= newestTs => ~Missed(e)
  /\ \A e \in log, f \in page: newestTs < e.ts /\ e.ts <= f.ts => e \in page \/ e.ts \in cut
  /\ \A e \in page, u \in served: IsFirst(e) => e.ts \in told[u]

(* The last prune is the one the pruner remembers and finds in its file. *)
AnchorInv == prunedAt # Never /\ anchored => anchor = prunedAt /\ lastPruned = prunedAt

FollowInv == StampInv /\ PlaceInv /\ LatelyInv /\ TickInv /\ NothingSkipped

IInv == TypeOK /\ FollowInv /\ AnchorInv

(* What the types say of entries and of the first of the page. *)
LEMMA Entries ==
  ASSUME TypeOK
  PROVE  /\ \A e \in log \union page: e.ts \in Nat /\ e.ts \in Times /\ e.loud \in BOOLEAN
         /\ now \in Nat /\ lastTs \in Nat /\ newestTs \in Nat /\ birth \in Nat
         /\ cursor # Never => cursor \in Nat
         /\ Never \notin Nat
  BY EventPushAssumption DEF TypeOK, Entry, Times

(* Nothing is logged, sent or pruned at first. *)
LEMMA InitInv == Init => IInv
  BY EventPushAssumption DEF Init, IInv, TypeOK, FollowInv, StampInv, PlaceInv, LatelyInv,
     TickInv, NothingSkipped, AnchorInv, Moments, Missed, IsFirst

(* The stamp of a step is a time. *)
LEMMA NextMoment ==
  ASSUME TypeOK, now < MaxTime
  PROVE  now + 1 \in Times /\ now + 1 \in Moments /\ now + 1 \in 0..MaxTime
         /\ 0..now \subseteq 0..(now + 1)
  BY EventPushAssumption DEF TypeOK, Times, Moments

(* The gateway's steps only remove entries, or add one newer than the clock. *)
LEMMA LogKeeps ==
  ASSUME IInv, NEW b \in BOOLEAN, log' \subseteq log \union {[ts |-> now + 1, loud |-> b]},
         now < MaxTime, now' = now + 1, UNCHANGED botVars,
         anchor' \in Moments, lastPruned' \in Moments, prunedAt' \in Moments, anchored' \in BOOLEAN
  PROVE  TypeOK' /\ FollowInv'
PROOF
  <1> USE DEF IInv, FollowInv
  <1> DEFINE x == [ts |-> now + 1, loud |-> b]
  <1>1. \A e \in log \union page: e.ts \in Nat /\ e.ts <= now
    BY Entries DEF StampInv, TypeOK
  <1>2. now \in Nat /\ lastTs \in Nat /\ newestTs \in Nat /\ birth \in Nat
        /\ lastTs <= now /\ newestTs <= now
    BY Entries DEF TypeOK
  <1>3. x \in Entry /\ x.ts = now + 1
    BY NextMoment DEF Entry
  <1>4. \A e \in log': e \in log \/ (e = x /\ e.ts = now + 1)
    BY <1>3
  <1> HIDE DEF x
  <1>0. UNCHANGED <<bot, cursor, lastTs, newestTs, page, served, crashes, birth, told, lately, cut>>
    BY DEF botVars
  <1>5. StampInv'
    BY <1>0, <1>1, <1>2, <1>4 DEF StampInv
  <1>6. PlaceInv'
    BY <1>0 DEF PlaceInv
  <1>7. LatelyInv'
    BY <1>0 DEF LatelyInv, IsFirst
  <1>8. TickInv'
    <2>1. \A e \in log': e.ts <= newestTs => e \in log
      BY <1>2, <1>4
    <2>2. \A e \in log', f \in page: e.ts <= f.ts => e \in log
      BY <1>1, <1>2, <1>4
    <2>3. (bot = "pushing" => \A e \in log: e.ts <= newestTs => ~Missed(e))'
      BY <2>1, <1>0 DEF TickInv, Missed
    <2>4. (\A e \in log, f \in page:
             newestTs < e.ts /\ e.ts <= f.ts => e \in page \/ e.ts \in cut)'
      BY <2>2, <1>0 DEF TickInv
    <2>5. (\A e \in page, u \in served: IsFirst(e) => e.ts \in told[u])'
      BY <1>0 DEF TickInv, IsFirst
    <2> QED
      BY <2>3, <2>4, <2>5 DEF TickInv
  <1>9. NothingSkipped'
    <2>1. \A e \in log': e.ts <= lastTs \/ (cursor # Never /\ e.ts <= cursor) => e \in log
      BY <1>2, <1>4, Entries DEF TypeOK
    <2> QED
      BY <2>1, <1>0 DEF NothingSkipped
  <1>10. TypeOK'
    <2>1. (log' \subseteq Entry) /\ (\A e, f \in log': e.ts = f.ts => e = f)
          /\ (\A e \in log': e.ts <= now')
      BY <1>1, <1>2, <1>3, <1>4 DEF TypeOK
    <2> QED
      BY <2>1, <1>0, NextMoment DEF TypeOK
  <1> QED
    BY <1>5, <1>6, <1>7, <1>8, <1>9, <1>10

(* An event is emitted. *)
LEMMA EmitInv == ASSUME IInv, NEW b \in BOOLEAN, Emit(b) PROVE IInv'
PROOF
  <1>1. log' \subseteq log \union {[ts |-> now + 1, loud |-> b]} /\ now < MaxTime
        /\ now' = now + 1 /\ UNCHANGED botVars
        /\ UNCHANGED <<anchor, lastPruned, prunedAt, anchored>>
    BY DEF Emit
  <1>2. anchor' \in Moments /\ lastPruned' \in Moments /\ prunedAt' \in Moments
        /\ anchored' \in BOOLEAN
    BY <1>1 DEF IInv, TypeOK
  <1>3. TypeOK' /\ FollowInv'
    BY <1>1, <1>2, LogKeeps
  <1> QED
    BY <1>1, <1>3 DEF IInv, AnchorInv

(* A prune removes entries and adds its own. *)
LEMMA PruneInv == ASSUME IInv, NEW b \in BOOLEAN, Prune(b) PROVE IInv'
PROOF
  <1>1. /\ log' \subseteq log \union {[ts |-> now + 1, loud |-> TRUE]} /\ now < MaxTime
        /\ now' = now + 1 /\ UNCHANGED botVars
        /\ lastPruned' = now + 1 /\ anchor' = (IF b THEN now + 1 ELSE anchor)
        /\ prunedAt' = now + 1 /\ anchored' = b
    BY DEF Prune, Kept
  <1>2. anchor' \in Moments /\ lastPruned' \in Moments /\ prunedAt' \in Moments
        /\ anchored' \in BOOLEAN
    BY <1>1, NextMoment DEF IInv, TypeOK
  <1>3. TypeOK' /\ FollowInv'
    BY <1>1, <1>2, LogKeeps
  <1> QED
    BY <1>1, <1>3 DEF IInv, AnchorInv

(* A prune cut short removes entries; the next boot finds its anchor or not. *)
LEMMA PruneCutShortInv == ASSUME IInv, NEW b \in BOOLEAN, PruneCutShort(b) PROVE IInv'
PROOF
  <1>1. /\ log' \subseteq log \union {[ts |-> now + 1, loud |-> TRUE]} /\ now < MaxTime
        /\ now' = now + 1 /\ UNCHANGED botVars
        /\ anchor' = (IF b THEN now + 1 ELSE anchor) /\ lastPruned' = anchor'
        /\ prunedAt' = now + 1 /\ anchored' = b
    BY DEF PruneCutShort, Kept
  <1>2. anchor' \in Moments /\ lastPruned' \in Moments /\ prunedAt' \in Moments
        /\ anchored' \in BOOLEAN
    BY <1>1, NextMoment DEF IInv, TypeOK
  <1>3. TypeOK' /\ FollowInv'
    BY <1>1, <1>2, LogKeeps
  <1> QED
    BY <1>1, <1>3 DEF IInv, AnchorInv

(* A restart of the gateway reads the anchor. *)
LEMMA RestartInv == ASSUME IInv, Restart PROVE IInv'
  BY DEF IInv, Restart, TypeOK, FollowInv, StampInv, PlaceInv, LatelyInv, TickInv, NothingSkipped,
     AnchorInv, Missed, IsFirst, botVars

(* A poll takes the page from what is newer than the position. *)
LEMMA PollInv == ASSUME IInv, Poll PROVE IInv'
PROOF
  <1> USE DEF IInv, FollowInv
  <1>1. /\ bot = "idle" /\ bot' = "pushing" /\ page' = Reply(lastTs) /\ newestTs' = lastTs
        /\ cut' = cut \union {e.ts: e \in {f \in log: f.ts > lastTs} \ Reply(lastTs)}
        /\ UNCHANGED <<gatewayVars, cursor, lastTs, served, crashes, birth, told, lately>>
    BY DEF Poll
  <1>2. page' \subseteq {e \in log: e.ts > lastTs}
    BY <1>1 DEF Reply, Newest
  <1>3. page = {} /\ served = {} /\ newestTs = lastTs
    BY <1>1 DEF PlaceInv
  <1>4. \A e \in log: e.ts > lastTs => e \in page' \/ e.ts \in cut'
    BY <1>1
  <1>5. cut \subseteq cut'
    BY <1>1
  <1>6. TypeOK'
    <2>1. page' \subseteq Entry
      BY <1>2 DEF TypeOK
    <2>2. cut' \subseteq Times
      BY <1>1, Entries DEF TypeOK
    <2> QED
      BY <1>1, <2>1, <2>2 DEF TypeOK, gatewayVars
  <1>7. StampInv'
    BY <1>1, <1>2 DEF StampInv, TypeOK, gatewayVars
  <1>8. PlaceInv'
    BY <1>1, <1>2, <1>3, Entries DEF PlaceInv
  <1>9. LatelyInv'
    BY <1>1, <1>3 DEF LatelyInv
  <1>10. TickInv'
    <2>1. \A e \in log: e.ts <= lastTs => ~Missed(e)
      BY DEF NothingSkipped, Missed
    <2>2. \A e \in log: e.ts <= lastTs => ~Missed(e)'
      BY <2>1, <1>1, <1>5 DEF Missed
    <2>3. \A e \in log': newestTs' < e.ts => e \in page' \/ e.ts \in cut'
      BY <1>1, <1>4, Entries DEF gatewayVars
    <2>4. served' = {}
      BY <1>1, <1>3
    <2> QED
      BY <2>2, <2>3, <2>4, <1>1 DEF TickInv, gatewayVars
  <1>11. NothingSkipped'
    BY <1>1, <1>5 DEF NothingSkipped, gatewayVars
  <1>12. AnchorInv'
    BY <1>1 DEF AnchorInv, gatewayVars
  <1> QED
    BY <1>6, <1>7, <1>8, <1>9, <1>10, <1>11, <1>12

(* The first of the page is the only entry of the log between the tick's     *)
(* position and its stamp that the limit did not cut.                       *)
LEMMA HandledKeeps ==
  ASSUME IInv, bot = "pushing", NEW e0 \in page, IsFirst(e0), Handled(e0),
         e0.loud => \A u \in Users: e0.ts \in told'[u],
         told' \in [Users -> SUBSET Times], \A u \in Users: told[u] \subseteq told'[u],
         lately' \in [Users -> SUBSET Times],
         \A u \in Users: \A t \in lately'[u]: t \in lately[u] \/ t = e0.ts,
         UNCHANGED <<gatewayVars, bot, cursor, lastTs, crashes, birth, cut>>
  PROVE  IInv'
PROOF
  <1> USE DEF IInv, FollowInv
  <1>0. /\ page' = page \ {e0} /\ newestTs' = e0.ts /\ served' = {}
        /\ now' = now /\ log' = log /\ bot' = bot /\ cursor' = cursor /\ lastTs' = lastTs
        /\ birth' = birth /\ cut' = cut /\ crashes' = crashes
        /\ UNCHANGED <<anchor, lastPruned, prunedAt, anchored>>
    BY DEF Handled, gatewayVars
  <1>1. \A e \in log \union page: e.ts \in Nat /\ e.ts \in Times /\ e.ts <= now
    BY Entries DEF StampInv, TypeOK
  <1>2. now \in Nat /\ lastTs \in Nat /\ newestTs \in Nat /\ birth \in Nat
    BY Entries
  <1>3. newestTs < e0.ts /\ lastTs <= newestTs
    BY DEF PlaceInv
  <1>4. \A e \in page: e0.ts <= e.ts /\ (e # e0 => e0.ts < e.ts)
    BY <1>1 DEF IsFirst, StampInv
  <1>5. TypeOK'
    BY <1>0, <1>1, <1>2 DEF TypeOK
  <1>6. StampInv'
    BY <1>0 DEF StampInv
  <1>7. PlaceInv'
    BY <1>0, <1>1, <1>2, <1>3, <1>4 DEF PlaceInv
  <1>8. LatelyInv'
    <2>1. \A u \in Users: \A t \in lately[u]: t \in Nat /\ t <= e0.ts
      <3> TAKE u \in Users
      <3> TAKE t \in lately[u]
      <3>1. t \in Nat
        BY EventPushAssumption DEF TypeOK, Times
      <3>2. CASE t <= newestTs
        BY <3>1, <3>2, <1>1, <1>2, <1>3
      <3>3. CASE \E e \in page: IsFirst(e) /\ t = e.ts
        BY <3>3, <3>1, <1>1 DEF IsFirst
      <3> QED
        BY <3>1, <3>2, <3>3 DEF LatelyInv
    <2>2. \A u \in Users: \A t \in lately'[u]: t <= e0.ts
      BY <2>1, <1>1
    <2> QED
      BY <2>2, <1>0 DEF LatelyInv
  <1>9. TickInv'
    <2>1. ASSUME NEW e \in log, e.ts <= e0.ts PROVE ~Missed(e)'
      <3>1. CASE e.ts <= newestTs
        BY <3>1, <1>0 DEF TickInv, Missed
      <3>2. CASE e \in page
        <4>1. e = e0
          BY <3>2, <2>1, <1>1, <1>4
        <4> QED
          BY <4>1, <1>0 DEF Missed
      <3>3. CASE e.ts \in cut
        BY <3>3, <1>0 DEF Missed
      <3> QED
        BY <2>1, <3>1, <3>2, <3>3, <1>1, <1>2 DEF TickInv
    <2>2. (bot = "pushing" => \A e \in log: e.ts <= newestTs => ~Missed(e))'
      BY <2>1, <1>0
    <2>3. (\A e \in log, f \in page:
             newestTs < e.ts /\ e.ts <= f.ts => e \in page \/ e.ts \in cut)'
      <3> SUFFICES ASSUME NEW e \in log, NEW f \in page, e0.ts < e.ts, e.ts <= f.ts
                   PROVE  e \in page \ {e0} \/ e.ts \in cut
        BY <1>0
      <3>1. newestTs < e.ts /\ e # e0
        BY <1>1, <1>2, <1>3
      <3> QED
        BY <3>1 DEF TickInv
    <2> QED
      BY <2>2, <2>3, <1>0 DEF TickInv
  <1>10. NothingSkipped'
    BY <1>0 DEF NothingSkipped
  <1>11. AnchorInv'
    BY <1>0 DEF AnchorInv
  <1> QED
    BY <1>5, <1>6, <1>7, <1>8, <1>9, <1>10, <1>11

(* A quiet entry is passed over. *)
LEMMA PassOverInv == ASSUME IInv, NEW e \in page, PassOver(e) PROVE IInv'
PROOF
  <1>1. bot = "pushing" /\ IsFirst(e) /\ ~e.loud /\ Handled(e)
        /\ UNCHANGED <<gatewayVars, bot, cursor, lastTs, crashes, birth, cut>>
        /\ told' = told /\ lately' = lately
    BY DEF PassOver
  <1>2. told \in [Users -> SUBSET Times] /\ lately \in [Users -> SUBSET Times]
    BY DEF IInv, TypeOK
  <1> QED
    BY <1>1, <1>2, HandledKeeps

(* A loud entry is sent to one user more, or to the last. *)
LEMMA PushInv == ASSUME IInv, NEW e \in page, NEW u \in Users, Push(e, u) PROVE IInv'
PROOF
  <1>1. /\ bot = "pushing" /\ IsFirst(e) /\ e.loud /\ u \notin served
        /\ told' = [told EXCEPT ![u] = @ \union {e.ts}]
        /\ lately' = [lately EXCEPT ![u] = @ \union {e.ts}]
        /\ UNCHANGED <<gatewayVars, bot, cursor, lastTs, crashes, birth, cut>>
    BY DEF Push
  <1>2. told \in [Users -> SUBSET Times] /\ lately \in [Users -> SUBSET Times]
        /\ e.ts \in Times /\ served \subseteq Users
    BY Entries DEF IInv, TypeOK
  <1>3. /\ told' \in [Users -> SUBSET Times] /\ lately' \in [Users -> SUBSET Times]
        /\ \A v \in Users: told[v] \subseteq told'[v]
        /\ \A v \in Users: \A t \in lately'[v]: t \in lately[v] \/ (v = u /\ t = e.ts)
        /\ e.ts \in told'[u]
    BY <1>1, <1>2
  <1>4. \A v \in served: e.ts \in told[v]
    BY <1>1 DEF IInv, FollowInv, TickInv
  <1>5. CASE served \union {u} = Users
    <2>1. Handled(e)
      BY <1>5 DEF Push
    <2>2. \A v \in Users: e.ts \in told'[v]
      BY <1>5, <1>3, <1>4
    <2> QED
      BY <1>1, <1>3, <2>1, <2>2, HandledKeeps
  <1>6. CASE served \union {u} # Users
    <2> USE DEF IInv, FollowInv
    <2>0. /\ served' = served \union {u} /\ page' = page /\ newestTs' = newestTs
          /\ now' = now /\ log' = log /\ bot' = bot /\ cursor' = cursor /\ lastTs' = lastTs
          /\ birth' = birth /\ cut' = cut /\ crashes' = crashes
          /\ UNCHANGED <<anchor, lastPruned, prunedAt, anchored>>
      BY <1>1, <1>6 DEF Push, gatewayVars
    <2>1. TypeOK'
      BY <2>0, <1>2, <1>3 DEF TypeOK
    <2>2. StampInv' /\ AnchorInv'
      BY <2>0 DEF StampInv, AnchorInv
    <2>3. PlaceInv'
      BY <2>0, <1>1 DEF PlaceInv
    <2>4. LatelyInv'
      BY <2>0, <1>1, <1>3 DEF LatelyInv, IsFirst
    <2>5. TickInv'
      <3>1. \A f \in page: IsFirst(f) => f.ts = e.ts
        BY <1>1, Entries DEF IsFirst
      <3>2. \A f \in log: ~Missed(f) => ~Missed(f)'
        BY <2>0, <1>3 DEF Missed
      <3>3. (\A f \in page, v \in served: IsFirst(f) => f.ts \in told[v])'
        BY <2>0, <3>1, <1>3, <1>4, <1>2 DEF IsFirst
      <3> QED
        BY <2>0, <3>2, <3>3 DEF TickInv
    <2>6. NothingSkipped'
      BY <2>0, <1>3 DEF NothingSkipped
    <2> QED
      BY <2>1, <2>2, <2>3, <2>4, <2>5, <2>6
  <1> QED
    BY <1>5, <1>6

(* The cursor goes where the tick is. *)
LEMMA EndTickInv == ASSUME IInv, EndTick PROVE IInv'
PROOF
  <1> USE DEF IInv, FollowInv
  <1>0. /\ bot = "pushing" /\ page = {} /\ bot' = "idle" /\ lastTs' = newestTs
        /\ cursor' = newestTs \/ cursor' = cursor
        /\ now' = now /\ log' = log /\ newestTs' = newestTs /\ page' = page /\ served' = served
        /\ birth' = birth /\ cut' = cut /\ crashes' = crashes /\ told' = told /\ lately' = lately
        /\ UNCHANGED <<anchor, lastPruned, prunedAt, anchored>>
    BY DEF EndTick, gatewayVars
  <1>1. now \in Nat /\ lastTs \in Nat /\ newestTs \in Nat /\ birth \in Nat
        /\ (cursor # Never => cursor \in Nat) /\ Never \notin Nat
        /\ lastTs <= newestTs /\ \A e \in log: e.ts \in Nat
    BY <1>0, Entries DEF PlaceInv
  <1>2. served = {}
    BY <1>0 DEF PlaceInv
  <1>3. TypeOK'
    BY <1>0, <1>1 DEF TypeOK
  <1>4. StampInv' /\ AnchorInv'
    BY <1>0 DEF StampInv, AnchorInv
  <1>5. PlaceInv'
    BY <1>0, <1>1, <1>2 DEF PlaceInv
  <1>6. LatelyInv'
    BY <1>0, <1>2 DEF LatelyInv
  <1>7. TickInv'
    BY <1>0, <1>2 DEF TickInv
  <1>8. NothingSkipped'
    <2>1. \A e \in log: e.ts <= newestTs => ~Missed(e)
      BY <1>0 DEF TickInv
    <2>2. \A e \in log: e.ts <= lastTs' \/ (cursor' # Never /\ e.ts <= cursor') => e.ts <= newestTs
      BY <1>0, <1>1 DEF PlaceInv
    <2> QED
      BY <2>1, <2>2, <1>0 DEF NothingSkipped, Missed
  <1> QED
    BY <1>3, <1>4, <1>5, <1>6, <1>7, <1>8

(* A bot that stops forgets its page and what it sent lately. *)
LEMMA CrashInv == ASSUME IInv, Crash PROVE IInv'
PROOF
  <1> USE DEF IInv, FollowInv
  <1>0. /\ bot' = "down" /\ page' = {} /\ served' = {} /\ lately' = [u \in Users |-> {}]
        /\ crashes < MaxCrashes /\ crashes' = crashes + 1
        /\ now' = now /\ log' = log /\ cursor' = cursor /\ lastTs' = lastTs
        /\ newestTs' = newestTs /\ birth' = birth /\ cut' = cut /\ told' = told
        /\ UNCHANGED <<anchor, lastPruned, prunedAt, anchored>>
    BY DEF Crash, gatewayVars
  <1>1. TypeOK'
    BY <1>0, EventPushAssumption DEF TypeOK
  <1>2. StampInv' /\ AnchorInv'
    BY <1>0 DEF StampInv, AnchorInv
  <1>3. PlaceInv'
    BY <1>0 DEF PlaceInv
  <1>4. LatelyInv'
    BY <1>0 DEF LatelyInv
  <1>5. TickInv'
    BY <1>0 DEF TickInv
  <1>6. NothingSkipped'
    BY <1>0 DEF NothingSkipped
  <1> QED
    BY <1>1, <1>2, <1>3, <1>4, <1>5, <1>6

(* A bot that starts is where its file says, or after everything logged. *)
LEMMA StartInv == ASSUME IInv, Start PROVE IInv'
PROOF
  <1> USE DEF IInv, FollowInv
  <1>0. /\ bot = "down" /\ bot' = "idle"
        /\ lastTs' = (IF cursor = Never THEN now ELSE cursor) /\ newestTs' = lastTs'
        /\ birth' = (IF cursor = Never THEN now ELSE birth)
        /\ now' = now /\ log' = log /\ cursor' = cursor /\ page' = page /\ served' = served
        /\ crashes' = crashes /\ cut' = cut /\ told' = told /\ lately' = lately
        /\ UNCHANGED <<anchor, lastPruned, prunedAt, anchored>>
    BY DEF Start, gatewayVars
  <1>1. now \in Nat /\ birth \in Nat /\ (cursor # Never => cursor \in Nat)
        /\ page = {} /\ served = {} /\ \A e \in log: e.ts \in Nat
    BY <1>0, Entries DEF PlaceInv
  <1>2. TypeOK'
    BY <1>0, <1>1 DEF TypeOK
  <1>3. StampInv' /\ AnchorInv'
    BY <1>0 DEF StampInv, AnchorInv
  <1>4. PlaceInv'
    BY <1>0, <1>1 DEF PlaceInv
  <1>5. LatelyInv'
    BY <1>0 DEF LatelyInv
  <1>6. TickInv'
    BY <1>0, <1>1 DEF TickInv
  <1>7. NothingSkipped'
    <2>1. CASE cursor = Never
      BY <2>1, <1>0, <1>1 DEF NothingSkipped
    <2>2. CASE cursor # Never
      BY <2>2, <1>0 DEF NothingSkipped
    <2> QED
      BY <2>1, <2>2
  <1> QED
    BY <1>2, <1>3, <1>4, <1>5, <1>6, <1>7

(* Every step, by the lemma of its action. *)
LEMMA NextInv == IInv /\ [Next]_vars => IInv'
PROOF
  <1> SUFFICES ASSUME IInv, [Next]_vars PROVE IInv'
    OBVIOUS
  <1>1. CASE \E b \in BOOLEAN: Emit(b) \/ Prune(b) \/ PruneCutShort(b)
    BY <1>1, EmitInv, PruneInv, PruneCutShortInv
  <1>2. CASE Restart \/ Crash
    BY <1>2, RestartInv, CrashInv
  <1>3. CASE Poll \/ EndTick \/ Start
    BY <1>3, PollInv, EndTickInv, StartInv
  <1>4. CASE \E e \in page: PassOver(e) \/ \E u \in Users: Push(e, u)
    BY <1>4, PassOverInv, PushInv
  <1>5. CASE UNCHANGED vars
    BY <1>5 DEF vars, gatewayVars, botVars, IInv, TypeOK, FollowInv, StampInv, PlaceInv, LatelyInv,
       TickInv, NothingSkipped, AnchorInv, Missed, IsFirst
  <1> QED
    BY <1>1, <1>2, <1>3, <1>4, <1>5 DEF Next, BotStep

(* The invariant holds in every behaviour; the theorems below are its parts. *)
LEMMA Invariance == Spec => []IInv
  BY InitInv, NextInv, PTL DEF Spec

(* The state is well typed: stamps are unique and no cursor is ahead of the  *)
(* clock (events.py, event_pusher.py).                                      *)
THEOREM Types == Spec => []TypeOK
PROOF
  <1>1. IInv => TypeOK
    BY DEF IInv
  <1> QED
    BY <1>1, Invariance, PTL

(* No event the cursor has passed was missed, wherever the bot was stopped   *)
(* and whatever the pruner removed (event_pusher.py _tick).                 *)
THEOREM NoneSkipped == Spec => []NothingSkipped
PROOF
  <1>1. IInv => NothingSkipped
    BY DEF IInv, FollowInv
  <1> QED
    BY <1>1, Invariance, PTL

(* Between two starts of the bot a user gets events in order, and none twice *)
(* (event_pusher.py _tick).                                                 *)
THEOREM PushesInOrder == Spec => PushInOrder
PROOF
  <1>1. IInv => \A e \in page, u \in Users: Push(e, u) => \A t \in lately[u]: t < e.ts
    <2> SUFFICES ASSUME IInv, NEW e \in page, NEW u \in Users, Push(e, u), NEW t \in lately[u]
                 PROVE  t < e.ts
      OBVIOUS
    <2>1. t <= newestTs /\ newestTs < e.ts
      BY DEF IInv, FollowInv, LatelyInv, PlaceInv, Push
    <2>2. t \in Nat /\ newestTs \in Nat /\ e.ts \in Nat
      BY Entries DEF IInv, TypeOK, Times
    <2> QED
      BY <2>1, <2>2
  <1> QED
    BY <1>1, Invariance, PTL DEF PushInOrder

(* Only what the file's cursor does not cover is ever sent, and nothing from *)
(* before the bot (event_pusher.py __post_init__, _tick).                   *)
THEOREM RepeatsOnlyUnsaved == Spec => RepeatsAreUnsaved
PROOF
  <1>1. IInv => \A e \in page, u \in Users: Push(e, u) =>
          (/\ e.ts > birth
           /\ cursor # Never => e.ts > cursor)
    <2> SUFFICES ASSUME IInv, NEW e \in page, NEW u \in Users, Push(e, u)
                 PROVE  e.ts > birth /\ (cursor # Never => e.ts > cursor)
      OBVIOUS
    <2>1. newestTs < e.ts /\ lastTs <= newestTs /\ birth <= lastTs
          /\ (cursor # Never => cursor <= lastTs)
      BY DEF IInv, FollowInv, PlaceInv, Push
    <2> QED
      BY <2>1, Entries DEF IInv
  <1> QED
    BY <1>1, Invariance, PTL DEF RepeatsAreUnsaved

(* Prunes are PruneEvery apart, also across restarts, if the anchor was      *)
(* saved (event_pruner.py tick, _load_anchor).                              *)
THEOREM PrunesApart == Spec => PrunedApart
PROOF
  <1>1. IInv => ((\E b \in BOOLEAN: Prune(b) \/ PruneCutShort(b)) /\ prunedAt # Never /\ anchored
                 => now' - prunedAt >= PruneEvery)
    BY DEF IInv, AnchorInv, Prune, PruneCutShort, PruneDue
  <1> QED
    BY <1>1, Invariance, PTL DEF PrunedApart
=============================================================================
