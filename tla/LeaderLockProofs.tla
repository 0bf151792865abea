---------------------------- MODULE LeaderLockProofs ----------------------------
(* What holds of LeaderLock for any number of hubs, any lease length and      *)
(* however long the clock runs: epochs are handed out once, a committed       *)
(* record is the newest, and at most one living hub has a running lease.      *)
EXTENDS LeaderLock, TLAPS

\* Where a hub is in acquire: before it has moved anything, while no lock
\* directory exists, and from its own mkdir to the end.
Looking == {"candidate", "quarantine"}
Clearing == {"forget", "receipt", "mkdir"}
Owning == {"provisional", "epoch", "commit", "cleanup", "committed", "giveUp"}
Unnumbered == Looking \cup Clearing \cup {"provisional", "epoch"}
Writing == {"commit", "cleanup", "releasing"}

\* The recovery fence is held by the hub that acquires, and by no other.
FenceInv ==
  \A h \in Hubs : pc[h] \in {"quarantine"} \cup Clearing \cup Owning <=> fence = h

\* The lock directory is the one the acquiring hub made, once in its life.
DirInv ==
  \A h \in Hubs :
    /\ pc[h] \in Clearing => dir = NoHub
    /\ pc[h] \in Owning => dir = h
    /\ pc[h] \in Looking => dir # h

\* The acquisition receipt names the hub that made the directory.
ReceiptInv ==
  /\ dir # NoHub => receipt \in {NoHub, dir}
  /\ \A h \in Hubs : pc[h] = "mkdir" => receipt = h

\* A hub writes into the directory it made, under the epoch it was given.
Begun(h, t) == guarded[h][t].step # "none"
WriteInv ==
  \A h \in Hubs :
    /\ Begun(h, "main") <=> pc[h] \in Writing
    /\ Begun(h, "timer") => pc[h] \in {"leading", "releasing", "stopped"}
    /\ h \in renewing => pc[h] = "leading"
    /\ \A t \in Threads :
         IF Begun(h, t)
           THEN /\ guarded[h][t].dir = h /\ guarded[h][t].next.hub = h
                /\ guarded[h][t].next.epoch \in {0, myEpoch[h]} /\ ~guarded[h][t].next.init
           ELSE guarded[h][t] = NoWrite

\* The hub whose directory is the lock has the newest epoch, once it has one.
EpochInv ==
  /\ \A h \in Hubs : myEpoch[h] <= epoch /\ (pc[h] \in Unnumbered => myEpoch[h] = 0)
  /\ dir # NoHub /\ myEpoch[dir] > 0 => myEpoch[dir] = epoch

\* leader.json was written by the hub that made its directory, and the last
\* lease of that hub is the one it shows.
LeaderInv ==
  leader # NoLeader =>
    /\ dir \in Hubs /\ leader.hub = dir
    /\ leader.epoch \in {0, myEpoch[dir]}
    /\ IF leader.init THEN leader.epoch = 0 /\ lease[dir] = -1 ELSE leader.exp = lease[dir]

\* Between the rename and the link of a write by the directory's hub there is
\* no leader.json, and the hub's other thread is not between them as well.
Mid(h, t) == dir = h /\ guarded[h][t].step \in {"retired", "checked"}
MidInv ==
  \A h \in Hubs, t \in Threads : Mid(h, t) =>
    /\ leader = NoLeader
    /\ \A u \in Threads : Mid(h, u) => u = t

\* A hub with a running lease made the current lock directory.
LeaseInv ==
  \A h \in Hubs :
    /\ Leased(h) => dir = h
    /\ pc[h] \in Unnumbered => lease[h] = -1

\* From the decision to move a lock away until the rename nobody has a lease,
\* and no write in progress can publish one.
LockIsFree ==
  /\ leader # NoLeader => Expired(leader)
  /\ \A h \in Hubs : ~Leased(h)
  /\ \A h \in Hubs, t \in Threads : dir = h =>
       /\ guarded[h][t].step # "checked"
       /\ guarded[h][t].step = "retired" => Expired(guarded[h][t].retired)
QuarantineInv == (\E h \in Hubs : pc[h] = "quarantine") => LockIsFree

-------------------------------------------------------------------------------
(* What a step of a guarded write does.                                       *)

\* the write is over, and its caller goes on
Ends(h, t) ==
  /\ guarded' = [guarded EXCEPT ![h][t] = NoWrite]
  /\ IF t = "timer"
       THEN pc' = pc /\ renewing' \in {renewing, renewing \ {h}}
       ELSE /\ renewing' = renewing
            /\ \E p \in IF pc[h] = "releasing" THEN {"stopped"} ELSE {"committed", "giveUp"} :
                 pc' = [pc EXCEPT ![h] = p]

\* the acquisition lost its record and expires what it finds
CleansUp(h) ==
  /\ leader.hub = h
  /\ BeginWrite(h, "main", [leader EXCEPT !.init = FALSE, !.exp = now - 1])
  /\ pc' = [pc EXCEPT ![h] = "cleanup"]

\* What a guarded write that returns does to its thread.
LEMMA ReturnEffect ==
  ASSUME WriteInv, NEW h \in Hubs, NEW t \in Threads, NEW o \in {"true", "false", "throw"},
         Begun(h, t), Return(h, t, o)
  PROVE  \/ Ends(h, t)
         \/ /\ o = "false" /\ t = "main" /\ pc[h] = "commit"
            /\ CleansUp(h) /\ UNCHANGED renewing
<1>1. CASE t = "main" /\ pc[h] = "commit" /\ o = "false"
  BY <1>1 DEF Return, BeginCleanup, Goto, Ends, CleansUp
<1>2. CASE ~(t = "main" /\ pc[h] = "commit" /\ o = "false")
  <2>1. CASE t = "timer"
    BY <1>2, <2>1 DEF Return, Ends
  <2>2. CASE t = "main"
    <3>1. pc[h] \in Writing
      BY <2>2 DEF WriteInv
    <3>. QED  BY <1>2, <2>2, <3>1 DEF Return, Goto, Ends, Writing
  <2>. QED  BY <2>1, <2>2 DEF Threads
<1>. QED  BY <1>1, <1>2

Validated(h, t) ==
  /\ guarded[h][t].step = "temp" /\ Advance(h, t, "validated")
  /\ UNCHANGED <<pc, renewing, leader, lease>>
Retired(h, t) ==
  /\ guarded[h][t].step = "validated" /\ leader # NoLeader /\ leader' = NoLeader
  /\ guarded' = [guarded EXCEPT ![h][t] = [@ EXCEPT !.step = "retired", !.retired = leader]]
  /\ UNCHANGED <<pc, renewing, lease>>
Checked(h, t) ==
  /\ guarded[h][t].step = "retired" /\ Owns(h, t, guarded[h][t].retired)
  /\ Advance(h, t, "checked")
  /\ UNCHANGED <<pc, renewing, leader, lease>>
Published(h, t) ==
  /\ guarded[h][t].step = "checked" /\ dir = h /\ leader = NoLeader
  /\ leader' = guarded[h][t].next
  /\ lease' = [lease EXCEPT ![h] = guarded[h][t].next.exp]
  /\ Ends(h, t)
Abandoned(h, t) ==
  /\ UNCHANGED <<leader, lease>>
  /\ Ends(h, t) \/ (t = "main" /\ pc[h] = "commit" /\ CleansUp(h) /\ UNCHANGED renewing)

\* What a step of a guarded write changes, and what it leaves alone.
LEMMA WriteEffect ==
  ASSUME WriteInv, NEW h \in Hubs, NEW t \in Threads, WriteLeaderGuarded(h, t)
  PROVE  /\ Begun(h, t) /\ UNCHANGED <<now, dir, receipt, epoch, fence, myEpoch, expected>>
         /\ \/ Validated(h, t) \/ Retired(h, t) \/ Checked(h, t)
            \/ Published(h, t) \/ Abandoned(h, t)
<1>1. Begun(h, t) /\ UNCHANGED <<now, dir, receipt, epoch, fence, myEpoch, expected>>
  BY DEF WriteLeaderGuarded, Validate, Retire, CheckRetired, Link, Begun
<1>2. CASE Validate(h, t)
  <2>1. CASE Return(h, t, "false")
    BY <1>1, <1>2, <2>1, ReturnEffect DEF Validate, Abandoned
  <2>. QED  BY <1>1, <1>2, <2>1 DEF Validate, Validated
<1>3. CASE Retire(h, t)
  <2>1. CASE leader = NoLeader
    BY <1>1, <1>3, <2>1, ReturnEffect DEF Retire, Abandoned
  <2>. QED  BY <1>1, <1>3, <2>1 DEF Retire, Retired
<1>4. CASE CheckRetired(h, t)
  <2>1. CASE Return(h, t, "throw")
    BY <1>1, <1>4, <2>1, ReturnEffect DEF CheckRetired, Abandoned
  <2>. QED  BY <1>1, <1>4, <2>1 DEF CheckRetired, Checked
<1>5. CASE Link(h, t)
  <2>0. guarded[h][t].dir = h
    BY <1>1 DEF WriteInv
  <2>1. CASE dir = guarded[h][t].dir /\ leader = NoLeader
    <3>1. Ends(h, t)
      <4>1. Return(h, t, "true")
        BY <1>5, <2>1 DEF Link
      <4>. QED  BY <1>1, <4>1, ReturnEffect
    <3>. QED  BY <1>1, <1>5, <2>0, <2>1, <3>1 DEF Link, Published
  <2>2. CASE ~(dir = guarded[h][t].dir /\ leader = NoLeader)
    BY <1>1, <1>5, <2>2, ReturnEffect DEF Link, Abandoned
  <2>. QED  BY <2>1, <2>2
<1>. QED  BY <1>1, <1>2, <1>3, <1>4, <1>5 DEF WriteLeaderGuarded

-------------------------------------------------------------------------------
(* The type invariant.                                                        *)

Phase == {"candidate", "quarantine", "forget", "receipt", "mkdir", "provisional",
          "epoch", "commit", "committed", "cleanup", "giveUp", "leading",
          "releasing", "stopped", "dead"}
Guarded == [Hubs -> [Threads -> GuardedWrite]]

\* The absent leader and the absent write, and changes of a record, are typed.
LEMMA Constants ==
  /\ NoLeader \in Leader /\ NoWrite \in GuardedWrite /\ NoLeader.hub = NoHub
  /\ \A rec \in Leader, e \in -1 .. MaxTime + TTL : \A i \in BOOLEAN, r \in BOOLEAN :
       /\ [rec EXCEPT !.exp = e] \in Leader
       /\ [rec EXCEPT !.init = i, !.exp = e] \in Leader
       /\ [rec EXCEPT !.released = r, !.exp = e] \in Leader
<1>. USE LockAssumption
<1>1. NoLeader \in Leader /\ NoLeader.hub = NoHub
  BY DEF NoLeader, Leader
<1>2. NoWrite \in GuardedWrite
  BY <1>1 DEF NoWrite, GuardedWrite
<1>3. ASSUME NEW rec \in Leader, NEW e \in -1 .. MaxTime + TTL, NEW i \in BOOLEAN, NEW r \in BOOLEAN
      PROVE  /\ [rec EXCEPT !.exp = e] \in Leader
             /\ [rec EXCEPT !.init = i, !.exp = e] \in Leader
             /\ [rec EXCEPT !.released = r, !.exp = e] \in Leader
  <2>1. [rec EXCEPT !.exp = e] \in Leader
    BY DEF Leader
  <2>2. [rec EXCEPT !.init = i, !.exp = e] \in Leader
    BY DEF Leader
  <2>3. [rec EXCEPT !.released = r, !.exp = e] \in Leader
    BY DEF Leader
  <2>. QED  BY <2>1, <2>2, <2>3
<1>. QED  BY <1>1, <1>2, <1>3

\* The stages of a guarded write are of its type.
LEMMA WriteTypes ==
  ASSUME NEW w \in GuardedWrite, NEW rec \in Leader
  PROVE  /\ \A s \in {"validated", "checked"} : [w EXCEPT !.step = s] \in GuardedWrite
         /\ [w EXCEPT !.step = "retired", !.retired = rec] \in GuardedWrite
<1>1. \A s \in {"validated", "checked"} : [w EXCEPT !.step = s] \in GuardedWrite
  BY DEF GuardedWrite
<1>2. [w EXCEPT !.step = "retired", !.retired = rec] \in GuardedWrite
  BY DEF GuardedWrite
<1>. QED  BY <1>1, <1>2

\* Leases end within the bounds of time.
LEMMA Times ==
  ASSUME TypeOK
  PROVE  now + TTL \in -1 .. MaxTime + TTL /\ now - 1 \in -1 .. MaxTime + TTL
BY LockAssumption DEF TypeOK

\* Beginning a guarded write keeps the types.
LEMMA BeginWriteType ==
  ASSUME TypeOK, NEW h \in Hubs, NEW t \in Threads, NEW rec \in Leader, BeginWrite(h, t, rec)
  PROVE  guarded' \in Guarded
<1>1. [step |-> "temp", dir |-> dir, next |-> rec, retired |-> NoLeader] \in GuardedWrite
  BY Constants DEF TypeOK, GuardedWrite
<1>. QED  BY <1>1 DEF BeginWrite, TypeOK, Guarded

\* Ending one keeps the types.
LEMMA EndsType ==
  ASSUME TypeOK, NEW h \in Hubs, NEW t \in Threads, Ends(h, t)
  PROVE  guarded' \in Guarded /\ pc' \in [Hubs -> Phase] /\ renewing' \subseteq Hubs
<1>1. guarded' \in Guarded
  BY Constants DEF Ends, TypeOK, Guarded
<1>2. pc' \in [Hubs -> Phase] /\ renewing' \subseteq Hubs
  BY DEF Ends, TypeOK, Phase
<1>. QED  BY <1>1, <1>2

\* Cleaning up keeps the types.
LEMMA CleansUpType ==
  ASSUME TypeOK, NEW h \in Hubs, CleansUp(h)
  PROVE  guarded' \in Guarded /\ pc' \in [Hubs -> Phase]
<1>1. guarded' \in Guarded
  <2>1. [leader EXCEPT !.init = FALSE, !.exp = now - 1] \in Leader
    BY Constants, Times DEF TypeOK
  <2>. QED  BY <2>1, BeginWriteType DEF CleansUp, Threads
<1>2. pc' \in [Hubs -> Phase]
  BY DEF CleansUp, TypeOK, Phase
<1>. QED  BY <1>1, <1>2

\* The types hold without a lock.
LEMMA InitType == Init => TypeOK
<1>. SUFFICES ASSUME Init PROVE TypeOK
  OBVIOUS
<1>1. guarded \in Guarded /\ expected \in [Hubs -> Leader] /\ leader \in Leader
  BY Constants DEF Init, Guarded
<1>2. now \in 0 .. MaxTime /\ lease \in [Hubs -> -1 .. MaxTime + TTL]
  BY LockAssumption DEF Init
<1>. QED  BY <1>1, <1>2 DEF Init, TypeOK, Guarded

\* Every step keeps the types.
LEMMA TypeStep == TypeOK /\ WriteInv /\ [Next]_vars => TypeOK'
<1>. SUFFICES ASSUME TypeOK, WriteInv, [Next]_vars PROVE TypeOK'
  OBVIOUS
<1>. USE LockAssumption
<1>1. CASE UNCHANGED vars
  BY <1>1 DEF vars, TypeOK
<1>2. CASE Tick
  BY <1>2 DEF Tick, TypeOK
<1>3. ASSUME NEW h \in Hubs, Acquire(h) PROVE TypeOK'
  <2>1. CASE Inspect(h)
    <3>1. expected' \in [Hubs -> Leader]
      BY <2>1 DEF Inspect, TypeOK
    <3>2. pc' \in [Hubs -> Phase]
      BY <2>1 DEF Inspect, Goto, TypeOK, Phase
    <3>. QED  BY <2>1, <3>1, <3>2 DEF Inspect, TypeOK, Phase
  <2>2. CASE Quarantine(h)
    <3>1. leader' \in Leader /\ expected' \in [Hubs -> Leader]
      BY <2>2, Constants DEF Quarantine, TypeOK
    <3>2. pc' \in [Hubs -> Phase] /\ fence' \in Hubs \cup {NoHub}
      BY <2>2 DEF Quarantine, Goto, TypeOK, Phase
    <3>. QED  BY <2>2, <3>1, <3>2 DEF Quarantine, TypeOK, Phase
  <2>3. CASE Forget(h) \/ WriteReceipt(h) \/ MakeDirectory(h)
    BY <2>3 DEF Forget, WriteReceipt, MakeDirectory, Goto, TypeOK
  <2>4. CASE WriteProvisional(h)
    <3>1. leader' \in Leader
      BY <2>4, Times DEF WriteProvisional, Leader
    <3>. QED  BY <2>4, <3>1 DEF WriteProvisional, Goto, TypeOK
  <2>5. CASE IncrementEpoch(h)
    <3>1. guarded' \in Guarded
      <4>0. epoch' \in Nat
        BY <2>5 DEF IncrementEpoch, TypeOK
      <4>1. [hub |-> h, epoch |-> epoch', exp |-> now + TTL, init |-> FALSE, released |-> FALSE] \in Leader
        BY <4>0, Times DEF Leader
      <4>2. BeginWrite(h, "main",
              [hub |-> h, epoch |-> epoch', exp |-> now + TTL, init |-> FALSE, released |-> FALSE])
        BY <2>5 DEF IncrementEpoch
      <4>. QED  BY <4>1, <4>2, BeginWriteType DEF Threads
    <3>2. epoch' \in Nat /\ myEpoch' \in [Hubs -> Nat] /\ pc' \in [Hubs -> Phase]
      BY <2>5 DEF IncrementEpoch, Goto, TypeOK, Phase
    <3>. QED  BY <2>5, <3>1, <3>2 DEF IncrementEpoch, TypeOK, Guarded, Phase
  <2>6. CASE AcquireFails(h)
    <3>1. guarded' \in Guarded /\ pc' \in [Hubs -> Phase]
      <4>1. CASE leader.hub = h
        BY <2>6, <4>1, CleansUpType DEF AcquireFails, BeginCleanup, CleansUp, Goto
      <4>2. CASE leader.hub # h
        <5>1. /\ guarded' = [guarded EXCEPT ![h]["main"] = NoWrite]
              /\ pc' = [pc EXCEPT ![h] = "giveUp"]
          BY <2>6, <4>2 DEF AcquireFails, BeginCleanup, Goto
        <5>2. guarded' \in Guarded
          BY <5>1, Constants DEF TypeOK, Guarded, Threads
        <5>. QED  BY <5>1, <5>2 DEF TypeOK, Phase
      <4>. QED  BY <4>1, <4>2
    <3>. QED  BY <2>6, <3>1 DEF AcquireFails, TypeOK, Phase, Guarded
  <2>7. CASE EndAcquire(h)
    BY <2>7 DEF EndAcquire, Goto, TypeOK
  <2>. QED  BY <1>3, <2>1, <2>2, <2>3, <2>4, <2>5, <2>6, <2>7 DEF Acquire
<1>4. ASSUME NEW h \in Hubs, Renew(h) PROVE TypeOK'
  <2>1. CASE StillHeld(h)
    <3>1. guarded' \in Guarded
      <4>1. [leader EXCEPT !.exp = now + TTL] \in Leader
        BY Constants, Times DEF TypeOK
      <4>. QED  BY <1>4, <2>1, <4>1, BeginWriteType DEF Renew, Threads
    <3>. QED  BY <1>4, <2>1, <3>1 DEF Renew, TypeOK, Guarded
  <2>2. CASE ~StillHeld(h)
    BY <1>4, <2>2 DEF Renew, TypeOK
  <2>. QED  BY <2>1, <2>2
<1>5. ASSUME NEW h \in Hubs, Release(h) PROVE TypeOK'
  <2>1. CASE MatchesIdentity(h, leader)
    <3>1. guarded' \in Guarded
      <4>1. [leader EXCEPT !.released = TRUE, !.exp = now - 1] \in Leader
        BY Constants, Times DEF TypeOK
      <4>. QED  BY <1>5, <2>1, <4>1, BeginWriteType DEF Release, Threads
    <3>. QED  BY <1>5, <2>1, <3>1 DEF Release, Goto, TypeOK, Guarded
  <2>2. CASE ~MatchesIdentity(h, leader)
    BY <1>5, <2>2 DEF Release, Goto, TypeOK
  <2>. QED  BY <2>1, <2>2
<1>6. ASSUME NEW h \in Hubs, Dies(h) PROVE TypeOK'
  BY <1>6, Constants DEF Dies, Goto, TypeOK
<1>7. ASSUME NEW h \in Hubs, NEW t \in Threads, WriteLeaderGuarded(h, t) PROVE TypeOK'
  <2>0. Begun(h, t) /\ UNCHANGED <<now, dir, receipt, epoch, fence, myEpoch, expected>>
    BY <1>7, WriteEffect
  <2>1. CASE Validated(h, t)
    <3>1. guarded' \in Guarded
      BY <2>1, WriteTypes DEF Validated, Advance, TypeOK, Guarded
    <3>. QED  BY <2>0, <2>1, <3>1 DEF Validated, TypeOK, Guarded
  <2>2. CASE Retired(h, t)
    <3>1. guarded' \in Guarded
      BY <2>2, WriteTypes DEF Retired, TypeOK, Guarded
    <3>. QED  BY <2>0, <2>2, <3>1, Constants DEF Retired, TypeOK, Guarded
  <2>3. CASE Checked(h, t)
    <3>1. guarded' \in Guarded
      BY <2>3, WriteTypes DEF Checked, Advance, TypeOK, Guarded
    <3>. QED  BY <2>0, <2>3, <3>1 DEF Checked, TypeOK, Guarded
  <2>4. CASE Published(h, t)
    <3>1. guarded[h][t].next \in Leader /\ guarded[h][t].next.exp \in -1 .. MaxTime + TTL
      BY DEF TypeOK, GuardedWrite, Leader
    <3>. QED  BY <2>0, <2>4, <3>1, EndsType DEF Published, TypeOK, Phase, Guarded
  <2>5. CASE Abandoned(h, t)
    <3>1. guarded' \in Guarded /\ pc' \in [Hubs -> Phase] /\ renewing' \subseteq Hubs
      BY <2>5, EndsType, CleansUpType DEF Abandoned, TypeOK
    <3>. QED  BY <2>0, <2>5, <3>1 DEF Abandoned, TypeOK, Phase, Guarded
  <2>. QED  BY <1>7, <2>1, <2>2, <2>3, <2>4, <2>5, WriteEffect
<1>. QED  BY <1>1, <1>2, <1>3, <1>4, <1>5, <1>6, <1>7 DEF Next

-------------------------------------------------------------------------------
(* The fence, the directory and the receipt: only the hub that acquires moves *)
(* them.                                                                      *)

\* where a guarded write leaves its hub
LEMMA WriteMoves ==
  ASSUME WriteInv, NEW h \in Hubs, NEW t \in Threads, WriteLeaderGuarded(h, t)
  PROVE  \/ pc' = pc
         \/ \E p \in {"cleanup", "committed", "giveUp"} :
              pc[h] \in {"commit", "cleanup"} /\ pc' = [pc EXCEPT ![h] = p]
         \/ pc[h] = "releasing" /\ pc' = [pc EXCEPT ![h] = "stopped"]
<1>1. t = "main" => pc[h] \in Writing
  BY WriteEffect DEF WriteInv
<1>2. Ends(h, t) \/ (CleansUp(h) /\ pc[h] = "commit") \/ pc' = pc
  <2>1. \/ Validated(h, t) \/ Retired(h, t) \/ Checked(h, t)
        \/ Published(h, t) \/ Abandoned(h, t)
    BY WriteEffect
  <2>2. CASE Validated(h, t) \/ Retired(h, t) \/ Checked(h, t)
    BY <2>2 DEF Validated, Retired, Checked
  <2>3. CASE Published(h, t) \/ Abandoned(h, t)
    BY <2>3 DEF Published, Abandoned
  <2>. QED  BY <2>1, <2>2, <2>3
<1>3. CASE Ends(h, t)
  <2>1. CASE t = "timer"
    BY <1>3, <2>1 DEF Ends
  <2>2. CASE t = "main"
    <3>1. \E p \in IF pc[h] = "releasing" THEN {"stopped"} ELSE {"committed", "giveUp"} :
            pc' = [pc EXCEPT ![h] = p]
      BY <1>3, <2>2 DEF Ends
    <3>. QED  BY <1>1, <2>2, <3>1 DEF Writing
  <2>. QED  BY <2>1, <2>2 DEF Threads
<1>4. CASE CleansUp(h) /\ pc[h] = "commit"
  BY <1>4 DEF CleansUp
<1>. QED  BY <1>2, <1>3, <1>4

\* Every step keeps the fence with the one that holds it.
LEMMA FenceStep == TypeOK /\ WriteInv /\ FenceInv /\ [Next]_vars => FenceInv'
<1>. SUFFICES ASSUME TypeOK, WriteInv, FenceInv, [Next]_vars PROVE FenceInv'
  OBVIOUS
<1>. USE LockAssumption DEF FenceInv, Clearing, Owning
<1>1. CASE UNCHANGED vars \/ Tick
  BY <1>1 DEF vars, Tick
<1>2. ASSUME NEW h \in Hubs, Acquire(h) PROVE FenceInv'
  <2>1. CASE Inspect(h)
    BY <2>1 DEF Inspect, Goto, TypeOK
  <2>2. CASE Quarantine(h)
    BY <2>2 DEF Quarantine, Goto, TypeOK
  <2>3. CASE Forget(h) \/ WriteReceipt(h) \/ MakeDirectory(h) \/ WriteProvisional(h)
    BY <2>3 DEF Forget, WriteReceipt, MakeDirectory, WriteProvisional, Goto, TypeOK
  <2>4. CASE IncrementEpoch(h)
    BY <2>4 DEF IncrementEpoch, Goto, TypeOK
  <2>5. CASE AcquireFails(h)
    BY <2>5 DEF AcquireFails, BeginCleanup, Goto, TypeOK
  <2>6. CASE EndAcquire(h)
    BY <2>6 DEF EndAcquire, Goto, TypeOK
  <2>. QED  BY <1>2, <2>1, <2>2, <2>3, <2>4, <2>5, <2>6 DEF Acquire
<1>3. ASSUME NEW h \in Hubs, Renew(h) \/ Release(h) PROVE FenceInv'
  BY <1>3 DEF Renew, Release, Goto, TypeOK
<1>4. ASSUME NEW h \in Hubs, Dies(h) PROVE FenceInv'
  BY <1>4 DEF Dies, Goto, TypeOK
<1>5. ASSUME NEW h \in Hubs, NEW t \in Threads, WriteLeaderGuarded(h, t) PROVE FenceInv'
  BY <1>5, WriteEffect, WriteMoves DEF TypeOK
<1>. QED  BY <1>1, <1>2, <1>3, <1>4, <1>5 DEF Next

\* Every step keeps the lock directory with the hub that made it.
LEMMA DirStep == TypeOK /\ WriteInv /\ FenceInv /\ DirInv /\ [Next]_vars => DirInv'
<1>. SUFFICES ASSUME TypeOK, WriteInv, FenceInv, DirInv, [Next]_vars PROVE DirInv'
  OBVIOUS
<1>. USE LockAssumption DEF DirInv, Looking, Clearing, Owning
<1>1. CASE UNCHANGED vars \/ Tick
  BY <1>1 DEF vars, Tick
<1>2. ASSUME NEW h \in Hubs, Acquire(h) PROVE DirInv'
  <2>1. CASE Inspect(h)
    BY <2>1 DEF Inspect, Goto, TypeOK, FenceInv
  <2>2. CASE Quarantine(h)
    BY <2>2 DEF Quarantine, Goto, TypeOK, FenceInv
  <2>3. CASE Forget(h) \/ WriteReceipt(h) \/ WriteProvisional(h)
    BY <2>3 DEF Forget, WriteReceipt, WriteProvisional, Goto, TypeOK
  <2>4. CASE MakeDirectory(h)
    BY <2>4 DEF MakeDirectory, Goto, TypeOK, FenceInv
  <2>5. CASE IncrementEpoch(h)
    BY <2>5 DEF IncrementEpoch, Goto, TypeOK
  <2>6. CASE AcquireFails(h)
    BY <2>6 DEF AcquireFails, BeginCleanup, Goto, TypeOK
  <2>7. CASE EndAcquire(h)
    BY <2>7 DEF EndAcquire, Goto, TypeOK
  <2>. QED  BY <1>2, <2>1, <2>2, <2>3, <2>4, <2>5, <2>6, <2>7 DEF Acquire
<1>3. ASSUME NEW h \in Hubs, Renew(h) \/ Release(h) PROVE DirInv'
  BY <1>3 DEF Renew, Release, Goto, TypeOK
<1>4. ASSUME NEW h \in Hubs, Dies(h) PROVE DirInv'
  BY <1>4 DEF Dies, Goto, TypeOK
<1>5. ASSUME NEW h \in Hubs, NEW t \in Threads, WriteLeaderGuarded(h, t) PROVE DirInv'
  BY <1>5, WriteEffect, WriteMoves DEF TypeOK
<1>. QED  BY <1>1, <1>2, <1>3, <1>4, <1>5 DEF Next

\* Every step keeps the receipt with the directory it names.
LEMMA ReceiptStep ==
  TypeOK /\ WriteInv /\ FenceInv /\ DirInv /\ ReceiptInv /\ [Next]_vars => ReceiptInv'
<1>. SUFFICES ASSUME TypeOK, WriteInv, FenceInv, DirInv, ReceiptInv, [Next]_vars PROVE ReceiptInv'
  OBVIOUS
<1>. USE LockAssumption DEF ReceiptInv
<1>1. CASE UNCHANGED vars \/ Tick
  BY <1>1 DEF vars, Tick
<1>2. ASSUME NEW h \in Hubs, Acquire(h) PROVE ReceiptInv'
  <2>1. CASE Inspect(h)
    BY <2>1 DEF Inspect, Goto, TypeOK
  <2>2. CASE Quarantine(h)
    BY <2>2 DEF Quarantine, Goto, TypeOK
  <2>3. CASE Forget(h) \/ WriteReceipt(h)
    BY <2>3 DEF Forget, WriteReceipt, Goto, TypeOK, FenceInv, DirInv, Clearing
  <2>4. CASE MakeDirectory(h) \/ WriteProvisional(h)
    BY <2>4 DEF MakeDirectory, WriteProvisional, Goto, TypeOK
  <2>5. CASE IncrementEpoch(h)
    BY <2>5 DEF IncrementEpoch, Goto, TypeOK
  <2>6. CASE AcquireFails(h)
    BY <2>6 DEF AcquireFails, BeginCleanup, Goto, TypeOK
  <2>7. CASE EndAcquire(h)
    BY <2>7 DEF EndAcquire, Goto, TypeOK, FenceInv, Clearing, Owning
  <2>. QED  BY <1>2, <2>1, <2>2, <2>3, <2>4, <2>5, <2>6, <2>7 DEF Acquire
<1>3. ASSUME NEW h \in Hubs, Renew(h) \/ Release(h) PROVE ReceiptInv'
  BY <1>3 DEF Renew, Release, Goto, TypeOK
<1>4. ASSUME NEW h \in Hubs, Dies(h) PROVE ReceiptInv'
  BY <1>4 DEF Dies, Goto, TypeOK
<1>5. ASSUME NEW h \in Hubs, NEW t \in Threads, WriteLeaderGuarded(h, t) PROVE ReceiptInv'
  BY <1>5, WriteEffect, WriteMoves DEF TypeOK
<1>. QED  BY <1>1, <1>2, <1>3, <1>4, <1>5 DEF Next

-------------------------------------------------------------------------------
(* The guarded writes.                                                        *)

\* Every step keeps a guarded write with the directory it was begun in.
LEMMA WriteStep == TypeOK /\ DirInv /\ LeaderInv /\ WriteInv /\ [Next]_vars => WriteInv'
<1>. SUFFICES ASSUME TypeOK, DirInv, LeaderInv, WriteInv, [Next]_vars PROVE WriteInv'
  OBVIOUS
<1>. USE LockAssumption DEF Begun, Writing
<1>0. /\ NoWrite.step = "none" /\ NoLeader.hub = NoHub
      /\ \A h \in Hubs : leader.hub = h => leader # NoLeader
  BY DEF NoWrite, NoLeader
<1>1. CASE UNCHANGED vars \/ Tick
  BY <1>1 DEF vars, Tick, WriteInv
<1>2. ASSUME NEW h \in Hubs, Acquire(h) PROVE WriteInv'
  <2>1. CASE Inspect(h) \/ Quarantine(h)
    <3>1. /\ pc[h] \in Looking /\ \E p \in Looking \cup Clearing : pc' = [pc EXCEPT ![h] = p]
          /\ UNCHANGED <<guarded, myEpoch, renewing>>
      BY <2>1 DEF Inspect, Quarantine, Goto, Looking, Clearing
    <3>. QED  BY <3>1 DEF Looking, Clearing, TypeOK, WriteInv
  <2>2. CASE Forget(h) \/ WriteReceipt(h) \/ MakeDirectory(h) \/ WriteProvisional(h)
    BY <2>2 DEF Forget, WriteReceipt, MakeDirectory, WriteProvisional, Goto, TypeOK, WriteInv
  <2>3. CASE IncrementEpoch(h)
    <3>0. dir = h /\ pc[h] = "epoch"
      BY <2>3 DEF IncrementEpoch, DirInv, Owning
    <3>1. /\ pc' = [pc EXCEPT ![h] = "commit"] /\ UNCHANGED renewing
          /\ myEpoch' = [myEpoch EXCEPT ![h] = epoch + 1]
          /\ guarded' = [guarded EXCEPT ![h]["main"] =
               [step |-> "temp", dir |-> h, retired |-> NoLeader,
                next |-> [hub |-> h, epoch |-> epoch + 1, exp |-> now + TTL, init |-> FALSE, released |-> FALSE]]]
      BY <2>3, <3>0 DEF IncrementEpoch, Goto, BeginWrite
    <3>2. ~Begun(h, "timer")
      BY <3>0 DEF WriteInv
    <3>. QED  BY <3>0, <3>1, <3>2 DEF TypeOK, WriteInv, Threads
  <2>4. CASE AcquireFails(h)
    <3>0. dir = h /\ pc[h] \in {"provisional", "epoch"} /\ ~Begun(h, "main") /\ ~Begun(h, "timer")
      BY <2>4 DEF AcquireFails, DirInv, Owning, WriteInv
    <3>1. CASE leader.hub = h
      <4>1. /\ pc' = [pc EXCEPT ![h] = "cleanup"] /\ UNCHANGED <<renewing, myEpoch>>
            /\ guarded' = [guarded EXCEPT ![h]["main"] =
                 [step |-> "temp", dir |-> h, next |-> [leader EXCEPT !.init = FALSE, !.exp = now - 1], retired |-> NoLeader]]
        BY <2>4, <3>0, <3>1 DEF AcquireFails, BeginCleanup, BeginWrite, Goto
      <4>2. leader.epoch \in {0, myEpoch[h]}
        BY <1>0, <3>0, <3>1 DEF LeaderInv
      <4>3. LET n == [leader EXCEPT !.init = FALSE, !.exp = now - 1]
            IN  n.hub = h /\ n.epoch = leader.epoch /\ ~n.init
        BY <3>1 DEF TypeOK, Leader
      <4>. QED  BY <3>0, <4>1, <4>2, <4>3 DEF TypeOK, WriteInv, Threads
    <3>2. CASE leader.hub # h
      <4>1. /\ pc' = [pc EXCEPT ![h] = "giveUp"] /\ UNCHANGED <<renewing, myEpoch>>
            /\ guarded' = [guarded EXCEPT ![h]["main"] = NoWrite]
        BY <2>4, <3>2 DEF AcquireFails, BeginCleanup, Goto
      <4>. QED  BY <1>0, <3>0, <4>1 DEF TypeOK, WriteInv, Threads
    <3>. QED  BY <3>1, <3>2
  <2>5. CASE EndAcquire(h)
    <3>1. UNCHANGED <<guarded, myEpoch>>
      BY <2>5 DEF EndAcquire
    <3>2. CASE pc[h] = "committed"
      <4>1. pc' = [pc EXCEPT ![h] = "leading"] /\ renewing' = renewing \cup {h}
        BY <2>5, <3>2 DEF EndAcquire, Goto
      <4>. QED  BY <3>1, <3>2, <4>1 DEF TypeOK, WriteInv
    <3>3. CASE pc[h] = "giveUp"
      <4>1. pc' = [pc EXCEPT ![h] = "stopped"] /\ renewing' = renewing
        BY <2>5, <3>3 DEF EndAcquire, Goto
      <4>. QED  BY <3>1, <3>3, <4>1 DEF TypeOK, WriteInv
    <3>. QED  BY <2>5, <3>2, <3>3 DEF EndAcquire
  <2>. QED  BY <1>2, <2>1, <2>2, <2>3, <2>4, <2>5 DEF Acquire
<1>3. ASSUME NEW h \in Hubs, Renew(h) PROVE WriteInv'
  <2>1. CASE StillHeld(h)
    <3>1. dir = h /\ leader.hub = h /\ leader.epoch = myEpoch[h] /\ ~leader.init
      BY <1>0, <2>1 DEF StillHeld, IsCurrentLeader, MatchesIdentity, LeaderInv, TypeOK
    <3>2. /\ UNCHANGED <<pc, renewing, myEpoch>> /\ pc[h] = "leading"
          /\ guarded' = [guarded EXCEPT ![h]["timer"] =
               [step |-> "temp", dir |-> h, next |-> [leader EXCEPT !.exp = now + TTL], retired |-> NoLeader]]
      BY <1>3, <2>1, <3>1 DEF Renew, BeginWrite, WriteInv
    <3>3. LET n == [leader EXCEPT !.exp = now + TTL]
          IN  n.hub = h /\ n.epoch = leader.epoch /\ ~n.init
      BY <3>1 DEF TypeOK, Leader
    <3>. QED  BY <3>1, <3>2, <3>3 DEF TypeOK, WriteInv, Threads
  <2>2. CASE ~StillHeld(h)
    BY <1>3, <2>2 DEF Renew, WriteInv
  <2>. QED  BY <2>1, <2>2
<1>4. ASSUME NEW h \in Hubs, Release(h) PROVE WriteInv'
  <2>1. CASE MatchesIdentity(h, leader)
    <3>1. dir = h /\ leader.hub = h /\ leader.epoch = myEpoch[h] /\ ~leader.init
      BY <1>0, <2>1 DEF MatchesIdentity, LeaderInv, TypeOK
    <3>2. /\ pc' = [pc EXCEPT ![h] = "releasing"] /\ pc[h] = "leading"
          /\ renewing' = renewing \ {h} /\ UNCHANGED myEpoch
          /\ guarded' = [guarded EXCEPT ![h]["main"] =
               [step |-> "temp", dir |-> h, next |-> [leader EXCEPT !.released = TRUE, !.exp = now - 1], retired |-> NoLeader]]
      BY <1>4, <2>1, <3>1 DEF Release, BeginWrite, Goto
    <3>3. LET n == [leader EXCEPT !.released = TRUE, !.exp = now - 1]
          IN  n.hub = h /\ n.epoch = leader.epoch /\ ~n.init
      BY <3>1 DEF TypeOK, Leader
    <3>. QED  BY <3>1, <3>2, <3>3 DEF TypeOK, WriteInv, Threads
  <2>2. CASE ~MatchesIdentity(h, leader)
    <3>1. /\ pc' = [pc EXCEPT ![h] = "stopped"] /\ pc[h] = "leading"
          /\ renewing' = renewing \ {h} /\ UNCHANGED <<guarded, myEpoch>>
      BY <1>4, <2>2 DEF Release, Goto
    <3>. QED  BY <3>1 DEF TypeOK, WriteInv
  <2>. QED  BY <2>1, <2>2
<1>5. ASSUME NEW h \in Hubs, Dies(h) PROVE WriteInv'
  BY <1>0, <1>5 DEF Dies, Goto, TypeOK, WriteInv, Threads
<1>6. ASSUME NEW h \in Hubs, NEW t \in Threads, WriteLeaderGuarded(h, t) PROVE WriteInv'
  <2>0. Begun(h, t) /\ UNCHANGED myEpoch
    BY <1>6, WriteEffect
  <2>1. CASE Validated(h, t)
    BY <2>0, <2>1 DEF Validated, Advance, TypeOK, GuardedWrite, WriteInv
  <2>2. CASE Retired(h, t)
    BY <2>0, <2>2 DEF Retired, TypeOK, GuardedWrite, WriteInv
  <2>3. CASE Checked(h, t)
    BY <2>0, <2>3 DEF Checked, Advance, TypeOK, GuardedWrite, WriteInv
  <2>4. CASE Ends(h, t)
    <3>1. CASE t = "timer"
      BY <1>0, <2>0, <2>4, <3>1 DEF Ends, TypeOK, WriteInv, Threads
    <3>2. CASE t = "main"
      BY <1>0, <2>0, <2>4, <3>2 DEF Ends, TypeOK, WriteInv, Threads
    <3>. QED  BY <3>1, <3>2 DEF Threads
  <2>5. CASE t = "main" /\ pc[h] = "commit" /\ CleansUp(h) /\ UNCHANGED renewing
    <3>0. dir = h /\ ~Begun(h, "timer")
      BY <2>5 DEF DirInv, Owning, WriteInv
    <3>1. leader.hub = h /\ leader.epoch \in {0, myEpoch[h]}
      BY <1>0, <2>5, <3>0 DEF CleansUp, LeaderInv
    <3>2. /\ pc' = [pc EXCEPT ![h] = "cleanup"]
          /\ guarded' = [guarded EXCEPT ![h]["main"] =
               [step |-> "temp", dir |-> h, next |-> [leader EXCEPT !.init = FALSE, !.exp = now - 1], retired |-> NoLeader]]
      BY <2>5, <3>0 DEF CleansUp, BeginWrite
    <3>3. LET n == [leader EXCEPT !.init = FALSE, !.exp = now - 1]
          IN  n.hub = h /\ n.epoch = leader.epoch /\ ~n.init
      BY <3>1 DEF TypeOK, Leader
    <3>. QED  BY <2>0, <2>5, <3>0, <3>1, <3>2, <3>3 DEF TypeOK, WriteInv, Threads
  <2>. QED
    BY <1>6, <2>1, <2>2, <2>3, <2>4, <2>5, WriteEffect DEF Published, Abandoned
<1>. QED  BY <1>1, <1>2, <1>3, <1>4, <1>5, <1>6 DEF Next

-------------------------------------------------------------------------------
(* Epochs and leader.json.                                                    *)

\* Every step keeps epochs below the counter, and apart.
LEMMA EpochStep ==
  TypeOK /\ WriteInv /\ DirInv /\ EpochInv /\ EpochsUnique /\ [Next]_vars => EpochInv' /\ EpochsUnique'
<1>. SUFFICES ASSUME TypeOK, WriteInv, DirInv, EpochInv, EpochsUnique, [Next]_vars
              PROVE  EpochInv' /\ EpochsUnique'
  OBVIOUS
<1>. USE LockAssumption DEF EpochInv, EpochsUnique, Unnumbered, Looking, Clearing
<1>1. CASE UNCHANGED vars \/ Tick
  BY <1>1 DEF vars, Tick
<1>2. ASSUME NEW h \in Hubs, Acquire(h) PROVE EpochInv' /\ EpochsUnique'
  <2>1. CASE Inspect(h)
    BY <2>1 DEF Inspect, Goto, TypeOK
  <2>2. CASE Quarantine(h)
    BY <2>2 DEF Quarantine, Goto, TypeOK
  <2>3. CASE Forget(h) \/ WriteReceipt(h) \/ MakeDirectory(h) \/ WriteProvisional(h)
    BY <2>3 DEF Forget, WriteReceipt, MakeDirectory, WriteProvisional, Goto, TypeOK
  <2>4. CASE IncrementEpoch(h)
    <3>1. dir = h
      BY <2>4 DEF IncrementEpoch, DirInv, Owning
    <3>. QED  BY <2>4, <3>1 DEF IncrementEpoch, Goto, TypeOK
  <2>5. CASE AcquireFails(h)
    BY <2>5 DEF AcquireFails, BeginCleanup, Goto, TypeOK
  <2>6. CASE EndAcquire(h)
    BY <2>6 DEF EndAcquire, Goto, TypeOK
  <2>. QED  BY <1>2, <2>1, <2>2, <2>3, <2>4, <2>5, <2>6 DEF Acquire
<1>3. ASSUME NEW h \in Hubs, Renew(h) \/ Release(h) \/ Dies(h) PROVE EpochInv' /\ EpochsUnique'
  BY <1>3 DEF Renew, Release, Dies, Goto, TypeOK
<1>4. ASSUME NEW h \in Hubs, NEW t \in Threads, WriteLeaderGuarded(h, t)
      PROVE  EpochInv' /\ EpochsUnique'
  BY <1>4, WriteEffect, WriteMoves DEF TypeOK
<1>. QED  BY <1>1, <1>2, <1>3, <1>4 DEF Next

\* Every step keeps the leader record to what was committed.
LEMMA LeaderStep ==
  TypeOK /\ WriteInv /\ DirInv /\ EpochInv /\ LeaseInv /\ LeaderInv /\ [Next]_vars => LeaderInv'
<1>. SUFFICES ASSUME TypeOK, WriteInv, DirInv, EpochInv, LeaseInv, LeaderInv, [Next]_vars
              PROVE  LeaderInv'
  OBVIOUS
<1>. USE LockAssumption DEF LeaderInv
<1>1. CASE UNCHANGED vars \/ Tick
  BY <1>1 DEF vars, Tick
<1>2. ASSUME NEW h \in Hubs, Acquire(h) PROVE LeaderInv'
  <2>1. CASE Inspect(h) \/ Forget(h) \/ WriteReceipt(h) \/ EndAcquire(h) \/ AcquireFails(h)
    BY <2>1 DEF Inspect, Forget, WriteReceipt, EndAcquire, AcquireFails
  <2>2. CASE Quarantine(h)
    BY <2>2 DEF Quarantine
  <2>3. CASE MakeDirectory(h)
    BY <2>3 DEF MakeDirectory
  <2>4. CASE WriteProvisional(h)
    <3>1. dir = h /\ lease[h] = -1
      BY <2>4 DEF WriteProvisional, DirInv, Owning, LeaseInv, Unnumbered
    <3>. QED  BY <2>4, <3>1 DEF WriteProvisional
  <2>5. CASE IncrementEpoch(h)
    <3>1. dir = h /\ myEpoch[h] = 0
      BY <2>5 DEF IncrementEpoch, DirInv, Owning, EpochInv, Unnumbered
    <3>. QED  BY <2>5, <3>1 DEF IncrementEpoch, TypeOK
  <2>. QED  BY <1>2, <2>1, <2>2, <2>3, <2>4, <2>5 DEF Acquire
<1>3. ASSUME NEW h \in Hubs, Renew(h) \/ Release(h) \/ Dies(h) PROVE LeaderInv'
  BY <1>3 DEF Renew, Release, Dies
<1>4. ASSUME NEW h \in Hubs, NEW t \in Threads, WriteLeaderGuarded(h, t) PROVE LeaderInv'
  <2>0. Begun(h, t) /\ UNCHANGED <<dir, myEpoch>>
    BY <1>4, WriteEffect
  <2>1. CASE Published(h, t)
    <3>1. LET n == guarded[h][t].next
          IN  n.hub = h /\ n.epoch \in {0, myEpoch[h]} /\ ~n.init
      BY <2>0 DEF WriteInv
    <3>. QED  BY <2>0, <2>1, <3>1 DEF Published, TypeOK
  <2>2. CASE Validated(h, t) \/ Checked(h, t) \/ Abandoned(h, t)
    BY <2>0, <2>2 DEF Validated, Checked, Abandoned
  <2>3. CASE Retired(h, t)
    BY <2>3 DEF Retired
  <2>. QED  BY <1>4, <2>1, <2>2, <2>3, WriteEffect
<1>. QED  BY <1>1, <1>2, <1>3, <1>4 DEF Next

\* The committed leader is the newest epoch.
LEMMA NewestCommitted == TypeOK /\ EpochInv /\ LeaderInv => CommittedIsNewest
<1>. SUFFICES ASSUME TypeOK, EpochInv, LeaderInv, leader.epoch > 0 PROVE leader.epoch = epoch
  BY DEF CommittedIsNewest
<1>1. leader # NoLeader
  BY DEF NoLeader
<1>. QED  BY <1>1, LockAssumption DEF EpochInv, LeaderInv

-------------------------------------------------------------------------------
(* Leases.                                                                    *)

\* Beginning a write puts nobody in the middle of one.
LEMMA BeginWriteMid ==
  ASSUME TypeOK, NEW h \in Hubs, NEW t \in Threads, NEW rec, BeginWrite(h, t, rec), UNCHANGED dir
  PROVE  \A g \in Hubs, u \in Threads : Mid(g, u)' => Mid(g, u)
<1>. SUFFICES ASSUME NEW g \in Hubs, NEW u \in Threads, Mid(g, u)' PROVE Mid(g, u)
  OBVIOUS
<1>1. guarded[g] \in [Threads -> GuardedWrite] /\ guarded[h] \in [Threads -> GuardedWrite]
  BY DEF TypeOK
<1>2. CASE g = h /\ u = t
  BY <1>1, <1>2 DEF BeginWrite, Mid, TypeOK
<1>3. CASE ~(g = h /\ u = t)
  BY <1>1, <1>3 DEF BeginWrite, Mid, TypeOK
<1>. QED  BY <1>2, <1>3

\* Only the thread that begins a write has begun it.
LEMMA BegunOnly ==
  ASSUME TypeOK, NEW h \in Hubs, NEW t \in Threads, NEW rec,
         BeginWrite(h, t, rec) \/ UNCHANGED guarded
  PROVE  \A g \in Hubs, u \in Threads :
           guarded'[g][u] = guarded[g][u] \/ guarded'[g][u].step \notin {"retired", "checked"}
BY DEF BeginWrite, TypeOK

\* Every step keeps the two threads of a hub from writing in the same instant.
LEMMA MidStep == TypeOK /\ WriteInv /\ DirInv /\ MidInv /\ [Next]_vars => MidInv'
<1>. SUFFICES ASSUME TypeOK, WriteInv, DirInv, MidInv, [Next]_vars PROVE MidInv'
  OBVIOUS
<1>. USE LockAssumption
<1>1. ASSUME UNCHANGED dir, leader' = NoLeader \/ leader' = leader,
             \A h \in Hubs, t \in Threads : Mid(h, t)' => Mid(h, t)
      PROVE  MidInv'
  BY <1>1 DEF MidInv
<1>2. CASE UNCHANGED vars \/ Tick
  BY <1>1, <1>2 DEF vars, Tick, Mid
<1>3. ASSUME NEW h \in Hubs, Acquire(h) PROVE MidInv'
  <2>1. CASE Inspect(h) \/ Forget(h) \/ WriteReceipt(h) \/ EndAcquire(h)
    BY <1>1, <2>1 DEF Inspect, Forget, WriteReceipt, EndAcquire, Mid
  <2>2. CASE Quarantine(h)
    BY <2>2 DEF Quarantine, MidInv, Mid
  <2>3. CASE MakeDirectory(h) \/ WriteProvisional(h)
    <3>1. /\ UNCHANGED guarded /\ dir' = h
          /\ \A t \in Threads : ~Begun(h, t)
      BY <2>3 DEF MakeDirectory, WriteProvisional, DirInv, Owning, WriteInv, Writing, Threads
    <3>. QED  BY <3>1 DEF MidInv, Mid, Begun
  <2>4. CASE IncrementEpoch(h)
    <3>1. \A g \in Hubs, t \in Threads : Mid(g, t)' => Mid(g, t)
      BY <2>4, BeginWriteMid DEF IncrementEpoch, Threads
    <3>. QED  BY <1>1, <2>4, <3>1 DEF IncrementEpoch
  <2>5. CASE AcquireFails(h)
    <3>1. \A g \in Hubs, t \in Threads : Mid(g, t)' => Mid(g, t)
      <4>1. CASE leader.hub = h
        BY <2>5, <4>1, BeginWriteMid DEF AcquireFails, BeginCleanup, Threads
      <4>2. CASE leader.hub # h
        BY <2>5, <4>2 DEF AcquireFails, BeginCleanup, NoWrite, Mid, TypeOK
      <4>. QED  BY <4>1, <4>2
    <3>. QED  BY <1>1, <2>5, <3>1 DEF AcquireFails
  <2>. QED  BY <1>3, <2>1, <2>2, <2>3, <2>4, <2>5 DEF Acquire
<1>4. ASSUME NEW h \in Hubs, Renew(h) \/ Release(h) PROVE MidInv'
  <2>1. \A g \in Hubs, t \in Threads : Mid(g, t)' => Mid(g, t)
    BY <1>4, BeginWriteMid DEF Renew, Release, Mid, Threads
  <2>. QED  BY <1>1, <1>4, <2>1 DEF Renew, Release
<1>5. ASSUME NEW h \in Hubs, Dies(h) PROVE MidInv'
  <2>1. \A g \in Hubs, t \in Threads : Mid(g, t)' => Mid(g, t)
    BY <1>5 DEF Dies, NoWrite, Mid, TypeOK
  <2>. QED  BY <1>1, <1>5, <2>1 DEF Dies
<1>6. ASSUME NEW h \in Hubs, NEW t \in Threads, WriteLeaderGuarded(h, t) PROVE MidInv'
  <2>0. UNCHANGED dir
    BY <1>6, WriteEffect
  <2>1. CASE Validated(h, t) \/ Checked(h, t)
    <3>1. \A g \in Hubs, u \in Threads : Mid(g, u)' => Mid(g, u)
      <4>1. SUFFICES ASSUME NEW g \in Hubs, NEW u \in Threads, Mid(g, u)' PROVE Mid(g, u)
        OBVIOUS
      <4>2. CASE g = h /\ u = t
        <5>1. guarded[h][t] \in GuardedWrite
          BY DEF TypeOK
        <5>2. guarded'[h][t].step = "checked" => guarded[h][t].step = "retired"
          BY <2>1, <5>1 DEF Validated, Checked, Advance, TypeOK, GuardedWrite
        <5>3. guarded'[h][t].step \in {"validated", "checked"}
          BY <2>1, <5>1 DEF Validated, Checked, Advance, TypeOK, GuardedWrite
        <5>. QED  BY <2>0, <4>1, <4>2, <5>2, <5>3 DEF Mid
      <4>3. CASE ~(g = h /\ u = t)
        BY <2>0, <2>1, <4>1, <4>3 DEF Validated, Checked, Advance, Mid, TypeOK
      <4>. QED  BY <4>2, <4>3
    <3>. QED  BY <1>1, <2>0, <2>1, <3>1 DEF Validated, Checked
  <2>2. CASE Retired(h, t)
    <3>1. /\ leader' = NoLeader
          /\ \A g \in Hubs, u \in Threads : ~Mid(g, u)
      BY <2>2 DEF Retired, MidInv
    <3>2. \A g \in Hubs, u \in Threads : Mid(g, u)' => g = h /\ u = t
      BY <2>0, <2>2, <3>1 DEF Retired, Mid, TypeOK
    <3>. QED  BY <3>1, <3>2 DEF MidInv
  <2>3. CASE Ends(h, t) /\ UNCHANGED leader
    <3>1. \A g \in Hubs, u \in Threads : Mid(g, u)' => Mid(g, u)
      BY <2>0, <2>3 DEF Ends, NoWrite, Mid, TypeOK
    <3>. QED  BY <1>1, <2>0, <2>3, <3>1
  <2>4. CASE CleansUp(h) /\ UNCHANGED leader
    <3>1. \A g \in Hubs, u \in Threads : Mid(g, u)' => Mid(g, u)
      BY <2>0, <2>4, BeginWriteMid DEF CleansUp, Threads
    <3>. QED  BY <1>1, <2>0, <2>4, <3>1
  <2>5. CASE Published(h, t)
    <3>1. \A g \in Hubs, u \in Threads : Mid(g, u)' => Mid(g, u) /\ ~(g = h /\ u = t)
      BY <2>0, <2>5 DEF Published, Ends, NoWrite, Mid, TypeOK
    <3>2. Mid(h, t)
      BY <2>5 DEF Published, Mid
    <3>3. \A g \in Hubs, u \in Threads : ~Mid(g, u)'
      BY <3>1, <3>2 DEF MidInv, Mid
    <3>. QED  BY <3>3 DEF MidInv
  <2>. QED  BY <1>6, <2>1, <2>2, <2>3, <2>4, <2>5, WriteEffect DEF Abandoned
<1>. QED  BY <1>2, <1>3, <1>4, <1>5, <1>6 DEF Next

\* Every step keeps running leases with the present directory.
LEMMA LeaseStep ==
  TypeOK /\ WriteInv /\ DirInv /\ QuarantineInv /\ LeaseInv /\ [Next]_vars => LeaseInv'
<1>. SUFFICES ASSUME TypeOK, WriteInv, DirInv, QuarantineInv, LeaseInv, [Next]_vars
              PROVE  LeaseInv'
  OBVIOUS
<1>. USE LockAssumption DEF LeaseInv, Unnumbered, Looking, Clearing
<1>1. CASE UNCHANGED vars
  BY <1>1 DEF vars, Leased, Dead
<1>2. CASE Tick
  BY <1>2 DEF Tick, Leased, Dead, TypeOK
<1>3. ASSUME NEW h \in Hubs, Acquire(h) PROVE LeaseInv'
  <2>1. CASE Inspect(h) \/ Forget(h) \/ WriteReceipt(h)
    BY <2>1 DEF Inspect, Forget, WriteReceipt, Goto, Leased, Dead, TypeOK
  <2>2. CASE Quarantine(h)
    <3>1. \A g \in Hubs : ~Leased(g)
      BY <2>2 DEF Quarantine, QuarantineInv, LockIsFree
    <3>. QED  BY <2>2, <3>1 DEF Quarantine, Goto, Leased, Dead, TypeOK
  <2>3. CASE MakeDirectory(h)
    <3>1. \A g \in Hubs : ~Leased(g)
      BY <2>3 DEF MakeDirectory
    <3>. QED  BY <2>3, <3>1 DEF MakeDirectory, Goto, Leased, Dead, TypeOK
  <2>4. CASE WriteProvisional(h) \/ IncrementEpoch(h) \/ EndAcquire(h)
    BY <2>4 DEF WriteProvisional, IncrementEpoch, EndAcquire, Goto, Leased, Dead, TypeOK
  <2>5. CASE AcquireFails(h)
    BY <2>5 DEF AcquireFails, BeginCleanup, Goto, Leased, Dead, TypeOK
  <2>. QED  BY <1>3, <2>1, <2>2, <2>3, <2>4, <2>5 DEF Acquire
<1>4. ASSUME NEW h \in Hubs, Renew(h) \/ Release(h) \/ Dies(h) PROVE LeaseInv'
  BY <1>4 DEF Renew, Release, Dies, Goto, Leased, Dead, TypeOK
<1>5. ASSUME NEW h \in Hubs, NEW t \in Threads, WriteLeaderGuarded(h, t) PROVE LeaseInv'
  <2>0. Begun(h, t) /\ UNCHANGED <<dir, now>>
    BY <1>5, WriteEffect
  <2>1. CASE UNCHANGED lease
    BY <1>5, <2>0, <2>1, WriteMoves DEF Leased, Dead, TypeOK
  <2>2. CASE Published(h, t)
    <3>1. dir = h /\ pc[h] \notin Unnumbered \cup {"dead"}
      BY <2>0, <2>2 DEF Published, WriteInv, Writing, Threads
    <3>2. \A g \in Hubs : g # h => lease'[g] = lease[g] /\ pc'[g] = pc[g]
      BY <1>5, <2>2, WriteMoves DEF Published, TypeOK
    <3>3. pc'[h] \notin Unnumbered
      BY <1>5, <3>1, WriteMoves DEF TypeOK
    <3>. QED  BY <2>0, <3>1, <3>2, <3>3 DEF Leased, Dead
  <2>. QED
    BY <1>5, <2>1, <2>2, WriteEffect DEF Validated, Retired, Checked, Abandoned
<1>. QED  BY <1>1, <1>2, <1>3, <1>4, <1>5 DEF Next

\* There is one lock directory, and so one running lease.
LEMMA OneLease == TypeOK /\ LeaseInv => LeaseExclusion
BY DEF LeaseInv, LeaseExclusion

\* A contender decides to move the lock away: the lease it saw has ended, or
\* the hub that was acquiring is dead, and no write is half way.
LEMMA InspectSafe ==
  ASSUME TypeOK, WriteInv, ReceiptInv, LeaderInv, MidInv, LeaseInv, NEW h \in Hubs, Inspect(h),
         pc'[h] = "quarantine"
  PROVE  LockIsFree
<1>. USE LockAssumption
<1>1. CASE leader # NoLeader /\ Expired(leader)
  <2>1. dir \in Hubs /\ (lease[dir] = -1 \/ leader.exp = lease[dir])
    BY <1>1 DEF LeaderInv
  <2>2. ~Leased(dir)
    BY <1>1, <2>1 DEF Leased, Expired, TypeOK
  <2>3. \A g \in Hubs, t \in Threads : ~Mid(g, t)
    BY <1>1 DEF MidInv
  <2>. QED  BY <1>1, <2>2, <2>3 DEF LeaseInv, LockIsFree, Mid
<1>2. CASE leader = NoLeader /\ receipt # NoHub /\ Dead(receipt) /\ dir # NoHub
  <2>1. dir = receipt /\ dir \in Hubs /\ Dead(dir)
    BY <1>2 DEF ReceiptInv, TypeOK
  <2>2. \A t \in Threads : guarded[dir][t].step = "none"
    BY <2>1 DEF WriteInv, Begun, Dead, Writing, Threads
  <2>. QED  BY <1>2, <2>1, <2>2 DEF LeaseInv, Leased, LockIsFree
<1>. QED
  BY <1>1, <1>2 DEF Inspect, Goto, TypeOK

\* Every step keeps a lock from being moved away under a live lease.
LEMMA QuarantineStep ==
  /\ TypeOK /\ WriteInv /\ FenceInv /\ ReceiptInv /\ LeaderInv /\ MidInv /\ LeaseInv
  /\ QuarantineInv /\ [Next]_vars
  => QuarantineInv'
<1>. SUFFICES ASSUME TypeOK, WriteInv, FenceInv, ReceiptInv, LeaderInv, MidInv, LeaseInv,
                     QuarantineInv, [Next]_vars, NEW q \in Hubs, pc'[q] = "quarantine"
              PROVE  LockIsFree'
  BY DEF QuarantineInv
<1>. USE LockAssumption
<1>1. ASSUME LockIsFree, now' \in {now, now + 1}, UNCHANGED <<dir, leader, lease>>,
             \A g \in Hubs : Dead(g) => Dead(g)',
             \A g \in Hubs, t \in Threads :
               guarded'[g][t] = guarded[g][t] \/ guarded'[g][t].step \notin {"retired", "checked"}
      PROVE  LockIsFree'
  <2>0. now \in Int /\ now' \in Int /\ leader.exp \in Int
        /\ \A g \in Hubs : lease[g] \in Int
        /\ \A k \in Hubs, t \in Threads : guarded[k][t].retired.exp \in Int
    BY <1>1 DEF TypeOK, Leader, GuardedWrite
  <2>1. leader' # NoLeader => Expired(leader)'
    BY <1>1, <2>0 DEF LockIsFree, Expired
  <2>2. \A g \in Hubs : ~Leased(g)'
    BY <1>1, <2>0 DEF LockIsFree, Leased
  <2>3. \A g \in Hubs, t \in Threads : dir' = g =>
          /\ guarded'[g][t].step # "checked"
          /\ guarded'[g][t].step = "retired" => Expired(guarded[g][t].retired)'
    BY <1>1, <2>0 DEF LockIsFree, Expired
  <2>. QED  BY <2>1, <2>2, <2>3 DEF LockIsFree
<1>2. CASE UNCHANGED vars
  BY <1>1, <1>2 DEF vars, Dead, QuarantineInv
<1>3. CASE Tick
  BY <1>1, <1>3 DEF Tick, Dead, QuarantineInv
<1>4. ASSUME NEW h \in Hubs, Acquire(h) PROVE LockIsFree'
  <2>1. Inspect(h) /\ h = q
    <3>1. pc[q] = "quarantine" <=> fence = q /\ pc[q] = "quarantine"
      BY DEF FenceInv
    <3>2. CASE Inspect(h)
      BY <3>1, <3>2 DEF Inspect, Goto, TypeOK
    <3>3. CASE ~Inspect(h)
      <4>1. fence = h /\ pc'[h] # "quarantine" /\ \A g \in Hubs : g # h => pc'[g] = pc[g]
        BY <1>4, <3>3 DEF FenceInv, Clearing, Owning, Acquire, Quarantine, Forget, WriteReceipt, MakeDirectory,
           WriteProvisional, IncrementEpoch, AcquireFails, BeginCleanup, EndAcquire, Goto, TypeOK
      <4>. QED  BY <3>1, <4>1
    <3>. QED  BY <3>2, <3>3
  <2>2. LockIsFree
    BY <2>1, InspectSafe
  <2>3. UNCHANGED <<now, dir, leader, lease, guarded>> /\ \A g \in Hubs : Dead(g) => Dead(g)'
    BY <2>1 DEF Inspect, Goto, Dead, TypeOK
  <2>. QED  BY <1>1, <2>2, <2>3
<1>5. ASSUME NEW h \in Hubs, Renew(h) \/ Release(h) PROVE LockIsFree'
  <2>1. /\ UNCHANGED <<now, dir, leader, lease>> /\ pc[q] = "quarantine"
        /\ \A g \in Hubs : Dead(g) => Dead(g)'
    BY <1>5 DEF Renew, Release, Goto, Dead, TypeOK
  <2>2. \A g \in Hubs, t \in Threads :
          guarded'[g][t] = guarded[g][t] \/ guarded'[g][t].step \notin {"retired", "checked"}
    BY <1>5, BegunOnly DEF Renew, Release, Threads
  <2>. QED  BY <1>1, <2>1, <2>2 DEF QuarantineInv
<1>6. ASSUME NEW h \in Hubs, Dies(h) PROVE LockIsFree'
  <2>1. /\ UNCHANGED <<now, dir, leader, lease>> /\ pc[q] = "quarantine"
        /\ \A g \in Hubs : Dead(g) => Dead(g)'
    BY <1>6 DEF Dies, Goto, Dead, TypeOK
  <2>2. \A g \in Hubs, t \in Threads :
          guarded'[g][t] = guarded[g][t] \/ guarded'[g][t].step \notin {"retired", "checked"}
    BY <1>6 DEF Dies, NoWrite, TypeOK
  <2>. QED  BY <1>1, <2>1, <2>2 DEF QuarantineInv
<1>7. ASSUME NEW h \in Hubs, NEW t \in Threads, WriteLeaderGuarded(h, t) PROVE LockIsFree'
  <2>0. /\ Begun(h, t) /\ UNCHANGED <<now, dir>> /\ pc[q] = "quarantine"
        /\ \A g \in Hubs : Dead(g) => Dead(g)'
    BY <1>7, WriteEffect, WriteMoves DEF Dead, TypeOK
  <2>1. LockIsFree
    BY <2>0 DEF QuarantineInv
  <2>2. ~Acquiring(h, t)
    BY <2>0 DEF Acquiring, FenceInv, Owning
  <2>3. CASE Validated(h, t)
    <3>1. \A g \in Hubs, u \in Threads :
            guarded'[g][u] = guarded[g][u] \/ guarded'[g][u].step \notin {"retired", "checked"}
      BY <2>3 DEF Validated, Advance, TypeOK, GuardedWrite
    <3>. QED  BY <1>1, <2>0, <2>1, <2>3, <3>1 DEF Validated
  <2>4. CASE Retired(h, t)
    <3>1. guarded[h][t] \in GuardedWrite
      BY DEF TypeOK
    <3>2. guarded'[h][t].step = "retired" /\ guarded'[h][t].retired = leader
      BY <2>4, <3>1 DEF Retired, TypeOK, GuardedWrite
    <3>3. \A g \in Hubs, u \in Threads : g # h \/ u # t => guarded'[g][u] = guarded[g][u]
      BY <2>4 DEF Retired, TypeOK
    <3>. QED  BY <2>0, <2>1, <2>4, <3>2, <3>3 DEF Retired, LockIsFree, Leased, Expired
  <2>5. CASE Checked(h, t)
    <3>1. dir # h
      BY <2>1, <2>2, <2>5 DEF Checked, Owns, IsCurrentLeader, LockIsFree
    <3>2. \A g \in Hubs, u \in Threads : g # h => guarded'[g][u] = guarded[g][u]
      BY <2>5 DEF Checked, Advance, TypeOK
    <3>. QED  BY <2>0, <2>1, <2>5, <3>1, <3>2 DEF Checked, LockIsFree, Leased, Expired
  <2>6. CASE Published(h, t)
    BY <2>1, <2>6 DEF Published, LockIsFree
  <2>7. CASE Abandoned(h, t)
    <3>1. Ends(h, t) /\ UNCHANGED <<leader, lease>>
      BY <2>2, <2>7 DEF Abandoned, Acquiring
    <3>2. \A g \in Hubs, u \in Threads :
            guarded'[g][u] = guarded[g][u] \/ guarded'[g][u].step \notin {"retired", "checked"}
      BY <3>1 DEF Ends, NoWrite, TypeOK
    <3>. QED  BY <1>1, <2>0, <2>1, <3>1, <3>2
  <2>. QED  BY <1>7, <2>3, <2>4, <2>5, <2>6, <2>7, WriteEffect
<1>. QED  BY <1>2, <1>3, <1>4, <1>5, <1>6, <1>7 DEF Next

-------------------------------------------------------------------------------
(* The theorems.                                                              *)

Inv ==
  /\ TypeOK /\ FenceInv /\ DirInv /\ ReceiptInv /\ WriteInv /\ EpochInv /\ EpochsUnique
  /\ LeaderInv /\ MidInv /\ LeaseInv /\ QuarantineInv

\* The invariant holds without a lock.
LEMMA InitInv == Init => Inv
<1>. SUFFICES ASSUME Init PROVE Inv
  OBVIOUS
<1>. USE LockAssumption DEF Init
<1>1. TypeOK
  BY InitType
<1>2. FenceInv /\ DirInv /\ ReceiptInv /\ QuarantineInv
  BY DEF FenceInv, DirInv, ReceiptInv, QuarantineInv, Looking, Clearing, Owning
<1>3. WriteInv /\ MidInv
  <2>1. \A h \in Hubs, t \in Threads : guarded[h][t] = NoWrite /\ NoWrite.step = "none"
    BY DEF NoWrite
  <2>. QED  BY <2>1 DEF WriteInv, Begun, MidInv, Mid, Writing, Threads
<1>4. EpochInv /\ EpochsUnique /\ LeaderInv /\ LeaseInv
  BY DEF EpochInv, EpochsUnique, LeaderInv, LeaseInv, Leased, Dead, Unnumbered, Looking, Clearing
<1>. QED  BY <1>1, <1>2, <1>3, <1>4 DEF Inv

\* Every step keeps the invariant.
LEMMA InvStep == Inv /\ [Next]_vars => Inv'
BY TypeStep, FenceStep, DirStep, ReceiptStep, WriteStep, EpochStep, LeaderStep, MidStep,
   LeaseStep, QuarantineStep DEF Inv

\* The invariant holds throughout every behaviour.
LEMMA Invariant == Spec => []Inv
BY InitInv, InvStep, PTL DEF Spec

\* Type correctness of the lock directory and of the guarded writes.
THEOREM TypeCorrect == Spec => []TypeOK
<1>1. Inv => TypeOK
  BY DEF Inv
<1>. QED  BY <1>1, Invariant, PTL

\* Epoch fencing: however late a superseded hub writes and whoever dies where,
\* a committed leader.json carries the newest epoch that was ever handed out.
THEOREM NewestIsCommitted == Spec => []CommittedIsNewest
<1>1. Inv => CommittedIsNewest
  BY NewestCommitted DEF Inv
<1>. QED  BY <1>1, Invariant, PTL

\* _incrementEpoch gives no two hubs the same epoch, whatever crashes after it.
THEOREM EpochsAreUnique == Spec => []EpochsUnique
<1>1. Inv => EpochsUnique
  BY DEF Inv
<1>. QED  BY <1>1, Invariant, PTL

\* At most one living hub has a running lease: acquire, the renewal timer and
\* release of any number of hubs, which take no common lock, may interleave as
\* they like.
THEOREM LeaseIsExclusive == Spec => []LeaseExclusion
<1>1. Inv => LeaseExclusion
  BY OneLease DEF Inv
<1>. QED  BY <1>1, Invariant, PTL

\* No contender takes a slow initialization for a stale lock: the directory a hub
\* made is the lock until its acquire has returned.
THEOREM DirectoryIsKept == Spec => []AcquisitionKeepsDirectory
<1>1. Inv => AcquisitionKeepsDirectory
  BY DEF Inv, DirInv, Owning, AcquisitionKeepsDirectory
<1>. QED  BY <1>1, Invariant, PTL
===============================================================================
