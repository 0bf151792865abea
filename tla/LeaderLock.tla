------------------------------ MODULE LeaderLock ------------------------------
(***************************************************************************)
(* The leader lock of the hub orchestrator                                 *)
(* (server/orchestrator/leader-lock.ts): the directory leader.lock whose   *)
(* leader.json names the holder, its epoch and the end of its lease, the   *)
(* acquisition receipt, and the epoch counter.                             *)
(*                                                                         *)
(* acquire runs under a kernel file lock (the recovery fence), which dies  *)
(* with its process.  The renewal timer and release do not take it: they   *)
(* replace leader.json by retiring the current file into quarantine and    *)
(* linking the next one in its place.  Every file operation is a step of   *)
(* its own, so that contenders, the two threads of control of one hub, the *)
(* clock and process deaths interleave with them.                          *)
(*                                                                         *)
(* A hub is one process: it is started once, and a restart is another hub. *)
(***************************************************************************)
EXTENDS Integers

CONSTANTS
  Hubs,     \* hub processes
  NoHub,    \* no process
  TTL,      \* lease length (DEFAULT_TTL_MS)
  MaxTime   \* bound: the clock stops there

ASSUME LockAssumption ==
  /\ NoHub \notin Hubs
  /\ TTL \in Nat \ {0}
  /\ MaxTime \in Nat

VARIABLES
  now,       \* Date.now(), shared by the hubs: they run on one host
  dir,       \* the hub whose mkdir made the current lock directory, or NoHub
  leader,    \* leader.json in that directory
  receipt,   \* the hub named by leader.acquiring.json
  epoch,     \* epoch.json
  fence,     \* the hub that holds the recovery fence
  pc,        \* what each hub is doing
  myEpoch,   \* LeaderLock.epoch of each hub
  expected,  \* the record a contender saw before it moves the directory away
  guarded,   \* the guarded write in progress of each hub and thread
  renewing,  \* hubs whose renewal timer is armed
  lease      \* history: the end of the last lease each hub published

vars == <<now, dir, leader, receipt, epoch, fence, pc, myEpoch, expected, guarded, renewing, lease>>

Threads == {"main", "timer"}
NoLeader == [hub |-> NoHub, epoch |-> 0, exp |-> 0, init |-> FALSE, released |-> FALSE]
NoWrite == [step |-> "none", dir |-> NoHub, next |-> NoLeader, retired |-> NoLeader]

Leader == [hub : Hubs \cup {NoHub}, epoch : Nat, exp : -1 .. MaxTime + TTL,
           init : BOOLEAN, released : BOOLEAN]
GuardedWrite == [step : {"none", "temp", "validated", "retired", "checked"},
                 dir : Hubs \cup {NoHub}, next : Leader, retired : Leader]

Init ==
  /\ now = 0
  /\ dir = NoHub
  /\ leader = NoLeader
  /\ receipt = NoHub
  /\ epoch = 0
  /\ fence = NoHub
  /\ pc = [h \in Hubs |-> "candidate"]
  /\ myEpoch = [h \in Hubs |-> 0]
  /\ expected = [h \in Hubs |-> NoLeader]
  /\ guarded = [h \in Hubs |-> [t \in Threads |-> NoWrite]]
  /\ renewing = {}
  /\ lease = [h \in Hubs |-> -1]

-------------------------------------------------------------------------------
Expired(rec) == now > rec.exp
MatchesIdentity(h, rec) == rec.hub = h /\ myEpoch[h] > 0 /\ rec.epoch = myEpoch[h]
IsCurrentLeader(h, rec) == MatchesIdentity(h, rec) /\ ~Expired(rec)
StillHeld(h) == IsCurrentLeader(h, leader)
Dead(h) == pc[h] = "dead"

Goto(h, p) == pc' = [pc EXCEPT ![h] = p]
SameOwner(a, b) == a.hub = b.hub /\ a.epoch = b.epoch

InspectUnfenced(h) ==  \* mutant: acquire does not take the recovery fence
  /\ pc[h] = "candidate"
  /\ \/ /\ leader # NoLeader /\ Expired(leader)
        /\ leader.init /\ ~leader.released => Dead(leader.hub)
        /\ receipt \in {NoHub, leader.hub}
        /\ expected' = [expected EXCEPT ![h] = leader]
        /\ Goto(h, "quarantine")
     \/ /\ leader = NoLeader /\ receipt = NoHub /\ dir = NoHub
        /\ Goto(h, "receipt")
        /\ UNCHANGED expected
  /\ UNCHANGED <<now, dir, leader, receipt, epoch, fence, myEpoch, guarded, renewing, lease>>

(* acquire, under the fence: an unexpired lock, an initialization whose      *)
(* owner lives, and a directory with neither leader.json nor receipt are     *)
(* refused; anything else is a lock to move away, a receipt to remove, or    *)
(* nothing.                                                                  *)
Inspect(h) ==
  /\ pc[h] = "candidate" /\ fence = NoHub
  /\ \/ /\ leader # NoLeader /\ Expired(leader)
        /\ leader.init /\ ~leader.released => Dead(leader.hub)
        /\ receipt \in {NoHub, leader.hub}
        /\ expected' = [expected EXCEPT ![h] = leader]
        /\ Goto(h, "quarantine")
     \/ /\ leader = NoLeader /\ receipt # NoHub /\ Dead(receipt)
        /\ Goto(h, IF dir = NoHub THEN "forget" ELSE "quarantine")
        /\ UNCHANGED expected
     \/ /\ leader = NoLeader /\ receipt = NoHub /\ dir = NoHub
        /\ Goto(h, "receipt")
        /\ UNCHANGED expected
  /\ fence' = h
  /\ UNCHANGED <<now, dir, leader, receipt, epoch, myEpoch, guarded, renewing, lease>>

(* The rename of the lock directory and the check of what was moved: the     *)
(* record is the one expected, still expired or released, or still missing.  *)
(* A directory that fails the check stays in quarantine and acquire throws.  *)
Quarantine(h) ==
  /\ pc[h] = "quarantine" /\ dir # NoHub
  /\ dir' = NoHub /\ leader' = NoLeader
  /\ IF /\ SameOwner(leader, expected[h])
        /\ expected[h].released => leader.released
        /\ leader # NoLeader => Expired(leader)
       THEN Goto(h, "forget") /\ UNCHANGED fence
       ELSE Goto(h, "candidate") /\ fence' = NoHub
  /\ expected' = [expected EXCEPT ![h] = NoLeader]
  /\ UNCHANGED <<now, receipt, epoch, myEpoch, guarded, renewing, lease>>

(* The receipt of the dead acquisition is removed ...                        *)
Forget(h) ==
  /\ pc[h] = "forget"
  /\ receipt' = NoHub
  /\ Goto(h, "receipt")
  /\ UNCHANGED <<now, dir, leader, epoch, fence, myEpoch, expected, guarded, renewing, lease>>

(* ... and the hub's own is created exclusively.                             *)
WriteReceipt(h) ==
  /\ pc[h] = "receipt" /\ receipt = NoHub
  /\ receipt' = h
  /\ Goto(h, "mkdir")
  /\ UNCHANGED <<now, dir, leader, epoch, fence, myEpoch, expected, guarded, renewing, lease>>

MakeDirectory(h) ==
  /\ pc[h] = "mkdir" /\ dir = NoHub
  /\ dir' = h
  /\ Goto(h, "provisional")
  /\ UNCHANGED <<now, leader, receipt, epoch, fence, myEpoch, expected, guarded, renewing, lease>>

WriteProvisional(h) ==
  /\ pc[h] = "provisional"
  /\ leader' = [hub |-> h, epoch |-> 0, exp |-> now + TTL, init |-> TRUE, released |-> FALSE]
  /\ Goto(h, "epoch")
  /\ UNCHANGED <<now, dir, receipt, epoch, fence, myEpoch, expected, guarded, renewing, lease>>

(* _incrementEpoch, and the guarded write of the committed record begins.    *)
BeginWrite(h, t, rec) ==
  guarded' = [guarded EXCEPT ![h][t] =
    [step |-> "temp", dir |-> dir, next |-> rec, retired |-> NoLeader]]

IncrementEpochUnsaved(h) ==  \* mutant: the incremented epoch is not saved
  /\ pc[h] = "epoch"
  /\ myEpoch' = [myEpoch EXCEPT ![h] = epoch + 1]
  /\ BeginWrite(h, "main",
       [hub |-> h, epoch |-> epoch + 1, exp |-> now + TTL, init |-> FALSE, released |-> FALSE])
  /\ Goto(h, "commit")
  /\ UNCHANGED <<now, dir, leader, receipt, epoch, fence, expected, renewing, lease>>

IncrementEpoch(h) ==
  /\ pc[h] = "epoch"
  /\ epoch' = epoch + 1
  /\ myEpoch' = [myEpoch EXCEPT ![h] = epoch']
  /\ BeginWrite(h, "main",
       [hub |-> h, epoch |-> epoch', exp |-> now + TTL, init |-> FALSE, released |-> FALSE])
  /\ Goto(h, "commit")
  /\ UNCHANGED <<now, dir, leader, receipt, fence, expected, renewing, lease>>

(* A step after mkdir throws: _expireOwnedInitialization.                    *)
BeginCleanup(h) ==
  IF leader.hub = h
    THEN /\ BeginWrite(h, "main", [leader EXCEPT !.init = FALSE, !.exp = now - 1])
         /\ Goto(h, "cleanup")
    ELSE /\ guarded' = [guarded EXCEPT ![h]["main"] = NoWrite]
         /\ Goto(h, "giveUp")

AcquireFails(h) ==
  /\ pc[h] \in {"provisional", "epoch"}
  /\ BeginCleanup(h)
  /\ UNCHANGED <<now, dir, leader, receipt, epoch, fence, myEpoch, expected, renewing, lease>>

(* The receipt goes, with it the fence, and the hub leads or exits.          *)
EndAcquire(h) ==
  /\ pc[h] \in {"committed", "giveUp"}
  /\ receipt' = NoHub
  /\ fence' = NoHub
  /\ IF pc[h] = "committed"
       THEN Goto(h, "leading") /\ renewing' = renewing \cup {h}
       ELSE Goto(h, "stopped") /\ UNCHANGED renewing
  /\ UNCHANGED <<now, dir, leader, epoch, myEpoch, expected, guarded, lease>>

-------------------------------------------------------------------------------
RenewFromLastLease(h) ==  \* mutant: the lease is extended from its end, not from now
  /\ h \in renewing /\ guarded[h]["timer"] = NoWrite
  /\ IF StillHeld(h)
       THEN /\ BeginWrite(h, "timer", [leader EXCEPT !.exp = leader.exp + TTL])
            /\ UNCHANGED renewing
       ELSE renewing' = renewing \ {h} /\ UNCHANGED guarded
  /\ UNCHANGED <<now, dir, leader, receipt, epoch, fence, pc, myEpoch, expected, lease>>

(* renew, on the timer, and release, on stop.  stop disarms the timer but    *)
(* does not wait for a renewal in progress.                                  *)
Renew(h) ==
  /\ h \in renewing /\ guarded[h]["timer"] = NoWrite
  /\ IF StillHeld(h)
       THEN /\ BeginWrite(h, "timer", [leader EXCEPT !.exp = now + TTL])
            /\ UNCHANGED renewing
       ELSE renewing' = renewing \ {h} /\ UNCHANGED guarded
  /\ UNCHANGED <<now, dir, leader, receipt, epoch, fence, pc, myEpoch, expected, lease>>

Release(h) ==
  /\ pc[h] = "leading"
  /\ renewing' = renewing \ {h}
  /\ IF MatchesIdentity(h, leader)
       THEN /\ BeginWrite(h, "main", [leader EXCEPT !.released = TRUE, !.exp = now - 1])
            /\ Goto(h, "releasing")
       ELSE Goto(h, "stopped") /\ UNCHANGED guarded
  /\ UNCHANGED <<now, dir, leader, receipt, epoch, fence, myEpoch, expected, lease>>

-------------------------------------------------------------------------------
(* _writeLeaderGuarded.  Inside acquire it needs the lock token only, for    *)
(* renew and release an unexpired lease of the hub's epoch as well.          *)
Acquiring(h, t) == t = "main" /\ pc[h] \in {"commit", "cleanup"}
OwnsByIdentity(h, t, rec) ==  \* mutant: a guarded write ignores the end of the lease
  IF Acquiring(h, t) THEN rec.hub = h ELSE MatchesIdentity(h, rec)
Owns(h, t, rec) == IF Acquiring(h, t) THEN rec.hub = h ELSE IsCurrentLeader(h, rec)

Advance(h, t, step) == guarded' = [guarded EXCEPT ![h][t].step = step]

(* How the caller goes on once the write returns true, returns false, or     *)
(* throws: an acquisition that lost its record cleans up, unless the error   *)
(* says the record is already gone; a lost renewal stops the hub.            *)
Return(h, t, outcome) ==
  IF t = "main" /\ pc[h] = "commit" /\ outcome = "false"
    THEN BeginCleanup(h) /\ UNCHANGED renewing
    ELSE /\ guarded' = [guarded EXCEPT ![h][t] = NoWrite]
         /\ IF t = "timer"
              THEN /\ renewing' = IF outcome = "true" THEN renewing ELSE renewing \ {h}
                   /\ UNCHANGED pc
              ELSE /\ Goto(h, CASE pc[h] = "commit" /\ outcome = "true" -> "committed"
                                [] pc[h] = "releasing" -> "stopped"
                                [] OTHER -> "giveUp")
                   /\ UNCHANGED renewing

(* The checks of leader.json made before it is touched; the last one counts. *)
Validate(h, t) ==
  /\ guarded[h][t].step = "temp"
  /\ IF dir # NoHub /\ Owns(h, t, leader)
       THEN Advance(h, t, "validated") /\ UNCHANGED <<pc, renewing>>
       ELSE Return(h, t, "false")
  /\ UNCHANGED <<now, dir, leader, receipt, epoch, fence, myEpoch, expected, lease>>

(* rename(leader.json, quarantine).                                          *)
Retire(h, t) ==
  /\ guarded[h][t].step = "validated"
  /\ IF leader # NoLeader
       THEN /\ guarded' = [guarded EXCEPT ![h][t] = [@ EXCEPT !.step = "retired", !.retired = leader]]
            /\ leader' = NoLeader
            /\ UNCHANGED <<pc, renewing>>
       ELSE Return(h, t, "false") /\ UNCHANGED leader
  /\ UNCHANGED <<now, dir, receipt, epoch, fence, myEpoch, expected, lease>>

(* The retired record is read back.  A record the hub does not own is left   *)
(* in quarantine and the write throws.                                       *)
CheckRetired(h, t) ==
  /\ guarded[h][t].step = "retired"
  /\ IF Owns(h, t, guarded[h][t].retired)
       THEN Advance(h, t, "checked") /\ UNCHANGED <<pc, renewing>>
       ELSE Return(h, t, "throw")
  /\ UNCHANGED <<now, dir, leader, receipt, epoch, fence, myEpoch, expected, lease>>

(* link(temp, leader.json): the temp file moved away with its directory, or  *)
(* another record is there, or the next record is published.                 *)
Link(h, t) ==
  /\ guarded[h][t].step = "checked"
  /\ IF dir = guarded[h][t].dir /\ leader = NoLeader
       THEN /\ leader' = guarded[h][t].next
            /\ lease' = [lease EXCEPT ![h] = leader'.exp]
            /\ Return(h, t, "true")
       ELSE Return(h, t, "false") /\ UNCHANGED <<leader, lease>>
  /\ UNCHANGED <<now, dir, receipt, epoch, fence, myEpoch, expected>>

-------------------------------------------------------------------------------
(* A hub process exits or is killed, wherever it is.                         *)
Dies(h) ==
  /\ ~Dead(h)
  /\ Goto(h, "dead")
  /\ fence' = IF fence = h THEN NoHub ELSE fence
  /\ guarded' = [guarded EXCEPT ![h] = [t \in Threads |-> NoWrite]]
  /\ renewing' = renewing \ {h}
  /\ expected' = [expected EXCEPT ![h] = NoLeader]
  /\ UNCHANGED <<now, dir, leader, receipt, epoch, myEpoch, lease>>

Tick ==
  /\ now < MaxTime
  /\ now' = now + 1
  /\ UNCHANGED <<dir, leader, receipt, epoch, fence, pc, myEpoch, expected, guarded, renewing, lease>>

Acquire(h) ==
  \/ Inspect(h) \/ Quarantine(h) \/ Forget(h) \/ WriteReceipt(h) \/ MakeDirectory(h)
  \/ WriteProvisional(h) \/ IncrementEpoch(h) \/ AcquireFails(h) \/ EndAcquire(h)

WriteLeaderGuarded(h, t) == Validate(h, t) \/ Retire(h, t) \/ CheckRetired(h, t) \/ Link(h, t)

Next ==
  \/ \E h \in Hubs : \/ Acquire(h) \/ Renew(h) \/ Release(h) \/ Dies(h)
                     \/ \E t \in Threads : WriteLeaderGuarded(h, t)
  \/ Tick

Spec == Init /\ [][Next]_vars

-------------------------------------------------------------------------------
TypeOK ==
  /\ now \in 0 .. MaxTime
  /\ dir \in Hubs \cup {NoHub}
  /\ leader \in Leader
  /\ receipt \in Hubs \cup {NoHub}
  /\ epoch \in Nat
  /\ fence \in Hubs \cup {NoHub}
  /\ pc \in [Hubs -> {"candidate", "quarantine", "forget", "receipt", "mkdir", "provisional",
                      "epoch", "commit", "committed", "cleanup", "giveUp", "leading",
                      "releasing", "stopped", "dead"}]
  /\ myEpoch \in [Hubs -> Nat]
  /\ expected \in [Hubs -> Leader]
  /\ guarded \in [Hubs -> [Threads -> GuardedWrite]]
  /\ renewing \subseteq Hubs
  /\ lease \in [Hubs -> -1 .. MaxTime + TTL]

(* Epoch fencing: a committed leader.json carries the newest epoch ever      *)
(* handed out, so a late write of a superseded hub never brings its record   *)
(* back.                                                                     *)
CommittedIsNewest == leader.epoch > 0 => leader.epoch = epoch

(* No two hubs ever acquire under the same epoch, whatever crashed between   *)
(* the increment and the commit.                                             *)
EpochsUnique == \A g, h \in Hubs : g # h /\ myEpoch[g] > 0 => myEpoch[g] # myEpoch[h]

(* A lease is exclusive: two living hubs never both have a running lease     *)
(* that they published themselves.                                           *)
Leased(h) == ~Dead(h) /\ now <= lease[h]
LeaseExclusion == \A g, h \in Hubs : Leased(g) /\ Leased(h) => g = h

(* A hub in the middle of its acquisition keeps the directory it made: no    *)
(* contender takes a slow initialization for a stale lock.                   *)
AcquisitionKeepsDirectory ==
  \A h \in Hubs :
    pc[h] \in {"provisional", "epoch", "commit", "cleanup", "committed", "giveUp"} => dir = h

-------------------------------------------------------------------------------
(* What the documentation says, and the code does not do.                    *)

(* The lock can be reclaimed after its holder exits abnormally: once the hub *)
(* that led is dead, its lock directory is not left with neither leader.json *)
(* nor receipt, which every later acquire refuses.                           *)
LockReclaimable ==
  dir # NoHub /\ lease[dir] # -1 /\ Dead(dir) => leader # NoLeader \/ receipt # NoHub
===============================================================================
