---------------------------- MODULE DispatchProofs ----------------------------
(***************************************************************************)
(* Proofs about Dispatch, for any hubs, any outcomes a worker may publish  *)
(* and any number of attempts.                                             *)
(*                                                                         *)
(* The argument: a result, once there, stays (ResultsKept), and a record   *)
(* is decided as its result is (RecordInv); so what a hub has read of an   *)
(* outcome may be outdated but not untrue (MemoryInv), and neither is what *)
(* it writes into the entry.                                               *)
(***************************************************************************)
EXTENDS Dispatch, TLAPS

\* The places of a tick, and those it reaches only after the hub's start.
Places == {"down", "exited", "idle", "reconcile", "scheduled", "assigned", "running",
           "compensate", "markRunning", "markClaimed", "inProgress", "complete",
           "synthetic", "finalize", "updateQueue", "markFinalized",
           "finalizeWorker", "markWorker", "orphans",
           "reconcileQueue", "align", "select", "judge", "refresh", "reset",
           "candidates", "fenceReserve", "reserve", "open", "ensureWorker",
           "createAttempt", "fenceInbox", "writeInbox", "fenceClaim", "claim",
           "giveBack"}
AtWork == {"idle", "select", "judge", "refresh", "reset", "candidates", "fenceReserve",
           "reserve", "open", "ensureWorker", "createAttempt", "fenceInbox", "writeInbox",
           "fenceClaim", "claim", "giveBack"}
Memories == [n : 0 .. MaxAttempts, outcome : Terminal \cup {"none"}]
Janitors == [step : {"idle", "list", "read", "synthetic", "pending", "completed", "failed"},
             n : 0 .. MaxAttempts]
Workers == {"none", "inbox", "accepted", "running", "published", "over", "dead"}

\* The parts of the type invariant.
ControlType ==
  /\ leader \in Hubs \cup {NoHub} /\ fresh \subseteq Hubs
  /\ pc \in [Hubs -> Places] /\ ready \subseteq Hubs
MemoryType == seen \in [Hubs -> Memories] /\ janitor \in [Hubs -> Janitors]
StoreType ==
  /\ assignment \in Assignment /\ attempt \in [Attempts -> Attempt]
  /\ worker \in [Attempts -> Workers]
EntryType == entry \in Terminal \cup {"pending", "scheduled", "in_progress"}

\* A hub works only past its start.
ReadyInv == \A h \in Hubs : pc[h] \in AtWork => h \in ready

\* The store: attempts are numbered up to the active one; a decided record shows
\* the result of its attempt; a decided assignment shows that of one of them.
Delivered(attempts, o) ==
  o \in {"completed", "cancelled"} => \E n \in Attempts : attempts[n].result = o
RecordInv ==
  /\ \A n \in Attempts :
       /\ Decided(n) => attempt[n].result = attempt[n].status
       /\ n > assignment.active => attempt[n] = NoAttempt
       /\ worker[n] = "published" => attempt[n].result # "none"
  /\ Delivered(attempt, assignment.status)

\* What a tick and a janitor remember of an outcome may be outdated, not untrue.
Deciding == {"complete", "synthetic", "finalize", "updateQueue"}
Remembers(place, memory, attempts) ==
  /\ place \in Deciding => memory.outcome \in Terminal
  /\ place = "complete" => /\ memory.n \in Attempts
                           /\ attempts[memory.n].result = memory.outcome
  /\ Delivered(attempts, memory.outcome)
MemoryInv ==
  \A h \in Hubs : /\ Remembers(pc[h], seen[h], attempt)
                  /\ Delivered(attempt, janitor[h].step)

IInv ==
  /\ ControlType /\ MemoryType /\ StoreType /\ EntryType
  /\ ReadyInv /\ RecordInv /\ MemoryInv /\ Delivered(attempt, entry)

\* The parts together are the type invariant.
LEMMA TypeParts == ControlType /\ MemoryType /\ StoreType /\ EntryType <=> TypeOK
BY DEF TypeOK, ControlType, MemoryType, StoreType, EntryType, Places, Memories, Janitors, Workers

-------------------------------------------------------------------------------
(* What a step does to the store, whoever takes it.                          *)

\* nothing, but for flags of the assignment and its opening
Kept ==
  /\ UNCHANGED attempt
  /\ assignment' \in Assignment /\ assignment'.active = assignment.active
  /\ assignment'.status \in {assignment.status, "scheduled"}
Accepts(n) ==
  Active(n) /\ UNCHANGED assignment /\ attempt' = [attempt EXCEPT ![n].accepted = TRUE]
Runs(n) == MayRun(n) /\ SetRunning(n)
Publishes(n, o) ==
  /\ Active(n) /\ attempt[n].result = "none" /\ UNCHANGED assignment
  /\ attempt' = [attempt EXCEPT ![n].result = o]
Records(n) ==
  Active(n) /\ attempt[n].result \in Terminal /\ Complete(n, attempt[n].result)
Fails(n) == Active(n) /\ SyntheticFailure(n)
Creates(n) ==
  /\ n = assignment.active + 1
  /\ assignment' = [assignment EXCEPT !.active = n, !.status = "assigned"]
  /\ attempt' = [attempt EXCEPT ![n].status = "assigned"]

StoreStep ==
  \/ Kept
  \/ \E n \in Attempts : \/ Accepts(n) \/ Runs(n) \/ Records(n) \/ Fails(n) \/ Creates(n)
                         \/ \E o \in Terminal : Publishes(n, o)

\* An active attempt is one of the attempts.
LEMMA ActiveIsAttempt ==
  ASSUME StoreType, NEW n, Active(n) PROVE n \in Attempts
BY DispatchAssumption DEF StoreType, Assignment, Active, Attempts

\* The steps of a hub that write the store.
LEMMA HubStore ==
  ASSUME IInv, NEW h \in Hubs, Tick(h) \/ JanitorStep(h)
  PROVE  StoreStep /\ worker' \in [Attempts -> Workers]
         /\ \A n \in Attempts : worker'[n] = "published" => worker[n] = "published"
<1> USE DEF IInv, MemoryInv, Remembers, Deciding
<1>1. CASE MarkRunning(h)
  <2>1. CASE MayRun(seen[h].n)
    <3>1. Runs(seen[h].n) /\ UNCHANGED worker
      BY <1>1, <2>1 DEF MarkRunning, Runs
    <3> QED
      BY <2>1, <3>1, ActiveIsAttempt DEF StoreStep, MayRun, StoreType
  <2>2. CASE ~MayRun(seen[h].n)
    BY <1>1, <2>2 DEF MarkRunning, StoreStep, Kept, StoreType
  <2> QED
    BY <2>1, <2>2
<1>2. CASE CompleteAttempt(h)
  <2>1. CASE Active(seen[h].n)
    <3>1. Records(seen[h].n) /\ UNCHANGED worker
      BY <1>2, <2>1 DEF CompleteAttempt, Records
    <3> QED
      BY <2>1, <3>1, ActiveIsAttempt DEF StoreStep, StoreType
  <2>2. CASE ~Active(seen[h].n)
    BY <1>2, <2>2 DEF CompleteAttempt, StoreStep, Kept, StoreType
  <2> QED
    BY <2>1, <2>2
<1>3. CASE WriteSyntheticFailure(h)
  <2>1. CASE Active(seen[h].n)
    <3>1. Fails(seen[h].n) /\ UNCHANGED worker
      BY <1>3, <2>1 DEF WriteSyntheticFailure, Fails
    <3> QED
      BY <2>1, <3>1, ActiveIsAttempt DEF StoreStep, StoreType
  <2>2. CASE ~Active(seen[h].n)
    BY <1>3, <2>2 DEF WriteSyntheticFailure, StoreStep, Kept, StoreType
  <2> QED
    BY <2>1, <2>2
<1>4. CASE JanitorSynthetic(h)
  <2>1. CASE Active(janitor[h].n) /\ assignment.status \notin {"completed", "failed"}
    <3>1. Fails(janitor[h].n) /\ UNCHANGED worker
      BY <1>4, <2>1 DEF JanitorSynthetic, Fails
    <3> QED
      BY <2>1, <3>1, ActiveIsAttempt DEF StoreStep, StoreType
  <2>2. CASE ~(Active(janitor[h].n) /\ assignment.status \notin {"completed", "failed"})
    BY <1>4, <2>2 DEF JanitorSynthetic, StoreStep, Kept, StoreType
  <2> QED
    BY <2>1, <2>2
<1>5. CASE CreateAttempt(h)
  <2>1. Creates(assignment.active + 1) /\ UNCHANGED worker
    BY <1>5 DEF CreateAttempt, Creates
  <2>2. assignment.active + 1 \in Attempts
    BY <1>5, DispatchAssumption DEF CreateAttempt, StoreType, Assignment, Attempts
  <2> QED
    BY <2>1, <2>2 DEF StoreStep, StoreType
<1>6. CASE MarkFinalized(h) \/ FinalizeWorker(h) \/ OpenAssignment(h)
  <2>1. UNCHANGED <<attempt, worker>>
    BY <1>6 DEF MarkFinalized, FinalizeWorker, OpenAssignment
  <2>2. /\ assignment' \in Assignment /\ assignment'.active = assignment.active
        /\ assignment'.status \in {assignment.status, "scheduled"}
    <3>1. CASE UNCHANGED assignment
      BY <3>1 DEF StoreType
    <3>2. CASE assignment' = [assignment EXCEPT !.queueFinalized = TRUE]
      BY <3>2 DEF StoreType, Assignment
    <3>3. CASE assignment' = [assignment EXCEPT !.workerFinalized = TRUE]
      BY <3>3 DEF StoreType, Assignment
    <3>4. CASE assignment' = [assignment EXCEPT !.status = "scheduled",
                                !.queueFinalized = FALSE, !.workerFinalized = FALSE]
      BY <3>4 DEF StoreType, Assignment
    <3> QED
      BY <1>6, <3>1, <3>2, <3>3, <3>4 DEF MarkFinalized, FinalizeWorker, OpenAssignment
  <2> QED
    BY <2>1, <2>2 DEF StoreStep, Kept, StoreType
<1>7. CASE WriteInbox(h)
  <2>1. UNCHANGED <<attempt, assignment>>
    BY <1>7 DEF WriteInbox
  <2>2. CASE UNCHANGED worker
    BY <2>1, <2>2 DEF StoreStep, Kept, StoreType
  <2>3. CASE worker' = [worker EXCEPT ![seen[h].n] = IF @ = "dead" THEN @ ELSE "inbox"]
    BY <2>1, <2>3 DEF StoreStep, Kept, StoreType, Workers
  <2> QED
    BY <1>7, <2>2, <2>3 DEF WriteInbox
<1>8. CASE UNCHANGED <<assignment, attempt, worker>>
  BY <1>8 DEF StoreStep, Kept, StoreType
<1>9. CASE \/ TickStart(h) \/ ListAssignments(h) \/ ReadAccepted(h) \/ ReadResult(h)
           \/ Compensate(h) \/ MarkInProgress(h) \/ GuardLeader(h) \/ UpdateQueue(h)
  BY <1>8, <1>9 DEF TickStart, ListAssignments, ReadAccepted, ReadResult, Compensate,
     MarkInProgress, GuardLeader, UpdateQueue
<1>10. CASE Startup(h) \/ Schedule(h)
  BY <1>8, <1>10 DEF Startup, Schedule, ListForOrphans, ReconcileQueue, MarkReady, FindStaleClaim,
     JudgeClaim, RefreshClaim, ResetClaim, NextCandidate
<1>11. CASE \/ Fence(h) \/ Reserve(h) \/ EnsureWorker(h) \/ Claim(h) \/ GiveBack(h)
            \/ JanitorList(h) \/ JanitorRead(h) \/ JanitorUpdate(h)
  BY <1>8, <1>11 DEF Fence, Reserve, EnsureWorker, Claim, GiveBack,
     JanitorList, JanitorRead, JanitorUpdate
<1> QED
  BY <1>1, <1>2, <1>3, <1>4, <1>5, <1>6, <1>7, <1>9, <1>10, <1>11
     DEF Tick, Reconcile, DispatchCandidate, JanitorStep

\* The steps of a worker.
LEMMA WorkerStore ==
  ASSUME IInv, NEW n \in Attempts, WorkerStep(n) \/ WorkerDies(n)
  PROVE  /\ StoreStep /\ worker' \in [Attempts -> Workers]
         /\ \A m \in Attempts :
              worker'[m] = "published" => worker[m] = "published" \/ attempt'[m].result # "none"
         /\ UNCHANGED <<entry, fresh, hubVars>>
<1> USE DEF IInv, WorkerGoto
<1>1. CASE Accept(n)
  BY <1>1 DEF Accept, StoreStep, Accepts, Kept, StoreType, Workers
<1>2. CASE Start(n)
  BY <1>2 DEF Start, StoreStep, Runs, Kept, StoreType, Workers
<1>3. CASE \E o \in WorkerOutcomes : PublishResult(n, o)
  <2>1. PICK o \in Terminal : PublishResult(n, o)
    BY <1>3, DispatchAssumption
  <2>2. o # "none"
    BY DEF Terminal
  <2>3. worker' \in [Attempts -> Workers]
    BY <2>1 DEF PublishResult, StoreType, Workers
  <2>4. CASE Active(n) /\ ~IsTerminal /\ attempt[n].result = "none"
    <3>1. Publishes(n, o) /\ worker' = [worker EXCEPT ![n] = "published"]
      BY <2>1, <2>4 DEF PublishResult, Publishes
    <3>2. attempt'[n].result = o
      BY <3>1 DEF Publishes, StoreType, Attempt
    <3> QED
      BY <2>1, <2>2, <2>3, <3>1, <3>2 DEF StoreStep, PublishResult, StoreType
  <2>5. CASE ~(Active(n) /\ ~IsTerminal /\ attempt[n].result = "none")
    BY <2>1, <2>3, <2>5 DEF PublishResult, StoreStep, Kept, StoreType
  <2> QED
    BY <2>4, <2>5
<1>4. CASE ReportResult(n)
  <2>1. attempt[n].result \in Terminal
    BY <1>4 DEF ReportResult, RecordInv, StoreType, Attempt
  <2> QED
    BY <1>4, <2>1 DEF ReportResult, StoreStep, Records, Kept, StoreType, Workers
<1>5. CASE WorkerDies(n)
  BY <1>5 DEF WorkerDies, StoreStep, Kept, StoreType, Workers
<1> QED
  BY <1>1, <1>2, <1>3, <1>4, <1>5 DEF WorkerStep, Accept, Start, PublishResult, ReportResult, WorkerDies

-------------------------------------------------------------------------------
(* What every step of the store keeps.                                       *)

\* A result is never taken back, so what was delivered stays delivered.
ResultsKept ==
  \A n \in Attempts : attempt[n].result # "none" => attempt'[n].result = attempt[n].result

\* An outcome once delivered stays delivered.
LEMMA DeliveredStays ==
  ASSUME ResultsKept, NEW o, Delivered(attempt, o) PROVE Delivered(attempt', o)
BY DEF ResultsKept, Delivered

\* What the invariant says of the store after a step.
StoreAfter ==
  /\ ResultsKept
  /\ assignment' \in Assignment /\ attempt' \in [Attempts -> Attempt]
  /\ \A n \in Attempts :
       /\ attempt'[n].status \in Terminal => attempt'[n].result = attempt'[n].status
       /\ n > assignment'.active => attempt'[n] = NoAttempt
  /\ Delivered(attempt', assignment'.status)

\* A step that writes one attempt, and the assignment with it.
LEMMA OneAttempt ==
  ASSUME IInv, NEW n \in Attempts, NEW a \in Attempt,
         attempt' = [attempt EXCEPT ![n] = a],
         attempt[n].result # "none" => a.result = attempt[n].result,
         a.status \in Terminal => a.result = a.status,
         assignment' \in Assignment, assignment'.active >= n,
         assignment'.active >= assignment.active,
         \/ assignment'.status = assignment.status
         \/ assignment'.status = a.result
         \/ assignment'.status \notin {"completed", "cancelled"}
  PROVE  StoreAfter
<1> USE DEF IInv
<1>1. /\ attempt' \in [Attempts -> Attempt] /\ attempt'[n] = a
      /\ \A m \in Attempts : m # n => attempt'[m] = attempt[m]
  BY DEF StoreType
<1>2. ResultsKept
  BY <1>1 DEF ResultsKept
<1>3. \A m \in Attempts :
        /\ attempt'[m].status \in Terminal => attempt'[m].result = attempt'[m].status
        /\ m > assignment'.active => attempt'[m] = NoAttempt
  <2> TAKE m \in Attempts
  <2>1. CASE m = n
    BY <1>1, <2>1, DispatchAssumption DEF Assignment, Attempts
  <2>2. CASE m # n
    BY <1>1, <2>2, DispatchAssumption DEF RecordInv, Decided, StoreType, Assignment, Attempts
  <2> QED
    BY <2>1, <2>2
<1>4. Delivered(attempt', assignment'.status)
  <2>1. CASE assignment'.status = assignment.status
    BY <1>2, <2>1, DeliveredStays DEF RecordInv
  <2>2. CASE assignment'.status = a.result
    BY <1>1, <2>2 DEF Delivered
  <2>3. CASE assignment'.status \notin {"completed", "cancelled"}
    BY <2>3 DEF Delivered
  <2> QED
    BY <2>1, <2>2, <2>3
<1> QED
  BY <1>1, <1>2, <1>3, <1>4 DEF StoreAfter

\* Every store operation keeps the store and what is known of it.
LEMMA StoreKept ==
  ASSUME IInv, StoreStep PROVE StoreAfter
<1> USE DEF IInv
<1>0. attempt \in [Attempts -> Attempt] /\ assignment \in Assignment
  BY DEF StoreType
<1>1. CASE Kept
  BY <1>1 DEF Kept, StoreAfter, StoreType, RecordInv, ResultsKept, Decided, Delivered
<1>2. ASSUME NEW n \in Attempts, Accepts(n) PROVE StoreAfter
  <2> DEFINE a == [attempt[n] EXCEPT !.accepted = TRUE]
  <2>1. a \in Attempt /\ a.result = attempt[n].result /\ a.status = attempt[n].status
    BY <1>0 DEF Attempt
  <2>2. attempt' = [attempt EXCEPT ![n] = a]
    BY <1>0, <1>2 DEF Accepts
  <2>3. assignment'.active >= n /\ assignment'.active >= assignment.active
    BY <1>0, <1>2, DispatchAssumption DEF Accepts, Active, Assignment
  <2>4. a.status \in Terminal => a.result = a.status
    BY <2>1 DEF RecordInv, Decided
  <2> HIDE DEF a
  <2> QED
    BY <1>0, <1>2, <2>1, <2>2, <2>3, <2>4, OneAttempt DEF Accepts
<1>3. ASSUME NEW n \in Attempts, Runs(n) PROVE StoreAfter
  <2> DEFINE a == [attempt[n] EXCEPT !.status = "running"]
  <2>1. a \in Attempt /\ a.result = attempt[n].result /\ a.status \notin Terminal
    BY <1>0 DEF Attempt, Terminal
  <2>2. attempt' = [attempt EXCEPT ![n] = a]
    BY <1>0, <1>3 DEF Runs, SetRunning
  <2>3. /\ assignment' \in Assignment /\ assignment'.active = assignment.active
        /\ assignment'.status = "running" /\ assignment.active = n
    BY <1>0, <1>3 DEF Runs, SetRunning, MayRun, Active, Assignment
  <2>4. assignment'.active >= n /\ assignment'.active >= assignment.active
    BY <1>0, <2>3, DispatchAssumption DEF Assignment
  <2> HIDE DEF a
  <2> QED
    BY <2>1, <2>2, <2>3, <2>4, OneAttempt
<1>4. ASSUME NEW n \in Attempts, Records(n) PROVE StoreAfter
  <2>1. CASE IsTerminal
    <3>1. Kept
      BY <1>0, <1>4, <2>1 DEF Records, Complete, Kept
    <3> QED
      BY <1>1, <3>1
  <2>2. CASE ~IsTerminal
    <3> DEFINE o == attempt[n].result
               a == [attempt[n] EXCEPT !.status = o]
    <3>0. o \in Terminal
      BY <1>4 DEF Records
    <3>1. a \in Attempt /\ a.result = o /\ a.status = o
      BY <1>0, <3>0 DEF Attempt
    <3>2. attempt' = [attempt EXCEPT ![n] = a]
      BY <1>0, <1>4, <2>2 DEF Records, Complete
    <3>3. /\ assignment' \in Assignment /\ assignment'.active = assignment.active
          /\ assignment'.status = o /\ assignment.active = n
      BY <1>0, <1>4, <2>2, <3>0 DEF Records, Complete, Active, Assignment
    <3>4. assignment'.active >= n /\ assignment'.active >= assignment.active
      BY <1>0, <3>3, DispatchAssumption DEF Assignment
    <3>5. attempt[n].result # "none" => a.result = attempt[n].result
      BY <3>1
    <3> HIDE DEF a, o
    <3> QED
      BY <3>1, <3>2, <3>3, <3>4, <3>5, OneAttempt
  <2> QED
    BY <2>1, <2>2
<1>5. ASSUME NEW n \in Attempts, Fails(n) PROVE StoreAfter
  <2>1. CASE attempt[n].result # "none"
    <3>1. Kept
      BY <1>0, <1>5, <2>1 DEF Fails, SyntheticFailure, Kept
    <3> QED
      BY <1>1, <3>1
  <2>2. CASE attempt[n].result = "none"
    <3> DEFINE a == [attempt[n] EXCEPT !.status = "failed", !.result = "failed"]
    <3>1. a \in Attempt /\ a.result = "failed" /\ a.status = "failed"
      BY <1>0 DEF Attempt, Terminal
    <3>2. attempt' = [attempt EXCEPT ![n] = a]
      BY <1>0, <1>5, <2>2 DEF Fails, SyntheticFailure
    <3>3. /\ assignment' \in Assignment /\ assignment'.active = assignment.active
          /\ assignment'.status = "failed" /\ assignment.active = n
      BY <1>0, <1>5, <2>2 DEF Fails, SyntheticFailure, Active, Assignment, Terminal
    <3>4. assignment'.active >= n /\ assignment'.active >= assignment.active
      BY <1>0, <3>3, DispatchAssumption DEF Assignment
    <3> HIDE DEF a
    <3> QED
      BY <2>2, <3>1, <3>2, <3>3, <3>4, OneAttempt
  <2> QED
    BY <2>1, <2>2
<1>6. ASSUME NEW n \in Attempts, Creates(n) PROVE StoreAfter
  <2> DEFINE a == [attempt[n] EXCEPT !.status = "assigned"]
  <2>1. a \in Attempt /\ a.result = attempt[n].result /\ a.status \notin Terminal
    BY <1>0 DEF Attempt, Terminal
  <2>2. attempt' = [attempt EXCEPT ![n] = a]
    BY <1>0, <1>6 DEF Creates
  <2>3. n = assignment.active + 1 /\ n \in 0 .. MaxAttempts
    BY <1>0, <1>6, DispatchAssumption DEF Creates, Attempts
  <2>4. /\ assignment' \in Assignment /\ assignment'.active = n
        /\ assignment'.status = "assigned"
    BY <1>0, <1>6, <2>3 DEF Creates, Assignment
  <2>5. assignment'.active >= n /\ assignment'.active >= assignment.active
    BY <1>0, <2>3, <2>4, DispatchAssumption DEF Assignment
  <2> HIDE DEF a
  <2> QED
    BY <2>1, <2>2, <2>4, <2>5, OneAttempt
<1>7. ASSUME NEW n \in Attempts, NEW o \in Terminal, Publishes(n, o) PROVE StoreAfter
  <2> DEFINE a == [attempt[n] EXCEPT !.result = o]
  <2>1. a \in Attempt /\ a.result = o /\ a.status = attempt[n].status
    BY <1>0 DEF Attempt
  <2>2. attempt' = [attempt EXCEPT ![n] = a] /\ attempt[n].result = "none"
    BY <1>0, <1>7 DEF Publishes
  <2>3. a.status \notin Terminal
    BY <2>1, <2>2 DEF RecordInv, Decided, Terminal
  <2>4. /\ assignment' \in Assignment /\ assignment'.active >= n
        /\ assignment'.active >= assignment.active /\ assignment'.status = assignment.status
    BY <1>0, <1>7, DispatchAssumption DEF Publishes, Active, Assignment
  <2> HIDE DEF a
  <2> QED
    BY <2>1, <2>2, <2>3, <2>4, OneAttempt
<1> QED
  BY <1>1, <1>2, <1>3, <1>4, <1>5, <1>6, <1>7 DEF StoreStep

-------------------------------------------------------------------------------
(* The control of the hubs, and what they remember.                          *)

\* A step of hub h leaves the control well typed and goes to work only when
\* the hub is past its start.
ControlAfter(h) ==
  /\ ControlType'
  /\ pc'[h] \in AtWork => h \in ready'
  /\ \A g \in Hubs : g # h => pc'[g] = pc[g] /\ (g \in ready => g \in ready')

\* Going on somewhere, with or without the lease.
LEMMA GoesOn ==
  ASSUME ControlType, NEW h \in Hubs, NEW p \in Places, Goto(h, p),
         leader' \in {leader, h, NoHub}, ready' \in {ready, ready \cup {h}, ready \ {h}},
         fresh' \subseteq Hubs, p \in AtWork => h \in ready'
  PROVE  ControlAfter(h)
<1>1. pc' \in [Hubs -> Places] /\ pc'[h] = p /\ \A g \in Hubs : g # h => pc'[g] = pc[g]
  BY DEF ControlType, Goto
<1>2. leader' \in Hubs \cup {NoHub} /\ ready' \subseteq Hubs
  BY DEF ControlType
<1>3. \A g \in Hubs : (g # h /\ g \in ready) => g \in ready'
  OBVIOUS
<1> QED
  BY <1>1, <1>2, <1>3 DEF ControlAfter, ControlType

\* A hub that stops is well typed and at no work.
LEMMA Stops ==
  ASSUME ControlType, NEW h \in Hubs, Stop(h), fresh' \subseteq Hubs PROVE ControlAfter(h)
<1>1. "exited" \in Places /\ "exited" \notin AtWork
  BY DEF Places, AtWork
<1> QED
  BY <1>1, GoesOn DEF Stop, Unlead

\* So is a hub whose pass throws: it is idle again, or stops.
LEMMA Throws ==
  ASSUME ControlType, NEW h \in Hubs, Throw(h), fresh' \subseteq Hubs PROVE ControlAfter(h)
<1>1. "idle" \in Places
  BY DEF Places
<1> QED
  BY <1>1, GoesOn, Stops DEF Throw

\* A reconciliation that is over goes to work only past the start.
LEMMA Reconciled ==
  ASSUME ControlType, NEW h \in Hubs, Goto(h, AfterReconcile(h)),
         UNCHANGED <<leader, fresh, ready>>
  PROVE  ControlAfter(h)
<1>1. AfterReconcile(h) \in Places /\ (AfterReconcile(h) \in AtWork => h \in ready)
  BY DEF AfterReconcile, Places, AtWork
<1> QED
  BY <1>1, GoesOn DEF ControlType

\* Going on, in words the provers can match.
LEMMA GoesTo ==
  ASSUME ControlType, NEW h \in Hubs, NEW p \in Places, Goto(h, p),
         UNCHANGED <<leader, ready>>, fresh' \subseteq Hubs,
         p \in AtWork => h \in ready
  PROVE  ControlAfter(h)
BY GoesOn

\* Every step of the reconciler keeps the hub at a place of the code.
LEMMA ReconcileControl ==
  ASSUME IInv, NEW h \in Hubs, Reconcile(h) PROVE ControlAfter(h)
<1> USE DEF IInv
<1>0. ControlType /\ fresh \subseteq Hubs /\ {} \subseteq Hubs
  BY DEF ControlType
<1>1. CASE ListAssignments(h)
  <2>1. CASE leader = h
    <3> DEFINE p == ListedCase(AfterReconcile(h))
    <3>1. p \in Places /\ (p \in AtWork => h \in ready)
      BY DEF ListedCase, Compensated, AfterReconcile, Places, AtWork, StoreType, Assignment, Terminal
    <3>2. Goto(h, p) /\ UNCHANGED <<leader, ready, fresh>>
      BY <1>1, <2>1 DEF ListAssignments
    <3> HIDE DEF p
    <3> QED
      BY <1>0, <3>1, <3>2, GoesTo
  <2>2. CASE leader # h
    BY <1>0, <1>1, <2>2, Throws DEF ListAssignments
  <2> QED
    BY <2>1, <2>2
<1>2. CASE ReadAccepted(h)
  <2>1. UNCHANGED <<leader, ready, fresh>>
    BY <1>2 DEF ReadAccepted
  <2>2. \/ Goto(h, "markRunning") \/ Goto(h, "markClaimed") \/ Goto(h, "synthetic")
        \/ Goto(h, AfterReconcile(h))
    BY <1>2 DEF ReadAccepted
  <2>3. {"markRunning", "markClaimed", "synthetic"} \subseteq Places \ AtWork
    BY DEF Places, AtWork
  <2> QED
    BY <1>0, <2>1, <2>2, <2>3, GoesTo, Reconciled
<1>3. CASE ReadResult(h)
  <2>1. UNCHANGED <<leader, ready, fresh>>
    BY <1>3 DEF ReadResult
  <2>2. \/ Goto(h, "complete") \/ Goto(h, "synthetic") \/ Goto(h, AfterReconcile(h))
    BY <1>3 DEF ReadResult
  <2>3. {"complete", "synthetic"} \subseteq Places \ AtWork
    BY DEF Places, AtWork
  <2> QED
    BY <1>0, <2>1, <2>2, <2>3, GoesTo, Reconciled
<1>4. CASE Compensate(h)
  <2>1. UNCHANGED <<leader, ready, fresh>>
    BY <1>4 DEF Compensate
  <2>2. Goto(h, "finalize") \/ Goto(h, AfterReconcile(h))
    BY <1>4 DEF Compensate
  <2>3. "finalize" \in Places \ AtWork
    BY DEF Places, AtWork
  <2> QED
    BY <1>0, <2>1, <2>2, <2>3, GoesTo, Reconciled
<1>5. CASE MarkRunning(h)
  <2>1. fresh' = fresh
    BY <1>5 DEF MarkRunning
  <2>2. \/ Goto(h, "inProgress") /\ UNCHANGED <<leader, ready>>
        \/ Goto(h, AfterReconcile(h)) /\ UNCHANGED <<leader, ready>>
        \/ Throw(h)
    BY <1>5 DEF MarkRunning
  <2>3. "inProgress" \in Places \ AtWork
    BY DEF Places, AtWork
  <2> QED
    BY <1>0, <2>1, <2>2, <2>3, GoesTo, Reconciled, Throws
<1>6. CASE MarkInProgress(h)
  <2>1. AfterReconcile(h) \in Places /\ (AfterReconcile(h) \in AtWork => h \in ready)
    BY DEF AfterReconcile, Places, AtWork
  <2> QED
    BY <1>0, <1>6, <2>1, GoesTo DEF MarkInProgress, UpdateEntry
<1>7. CASE CompleteAttempt(h) \/ WriteSyntheticFailure(h)
  <2>1. fresh' = fresh
    BY <1>7 DEF CompleteAttempt, WriteSyntheticFailure
  <2>2. \/ Goto(h, "finalize") /\ UNCHANGED <<leader, ready>>
        \/ Throw(h)
    BY <1>7 DEF CompleteAttempt, WriteSyntheticFailure
  <2>3. "finalize" \in Places \ AtWork
    BY DEF Places, AtWork
  <2> QED
    BY <1>0, <2>1, <2>2, <2>3, GoesTo, Throws
<1>8. CASE GuardLeader(h)
  <2>1. fresh' = fresh
    BY <1>8 DEF GuardLeader
  <2>2. \/ Goto(h, "updateQueue") /\ UNCHANGED <<leader, ready>>
        \/ Throw(h)
    BY <1>8 DEF GuardLeader
  <2>3. "updateQueue" \in Places \ AtWork
    BY DEF Places, AtWork
  <2> QED
    BY <1>0, <2>1, <2>2, <2>3, GoesTo, Throws
<1>9. CASE UpdateQueue(h)
  <2>1. Goto(h, "markFinalized") /\ UNCHANGED <<leader, ready>> /\ fresh' = {}
    BY <1>9 DEF UpdateQueue, UpdateEntry
  <2>2. "markFinalized" \in Places \ AtWork
    BY DEF Places, AtWork
  <2> QED
    BY <1>0, <2>1, <2>2, GoesTo
<1>10. CASE MarkFinalized(h)
  <2>1. "finalizeWorker" \in Places \ AtWork
    BY DEF Places, AtWork
  <2> QED
    BY <1>0, <1>10, <2>1, GoesTo DEF MarkFinalized
<1>11. CASE FinalizeWorker(h)
  <2>1. fresh' = fresh
    BY <1>11 DEF FinalizeWorker
  <2>2. \/ Goto(h, "markWorker") /\ UNCHANGED <<leader, ready>>
        \/ Goto(h, AfterReconcile(h)) /\ UNCHANGED <<leader, ready>>
        \/ Throw(h)
    BY <1>11 DEF FinalizeWorker
  <2>3. "markWorker" \in Places \ AtWork
    BY DEF Places, AtWork
  <2> QED
    BY <1>0, <2>1, <2>2, <2>3, GoesTo, Reconciled, Throws
<1> QED
  BY <1>1, <1>2, <1>3, <1>4, <1>5, <1>6, <1>7, <1>8, <1>9, <1>10, <1>11 DEF Reconcile

\* Past its start a hub schedules and dispatches.
LEMMA WorkControl ==
  ASSUME IInv, NEW h \in Hubs, Schedule(h) \/ DispatchCandidate(h) PROVE ControlAfter(h)
<1> USE DEF IInv
<1>0. ControlType /\ fresh \subseteq Hubs /\ AtWork \subseteq Places
  BY DEF ControlType, AtWork, Places
<1>1. pc[h] \in AtWork /\ h \in ready
  BY DEF Schedule, FindStaleClaim, JudgeClaim, RefreshClaim, ResetClaim, NextCandidate,
     DispatchCandidate, Fence, Reserve, OpenAssignment, EnsureWorker, CreateAttempt, WriteInbox,
     Claim, GiveBack, AtWork, ReadyInv
<1>2. fresh' \subseteq Hubs
  BY <1>0 DEF Schedule, FindStaleClaim, JudgeClaim, RefreshClaim, ResetClaim, NextCandidate,
     DispatchCandidate, Fence, Reserve, OpenAssignment, EnsureWorker, CreateAttempt, WriteInbox,
     Claim, GiveBack, UpdateEntry
<1>3. \/ Stop(h)
      \/ UNCHANGED <<leader, ready>> /\ \E p \in AtWork : Goto(h, p)
  <2>1. CASE Schedule(h)
    <3>1. UNCHANGED <<leader, ready>>
      BY <2>1 DEF Schedule, FindStaleClaim, JudgeClaim, RefreshClaim, ResetClaim, NextCandidate
    <3>2. \/ Goto(h, "judge") \/ Goto(h, "candidates") \/ Goto(h, "refresh") \/ Goto(h, "reset")
          \/ Goto(h, "fenceReserve") \/ Goto(h, "idle")
      BY <2>1 DEF Schedule, FindStaleClaim, JudgeClaim, RefreshClaim, ResetClaim, NextCandidate
    <3> QED
      BY <3>1, <3>2 DEF AtWork
  <2>2. CASE Fence(h)
    <3>1. CASE leader = h
      <4>1. UNCHANGED <<leader, ready>>
        BY <2>2, <3>1 DEF Fence
      <4>2. Goto(h, "reserve") \/ Goto(h, "writeInbox") \/ Goto(h, "claim")
        BY <2>2, <3>1 DEF Fence
      <4> QED
        BY <4>1, <4>2 DEF AtWork
    <3> QED
      BY <2>2, <3>1 DEF Fence
  <2>3. CASE DispatchCandidate(h) /\ ~Fence(h)
    <3>1. UNCHANGED <<leader, ready>>
      BY <2>3 DEF DispatchCandidate, Reserve, OpenAssignment, EnsureWorker, CreateAttempt,
         WriteInbox, Claim, GiveBack
    <3>2. \/ Goto(h, "open") \/ Goto(h, "idle") \/ Goto(h, "ensureWorker") \/ Goto(h, "giveBack")
          \/ Goto(h, "createAttempt") \/ Goto(h, "fenceInbox") \/ Goto(h, "fenceClaim")
      BY <2>3 DEF DispatchCandidate, Reserve, OpenAssignment, EnsureWorker, CreateAttempt,
         WriteInbox, Claim, GiveBack
    <3> QED
      BY <3>1, <3>2 DEF AtWork
  <2> QED
    BY <2>1, <2>2, <2>3
<1>4. CASE Stop(h)
  BY <1>0, <1>2, <1>4, Stops
<1>5. CASE UNCHANGED <<leader, ready>> /\ \E p \in AtWork : Goto(h, p)
  BY <1>0, <1>1, <1>2, <1>5, GoesTo
<1> QED
  BY <1>3, <1>4, <1>5

\* So does every other step of a hub.
LEMMA HubControl ==
  ASSUME IInv, NEW h \in Hubs,
         Acquire(h) \/ LoseLease(h) \/ Dies(h) \/ Tick(h) \/ JanitorStep(h)
  PROVE  ControlAfter(h)
<1> USE DEF IInv
<1>0. ControlType /\ fresh \subseteq Hubs
  BY DEF ControlType
<1>1. CASE Acquire(h)
  <2>1. "reconcile" \in Places \ AtWork
    BY DEF Places, AtWork
  <2>2. Goto(h, "reconcile") /\ leader' = h /\ ready' = ready /\ fresh' = fresh
    BY <1>1 DEF Acquire
  <2> QED
    BY <1>0, <2>1, <2>2, GoesOn
<1>2. CASE UNCHANGED <<pc, ready>> /\ leader' \in {leader, NoHub} /\ fresh' \subseteq Hubs
  BY <1>0, <1>2 DEF ControlAfter, ControlType, ReadyInv
<1>3. CASE LoseLease(h)
  BY <1>0, <1>2, <1>3 DEF LoseLease
<1>4. CASE Dies(h)
  <2>1. Stop(h) /\ fresh' \subseteq Hubs
    BY <1>0, <1>4 DEF Dies
  <2> QED
    BY <1>0, <2>1, Stops
<1>5. CASE TickStart(h)
  <2>1. "reconcile" \in Places \ AtWork
    BY DEF Places, AtWork
  <2>2. fresh' = fresh /\ (Stop(h) \/ (Goto(h, "reconcile") /\ UNCHANGED <<leader, ready>>))
    BY <1>5 DEF TickStart
  <2> QED
    BY <1>0, <2>1, <2>2, GoesTo, Stops
<1>6. CASE Startup(h)
  <2>1. fresh' \subseteq Hubs
    BY <1>0, <1>6 DEF Startup, ListForOrphans, ReconcileQueue, MarkReady, UpdateEntry
  <2>2. \/ Throw(h) \/ Stop(h)
        \/ Goto(h, "reconcileQueue") /\ UNCHANGED <<leader, ready>>
        \/ Goto(h, "align") /\ UNCHANGED <<leader, ready>>
        \/ Goto(h, "idle") /\ UNCHANGED leader /\ ready' = ready \cup {h}
    BY <1>6 DEF Startup, ListForOrphans, ReconcileQueue, MarkReady
  <2>3. {"reconcileQueue", "align"} \subseteq Places \ AtWork /\ "idle" \in Places
    BY DEF Places, AtWork
  <2>4. CASE Goto(h, "idle") /\ UNCHANGED leader /\ ready' = ready \cup {h}
    BY <1>0, <2>1, <2>3, <2>4, GoesOn
  <2> QED
    BY <1>0, <2>1, <2>2, <2>3, <2>4, GoesTo, Stops, Throws
<1>7. CASE JanitorStep(h)
  BY <1>0, <1>2, <1>7 DEF JanitorStep, JanitorList, JanitorRead, JanitorUpdate, JanitorSynthetic,
     UpdateEntry
<1> QED
  BY <1>1, <1>3, <1>4, <1>5, <1>6, <1>7, ReconcileControl, WorkControl DEF Tick

-------------------------------------------------------------------------------
(* What a step of a hub leaves in its memory.                                *)
MemoryAfter(h) ==
  /\ seen' \in [Hubs -> Memories] /\ Remembers(pc'[h], seen'[h], attempt')
  /\ \A g \in Hubs : g # h => seen'[g] = seen[g]

\* Going anywhere but to a decision, with no other outcome than before.
LEMMA ForgetsOrKeeps ==
  ASSUME IInv, ResultsKept, NEW h \in Hubs, pc'[h] \notin Deciding,
         UNCHANGED seen \/ Forget(h)
  PROVE  MemoryAfter(h)
<1>1. CASE UNCHANGED seen
  BY <1>1, DeliveredStays DEF IInv, MemoryType, MemoryInv, MemoryAfter, Remembers, Deciding
<1>2. CASE Forget(h)
  <2>1. /\ seen' \in [Hubs -> Memories] /\ seen'[h] = Nothing
        /\ \A g \in Hubs : g # h => seen'[g] = seen[g]
    BY <1>2, DispatchAssumption DEF Forget, Nothing, IInv, MemoryType, Memories
  <2>2. Delivered(attempt', Nothing.outcome)
    BY DEF Delivered, Nothing
  <2> QED
    BY <2>1, <2>2 DEF MemoryAfter, Remembers, Deciding
<1> QED
  BY <1>1, <1>2

\* Remembering an outcome.
LEMMA RemembersIt ==
  ASSUME IInv, ResultsKept, NEW h \in Hubs, NEW n \in 0 .. MaxAttempts,
         NEW o \in Terminal \cup {"none"}, Remember(h, n, o),
         Remembers(pc'[h], [n |-> n, outcome |-> o], attempt)
  PROVE  MemoryAfter(h)
<1>1. /\ seen' \in [Hubs -> Memories] /\ seen'[h] = [n |-> n, outcome |-> o]
      /\ \A g \in Hubs : g # h => seen'[g] = seen[g]
  BY DEF Remember, IInv, MemoryType, Memories
<1>2. Delivered(attempt', o)
  BY DeliveredStays DEF Remembers
<1>3. pc'[h] = "complete" => n \in Attempts /\ attempt'[n].result = o
  BY DEF Remembers, Deciding, ResultsKept, Terminal
<1> QED
  BY <1>1, <1>2, <1>3 DEF MemoryAfter, Remembers

\* A hub that stops or throws is not in the middle of deciding.
LEMMA NotDeciding ==
  ASSUME IInv, NEW h \in Hubs
  PROVE  /\ Stop(h) => pc'[h] \notin Deciding
         /\ Throw(h) => pc'[h] \notin Deciding
         /\ Goto(h, AfterReconcile(h)) => pc'[h] \notin Deciding
         /\ \A p : Goto(h, p) => pc'[h] = p
<1>1. \A p : Goto(h, p) => pc'[h] = p
  BY DEF Goto, IInv, ControlType
<1> QED
  BY <1>1 DEF Stop, Throw, AfterReconcile, Deciding

\* The reconciler remembers only what the store still says.
LEMMA ReconcileMemory ==
  ASSUME IInv, ResultsKept, NEW h \in Hubs, Reconcile(h) PROVE MemoryAfter(h)
<1> USE DEF IInv
<1>a. assignment.active \in 0 .. MaxAttempts
  BY DEF StoreType, Assignment
<1>b. \A n \in 0 .. MaxAttempts : n # 0 => n \in Attempts
  BY DispatchAssumption DEF Attempts
<1>1. CASE ListAssignments(h)
  <2> DEFINE p == ListedCase(AfterReconcile(h))
  <2>1. p \notin Deciding
    BY DEF ListedCase, AfterReconcile, Deciding
  <2>2. (Goto(h, p) \/ Throw(h)) /\ UNCHANGED seen
    BY <1>1 DEF ListAssignments
  <2> HIDE DEF p
  <2> QED
    BY <2>1, <2>2, NotDeciding, ForgetsOrKeeps
<1>2. CASE ReadAccepted(h)
  <2>1. CASE Goto(h, AfterReconcile(h)) /\ Forget(h)
    BY <2>1, NotDeciding, ForgetsOrKeeps
  <2>2. CASE Remember(h, assignment.active, "none") /\ pc'[h] \notin Deciding
    <3>1. Remembers(pc'[h], [n |-> assignment.active, outcome |-> "none"], attempt)
      BY <2>2 DEF Remembers, Deciding, Delivered
    <3> QED
      BY <1>a, <2>2, <3>1, RemembersIt
  <2>3. CASE Remember(h, assignment.active, "failed") /\ pc'[h] = "synthetic"
    <3>1. Remembers(pc'[h], [n |-> assignment.active, outcome |-> "failed"], attempt)
      BY <2>3 DEF Remembers, Delivered, Terminal
    <3> QED
      BY <1>a, <2>3, <3>1, RemembersIt DEF Terminal
  <2>4. \A p \in {"markRunning", "markClaimed"} : p \notin Deciding
    BY DEF Deciding
  <2> QED
    BY <1>2, <2>1, <2>2, <2>3, <2>4, NotDeciding DEF ReadAccepted
<1>3. CASE ReadResult(h)
  <2> DEFINE n == assignment.active
             o == attempt[n].status
  <2>1. CASE Goto(h, AfterReconcile(h)) /\ Forget(h)
    BY <2>1, NotDeciding, ForgetsOrKeeps
  <2>2. CASE Remember(h, n, "failed") /\ pc'[h] = "synthetic"
    <3>1. Remembers(pc'[h], [n |-> n, outcome |-> "failed"], attempt)
      BY <2>2 DEF Remembers, Delivered, Terminal
    <3> QED
      BY <1>a, <2>2, <3>1, RemembersIt DEF Terminal
  <2>3. CASE n # 0 /\ Decided(n) /\ Remember(h, n, o) /\ pc'[h] = "complete"
    <3>1. n \in Attempts /\ o \in Terminal /\ attempt[n].result = o
      BY <1>a, <1>b, <2>3 DEF RecordInv, Decided
    <3>2. Remembers(pc'[h], [n |-> n, outcome |-> o], attempt)
      BY <3>1 DEF Remembers, Delivered
    <3> HIDE DEF n, o
    <3> QED
      BY <1>a, <2>3, <3>1, <3>2, RemembersIt DEF n
  <2> QED
    BY <1>3, <2>1, <2>2, <2>3, NotDeciding DEF ReadResult
<1>4. CASE Compensate(h)
  <2> DEFINE n == assignment.active
             o == IF Decided(n) THEN attempt[n].status ELSE attempt[n].result
  <2>1. CASE Goto(h, AfterReconcile(h)) /\ Forget(h)
    BY <2>1, NotDeciding, ForgetsOrKeeps
  <2>2. CASE n # 0 /\ o # "none" /\ Remember(h, n, o) /\ pc'[h] = "finalize"
    <3>1. n \in Attempts /\ attempt[n].result = o
      BY <1>a, <1>b, <2>2 DEF RecordInv, Decided
    <3>2. o \in Terminal
      BY <2>2, <3>1 DEF StoreType, Attempt
    <3> HIDE DEF n, o
    <3>3. Remembers(pc'[h], [n |-> n, outcome |-> o], attempt)
      BY <2>2, <3>1, <3>2 DEF Remembers, Delivered
    <3> QED
      BY <1>a, <2>2, <3>2, <3>3, RemembersIt DEF n
  <2> QED
    BY <1>4, <2>1, <2>2, NotDeciding DEF Compensate
<1>5. CASE MarkRunning(h) \/ MarkInProgress(h) \/ UpdateQueue(h) \/ MarkFinalized(h) \/ FinalizeWorker(h)
  <2>1. UNCHANGED seen \/ Forget(h)
    BY <1>5 DEF MarkRunning, MarkInProgress, UpdateQueue, MarkFinalized, FinalizeWorker
  <2>2. \/ Throw(h) \/ Goto(h, AfterReconcile(h))
        \/ \E p \in {"inProgress", "markFinalized", "finalizeWorker", "markWorker"} : Goto(h, p)
    BY <1>5 DEF MarkRunning, MarkInProgress, UpdateQueue, MarkFinalized, FinalizeWorker
  <2>3. pc'[h] \notin Deciding
    BY <2>2, NotDeciding DEF Deciding
  <2> QED
    BY <2>1, <2>3, ForgetsOrKeeps
<1>6. CASE CompleteAttempt(h) \/ WriteSyntheticFailure(h) \/ GuardLeader(h)
  <2>1. CASE Throw(h) /\ Forget(h)
    BY <2>1, NotDeciding, ForgetsOrKeeps
  <2>2. CASE UNCHANGED seen /\ pc'[h] \in {"finalize", "updateQueue"}
    <3>1. pc[h] \in Deciding
      BY <1>6 DEF CompleteAttempt, WriteSyntheticFailure, GuardLeader, Deciding
    <3>2. Remembers(pc[h], seen[h], attempt)
      BY DEF MemoryInv
    <3> QED
      BY <2>2, <3>1, <3>2, DeliveredStays DEF MemoryAfter, MemoryType, Remembers
  <2> QED
    BY <1>6, <2>1, <2>2, NotDeciding DEF CompleteAttempt, WriteSyntheticFailure, GuardLeader
<1> QED
  BY <1>1, <1>2, <1>3, <1>4, <1>5, <1>6 DEF Reconcile

\* So does every other step of a hub.
LEMMA HubMemory ==
  ASSUME IInv, ResultsKept, NEW h \in Hubs,
         Acquire(h) \/ LoseLease(h) \/ Dies(h) \/ Tick(h) \/ JanitorStep(h)
  PROVE  MemoryAfter(h)
<1> USE DEF IInv
<1>a. assignment.active \in 0 .. MaxAttempts
  BY DEF StoreType, Assignment
<1>1. CASE Acquire(h) \/ Dies(h) \/ TickStart(h) \/ ReconcileQueue(h) \/ MarkReady(h)
  <2>1. UNCHANGED seen \/ Forget(h)
    BY <1>1 DEF Acquire, Dies, TickStart, ReconcileQueue, MarkReady
  <2>2. Stop(h) \/ \E p \in {"reconcile", "align", "idle"} : Goto(h, p)
    BY <1>1 DEF Acquire, Dies, TickStart, ReconcileQueue, MarkReady
  <2>3. pc'[h] \notin Deciding
    BY <2>2, NotDeciding DEF Deciding
  <2> QED
    BY <2>1, <2>3, ForgetsOrKeeps
<1>2. CASE LoseLease(h) \/ JanitorStep(h)
  <2>1. UNCHANGED <<pc, seen>>
    BY <1>2 DEF LoseLease, JanitorStep, JanitorList, JanitorRead, JanitorUpdate, JanitorSynthetic
  <2>2. Remembers(pc[h], seen[h], attempt)
    BY DEF MemoryInv
  <2>3. Remembers(pc[h], seen[h], attempt')
    BY <2>2, DeliveredStays DEF Remembers, ResultsKept, Terminal, Deciding
  <2> QED
    BY <2>1, <2>3 DEF MemoryAfter, MemoryType
<1>3. CASE ListForOrphans(h)
  <2>1. CASE leader # h
    BY <1>3, <2>1, NotDeciding, ForgetsOrKeeps DEF ListForOrphans
  <2>2. CASE leader = h
    <3> DEFINE o == CASE assignment.status = "absent" -> "failed"
                      [] assignment.status \in {"completed", "failed"} -> assignment.status
                      [] OTHER -> "none"
    <3>1. Remember(h, 0, o) /\ Goto(h, "reconcileQueue")
      BY <1>3, <2>2 DEF ListForOrphans
    <3>2. o \in Terminal \cup {"none"} /\ Delivered(attempt, o)
      BY DEF Terminal, RecordInv, Delivered
    <3> HIDE DEF o
    <3>3. pc'[h] = "reconcileQueue"
      BY <3>1, NotDeciding
    <3>4. Remembers(pc'[h], [n |-> 0, outcome |-> o], attempt)
      BY <3>2, <3>3 DEF Remembers, Deciding
    <3>5. 0 \in 0 .. MaxAttempts
      BY DispatchAssumption
    <3> QED
      BY <3>1, <3>2, <3>4, <3>5, RemembersIt
  <2> QED
    BY <2>1, <2>2
<1>4. CASE CreateAttempt(h)
  <2>1. Remember(h, assignment.active + 1, "none") /\ Goto(h, "fenceInbox")
    BY <1>4 DEF CreateAttempt
  <2>2. assignment.active + 1 \in 0 .. MaxAttempts
    BY <1>a, <1>4, DispatchAssumption DEF CreateAttempt
  <2>3. pc'[h] = "fenceInbox"
    BY <2>1, NotDeciding
  <2> DEFINE n == assignment.active + 1
  <2>4. Remembers(pc'[h], [n |-> n, outcome |-> "none"], attempt)
    BY <2>3 DEF Remembers, Deciding, Delivered
  <2> HIDE DEF n
  <2> QED
    BY <2>1, <2>2, <2>4, RemembersIt DEF n
<1>5. CASE (Schedule(h) \/ DispatchCandidate(h)) /\ ~CreateAttempt(h)
  <2>1. UNCHANGED seen \/ Forget(h)
    BY <1>5 DEF Schedule, FindStaleClaim, JudgeClaim, RefreshClaim, ResetClaim, NextCandidate,
       DispatchCandidate, Fence, Reserve, OpenAssignment, EnsureWorker, WriteInbox, Claim, GiveBack
  <2>2. Stop(h) \/ \E p \in AtWork : Goto(h, p)
    BY <1>5 DEF Schedule, FindStaleClaim, JudgeClaim, RefreshClaim, ResetClaim, NextCandidate,
       DispatchCandidate, Fence, Reserve, OpenAssignment, EnsureWorker, WriteInbox, Claim, GiveBack,
       AtWork
  <2>3. pc'[h] \notin Deciding
    BY <2>2, NotDeciding DEF Deciding, AtWork
  <2> QED
    BY <2>1, <2>3, ForgetsOrKeeps
<1> QED
  BY <1>1, <1>2, <1>3, <1>4, <1>5, ReconcileMemory DEF Tick, Startup

\* The janitor, and what the hub's start leaves for it.
LEMMA HubJanitor ==
  ASSUME IInv, ResultsKept, NEW h \in Hubs,
         Acquire(h) \/ LoseLease(h) \/ Dies(h) \/ Tick(h) \/ JanitorStep(h)
  PROVE  /\ janitor' \in [Hubs -> Janitors] /\ Delivered(attempt', janitor'[h].step)
         /\ \A g \in Hubs : g # h => janitor'[g] = janitor[g]
<1> USE DEF IInv
<1>1. CASE UNCHANGED janitor
  BY <1>1, DeliveredStays DEF MemoryInv, MemoryType
<1>2. ASSUME NEW j \in Janitors, janitor' = [janitor EXCEPT ![h] = j], Delivered(attempt, j.step)
      PROVE  /\ janitor' \in [Hubs -> Janitors] /\ Delivered(attempt', janitor'[h].step)
             /\ \A g \in Hubs : g # h => janitor'[g] = janitor[g]
  BY <1>2, DeliveredStays DEF MemoryType
<1>3. ASSUME NEW s \in {"idle", "list", "read", "pending", "completed", "failed"},
             Janitor(h, s), Delivered(attempt, s)
      PROVE  /\ janitor' \in [Hubs -> Janitors] /\ Delivered(attempt', janitor'[h].step)
             /\ \A g \in Hubs : g # h => janitor'[g] = janitor[g]
  <2> DEFINE j == [janitor[h] EXCEPT !.step = s]
  <2>1. j \in Janitors /\ j.step = s
    BY DEF MemoryType, Janitors
  <2>2. janitor' = [janitor EXCEPT ![h] = j]
    BY <1>3 DEF Janitor, MemoryType
  <2> HIDE DEF j
  <2> QED
    BY <1>2, <1>3, <2>1, <2>2
<1>4. Resting \in Janitors /\ Delivered(attempt, Resting.step)
  BY DispatchAssumption DEF Resting, Janitors, Delivered
<1>5. \A s \in {"idle", "list", "read", "synthetic", "pending", "failed"} : Delivered(attempt, s)
  BY DEF Delivered
<1>6. CASE Acquire(h) \/ LoseLease(h)
  BY <1>1, <1>6 DEF Acquire, LoseLease
<1>7. CASE Dies(h)
  BY <1>2, <1>4, <1>7 DEF Dies
<1>8. CASE Tick(h)
  <2>1. UNCHANGED janitor \/ Janitor(h, "list")
    BY <1>8 DEF Tick, TickStart, Reconcile, ListAssignments, ReadAccepted, ReadResult, Compensate,
       MarkRunning, MarkInProgress, CompleteAttempt, WriteSyntheticFailure, GuardLeader, UpdateQueue,
       MarkFinalized, FinalizeWorker, Startup, ListForOrphans, ReconcileQueue, MarkReady, Schedule,
       FindStaleClaim, JudgeClaim, RefreshClaim, ResetClaim, NextCandidate, DispatchCandidate, Fence,
       Reserve, OpenAssignment, EnsureWorker, CreateAttempt, WriteInbox, Claim, GiveBack, Janitor
  <2> QED
    BY <1>1, <1>3, <1>5, <2>1
<1>9. CASE JanitorList(h) \/ JanitorSynthetic(h)
  <2>1. Janitor(h, "read") \/ Janitor(h, "idle") \/ Janitor(h, "failed")
    BY <1>9 DEF JanitorList, JanitorSynthetic
  <2> QED
    BY <1>3, <1>5, <2>1
<1>10. CASE JanitorRead(h)
  <2>1. CASE Janitor(h, "pending") \/ Janitor(h, "idle")
    BY <1>3, <1>5, <2>1
  <2>2. CASE assignment.status \in {"completed", "failed"} /\ Janitor(h, assignment.status)
    BY <1>3, <2>2 DEF RecordInv
  <2>3. CASE janitor' = [janitor EXCEPT ![h] = [step |-> "synthetic", n |-> assignment.active]]
    <3> DEFINE j == [step |-> "synthetic", n |-> assignment.active]
    <3>1. j \in Janitors /\ j.step = "synthetic"
      BY DEF StoreType, Assignment, Janitors
    <3>2. janitor' = [janitor EXCEPT ![h] = j]
      BY <2>3
    <3> HIDE DEF j
    <3> QED
      BY <1>2, <1>5, <3>1, <3>2
  <2> QED
    BY <1>10, <2>1, <2>2, <2>3 DEF JanitorRead
<1>11. CASE JanitorUpdate(h)
  BY <1>2, <1>4, <1>11 DEF JanitorUpdate
<1> QED
  BY <1>6, <1>7, <1>8, <1>9, <1>10, <1>11 DEF JanitorStep

-------------------------------------------------------------------------------
(* The entry.  Who writes it writes what it remembers, and what it remembers *)
(* was delivered.                                                            *)
LEMMA HubEntry ==
  ASSUME IInv, NEW h \in Hubs,
         Acquire(h) \/ LoseLease(h) \/ Dies(h) \/ Tick(h) \/ JanitorStep(h)
  PROVE  EntryType' /\ Delivered(attempt, entry')
<1> USE DEF IInv
<1>1. CASE UNCHANGED entry
  BY <1>1 DEF EntryType
<1>2. CASE UpdateQueue(h)
  <2>1. seen[h].outcome \in Terminal /\ Delivered(attempt, seen[h].outcome)
    BY <1>2 DEF UpdateQueue, MemoryInv, Remembers, Deciding
  <2>2. entry' \in EntryStatuses(seen[h].outcome)
    BY <1>2 DEF UpdateQueue, UpdateEntry
  <2>3. /\ entry' \in Terminal \cup {"pending"}
        /\ entry' \in {"completed", "cancelled"} => entry' = seen[h].outcome
    BY <2>1, <2>2 DEF EntryStatuses, Terminal
  <2> QED
    BY <2>1, <2>3 DEF EntryType, Delivered
<1>3. CASE ReconcileQueue(h)
  <2>1. CASE entry' = seen[h].outcome /\ seen[h].outcome # "none"
    BY <2>1 DEF MemoryInv, Remembers, MemoryType, Memories, EntryType
  <2> QED
    BY <1>1, <1>3, <2>1 DEF ReconcileQueue, UpdateEntry
<1>4. CASE JanitorUpdate(h)
  <2>1. entry' = janitor[h].step /\ janitor[h].step \in {"pending", "completed", "failed"}
    BY <1>4 DEF JanitorUpdate, UpdateEntry
  <2> QED
    BY <2>1 DEF MemoryInv, EntryType, Terminal
<1>5. CASE MarkInProgress(h) \/ ResetClaim(h) \/ GiveBack(h) \/ Reserve(h)
  <2>1. UNCHANGED entry \/ entry' \in {"in_progress", "pending", "scheduled"}
    BY <1>5 DEF MarkInProgress, ResetClaim, GiveBack, Reserve, UpdateEntry
  <2> QED
    BY <1>1, <2>1 DEF EntryType, Delivered
<1>6. CASE Acquire(h) \/ LoseLease(h) \/ Dies(h)
  BY <1>1, <1>6 DEF Acquire, LoseLease, Dies
<1>7. CASE Reconcile(h) /\ ~UpdateQueue(h) /\ ~MarkInProgress(h)
  BY <1>1, <1>7 DEF Reconcile, ListAssignments, ReadAccepted, ReadResult, Compensate, MarkRunning,
     CompleteAttempt, WriteSyntheticFailure, GuardLeader, MarkFinalized, FinalizeWorker
<1>8. CASE \/ TickStart(h) \/ ListForOrphans(h) \/ MarkReady(h) \/ JanitorList(h)
           \/ JanitorRead(h) \/ JanitorSynthetic(h)
  BY <1>1, <1>8 DEF TickStart, ListForOrphans, MarkReady, JanitorList, JanitorRead, JanitorSynthetic
<1>9. CASE (Schedule(h) \/ DispatchCandidate(h)) /\ ~ResetClaim(h) /\ ~GiveBack(h) /\ ~Reserve(h)
  BY <1>1, <1>9 DEF Schedule, FindStaleClaim, JudgeClaim, RefreshClaim, NextCandidate,
     DispatchCandidate, Fence, OpenAssignment, EnsureWorker, CreateAttempt, WriteInbox, Claim
<1> QED
  BY <1>2, <1>3, <1>4, <1>5, <1>6, <1>7, <1>8, <1>9 DEF Tick, Startup, JanitorStep

-------------------------------------------------------------------------------
(* The invariant is inductive.                                               *)
LEMMA Initially == Init => IInv
<1> SUFFICES ASSUME Init PROVE IInv
  OBVIOUS
<1> USE DispatchAssumption DEF Init
<1>1. ControlType /\ ReadyInv
  BY DEF ControlType, Places, ReadyInv, AtWork
<1>2. MemoryType
  BY DEF MemoryType, Memories, Janitors, Nothing, Resting
<1>3. StoreType /\ EntryType
  BY DEF StoreType, EntryType, Assignment, Attempt, NoAssignment, NoAttempt, Workers
<1>4. RecordInv
  BY DEF RecordInv, Decided, NoAttempt, NoAssignment, Terminal, Delivered
<1>5. MemoryInv /\ Delivered(attempt, entry)
  BY DEF MemoryInv, Remembers, Deciding, Delivered, Nothing, Resting
<1> QED
  BY <1>1, <1>2, <1>3, <1>4, <1>5 DEF IInv

\* Every step of a hub keeps the invariant.
LEMMA HubKeeps ==
  ASSUME IInv, NEW h \in Hubs,
         Acquire(h) \/ LoseLease(h) \/ Dies(h) \/ Tick(h) \/ JanitorStep(h)
  PROVE  IInv'
<1>1. /\ StoreStep /\ worker' \in [Attempts -> Workers]
      /\ \A n \in Attempts : worker'[n] = "published" => worker[n] = "published"
  <2>1. CASE Acquire(h) \/ LoseLease(h) \/ Dies(h)
    BY <2>1 DEF Acquire, LoseLease, Dies, StoreStep, Kept, IInv, StoreType
  <2> QED
    BY <2>1, HubStore
<1>2. StoreAfter
  BY <1>1, StoreKept
<1>3. ResultsKept
  BY <1>2 DEF StoreAfter
<1>4. ControlType' /\ ReadyInv'
  BY HubControl DEF ControlAfter, ReadyInv, IInv
<1>5. StoreType'
  BY <1>1, <1>2 DEF StoreAfter, StoreType
<1>6. RecordInv'
  BY <1>1, <1>2, <1>3 DEF StoreAfter, RecordInv, Decided, ResultsKept, IInv
<1>7. MemoryType'
  BY <1>3, HubMemory, HubJanitor DEF MemoryAfter, MemoryType
<1>8. MemoryInv'
  <2> SUFFICES ASSUME NEW g \in Hubs
               PROVE  Remembers(pc'[g], seen'[g], attempt') /\ Delivered(attempt', janitor'[g].step)
    BY DEF MemoryInv
  <2>1. CASE g = h
    BY <1>3, <2>1, HubMemory, HubJanitor DEF MemoryAfter
  <2>2. CASE g # h
    <3>1. pc'[g] = pc[g] /\ seen'[g] = seen[g] /\ janitor'[g] = janitor[g]
      BY <1>3, <2>2, HubControl, HubMemory, HubJanitor DEF ControlAfter, MemoryAfter
    <3>2. Remembers(pc[g], seen[g], attempt) /\ Delivered(attempt, janitor[g].step)
      BY DEF IInv, MemoryInv
    <3> QED
      BY <1>3, <3>1, <3>2, DeliveredStays DEF Remembers, Deciding, ResultsKept, Terminal
  <2> QED
    BY <2>1, <2>2
<1>9. EntryType' /\ Delivered(attempt', entry')
  BY <1>3, HubEntry, DeliveredStays
<1> QED
  BY <1>4, <1>5, <1>6, <1>7, <1>8, <1>9 DEF IInv

\* Every step of a worker keeps the invariant.
LEMMA WorkerKeeps ==
  ASSUME IInv, NEW n \in Attempts, WorkerStep(n) \/ WorkerDies(n) PROVE IInv'
<1>1. /\ StoreStep /\ worker' \in [Attempts -> Workers]
      /\ \A m \in Attempts :
           worker'[m] = "published" => worker[m] = "published" \/ attempt'[m].result # "none"
      /\ UNCHANGED <<entry, fresh, leader, pc, ready, seen, janitor>>
  BY WorkerStore DEF hubVars
<1>2. StoreAfter
  BY <1>1, StoreKept
<1>3. ResultsKept
  BY <1>2 DEF StoreAfter
<1>4. ControlType' /\ ReadyInv' /\ MemoryType' /\ EntryType'
  BY <1>1 DEF IInv, ControlType, ReadyInv, MemoryType, EntryType
<1>5. StoreType'
  BY <1>1, <1>2 DEF StoreAfter, StoreType
<1>6. RecordInv'
  BY <1>1, <1>2, <1>3 DEF StoreAfter, RecordInv, Decided, ResultsKept, IInv
<1>7. MemoryInv'
  <2> SUFFICES ASSUME NEW g \in Hubs
               PROVE  Remembers(pc'[g], seen'[g], attempt') /\ Delivered(attempt', janitor'[g].step)
    BY DEF MemoryInv
  <2>1. Remembers(pc[g], seen[g], attempt) /\ Delivered(attempt, janitor[g].step)
    BY DEF IInv, MemoryInv
  <2> QED
    BY <1>1, <1>3, <2>1, DeliveredStays DEF Remembers, Deciding, ResultsKept, Terminal
<1>8. Delivered(attempt', entry')
  BY <1>1, <1>3, DeliveredStays DEF IInv
<1> QED
  BY <1>4, <1>5, <1>6, <1>7, <1>8 DEF IInv

\* A step that changes nothing keeps the invariant.
LEMMA Stuttering == ASSUME IInv, UNCHANGED vars PROVE IInv'
BY DEF vars, IInv, ControlType, MemoryType, StoreType, EntryType, ReadyInv, RecordInv, Decided,
   MemoryInv

\* What the hubs and workers of one entry keep true between them.
THEOREM Inductive == Spec => []IInv
<1>1. IInv /\ [Next]_vars => IInv'
  BY HubKeeps, WorkerKeeps, Stuttering DEF Next
<1> QED
  BY <1>1, Initially, PTL DEF Spec

\* Every reachable state is well typed, for any hubs and number of attempts.
THEOREM TypeCorrect == Spec => []TypeOK
<1>1. IInv => TypeOK
  BY TypeParts DEF IInv
<1> QED
  BY <1>1, Inductive, PTL

\* No overlap of hubs, stale janitor pass or restart completes or cancels an entry
\* for which no worker delivered that outcome.
THEOREM OutcomesAreDelivered == Spec => []OutcomesDelivered
<1>1. IInv => OutcomesDelivered
  BY DEF IInv, Delivered, OutcomesDelivered
<1> QED
  BY <1>1, Inductive, PTL

\* A hub dispatches nothing before its start has been through what it inherits.
THEOREM RecoveryComesFirst == Spec => []RecoversFirst
<1>1. IInv => RecoversFirst
  BY DEF IInv, ReadyInv, AtWork, RecoversFirst
<1> QED
  BY <1>1, Inductive, PTL

-------------------------------------------------------------------------------
(* The refinement.  `chosen' is the result of each attempt, `learned' its    *)
(* status once it is a terminal one.                                         *)
Learned(n) == IF Decided(n) THEN attempt[n].status ELSE "none"

\* What the ledger does not see does not move it.
LEMMA LedgerStutters ==
  ASSUME assignment'.active = assignment.active,
         \A n \in Attempts : attempt'[n].result = attempt[n].result /\ Learned(n)' = Learned(n)
  PROVE  UNCHANGED Ledger!ledger
BY DEF Ledger!ledger, Learned

\* Every store operation is a step of the ledger, or none.
LEMMA StoreSimulation ==
  ASSUME IInv, StoreStep PROVE [Ledger!Next]_(Ledger!ledger)
<1> USE DEF IInv
<1>0. attempt \in [Attempts -> Attempt] /\ assignment \in Assignment /\ "none" \notin Terminal
  BY DEF StoreType, Terminal
<1>1. CASE Kept
  BY <1>1, LedgerStutters DEF Kept, Learned, Decided
<1>2. ASSUME NEW n \in Attempts, Accepts(n) PROVE UNCHANGED Ledger!ledger
  <2>1. \A m \in Attempts : attempt'[m].result = attempt[m].result
                            /\ attempt'[m].status = attempt[m].status
    BY <1>0, <1>2 DEF Accepts, Attempt
  <2> QED
    BY <1>2, <2>1, LedgerStutters DEF Accepts, Learned, Decided
<1>3. ASSUME NEW n \in Attempts, Runs(n) PROVE UNCHANGED Ledger!ledger
  <2>1. /\ \A m \in Attempts : attempt'[m].result = attempt[m].result
        /\ \A m \in Attempts : m # n => attempt'[m].status = attempt[m].status
        /\ attempt[n].status \notin Terminal /\ attempt'[n].status \notin Terminal
    BY <1>0, <1>3 DEF Runs, MayRun, SetRunning, Attempt, Terminal
  <2>2. assignment'.active = assignment.active
    BY <1>0, <1>3 DEF Runs, SetRunning, Assignment
  <2>3. \A m \in Attempts : Learned(m)' = Learned(m)
    BY <2>1 DEF Learned, Decided
  <2> QED
    BY <2>1, <2>2, <2>3, LedgerStutters
<1>4. ASSUME NEW n \in Attempts, Records(n) PROVE [Ledger!Next]_(Ledger!ledger)
  <2>1. CASE IsTerminal
    <3>1. UNCHANGED <<assignment, attempt>>
      BY <1>4, <2>1 DEF Records, Complete
    <3> QED
      BY <3>1, LedgerStutters DEF Learned, Decided
  <2>2. CASE ~IsTerminal
    <3> DEFINE o == attempt[n].result
    <3>1. /\ o \in Terminal /\ n = assignment.active
          /\ attempt'[n].status = o /\ attempt'[n].result = o
          /\ \A m \in Attempts : m # n => attempt'[m] = attempt[m]
          /\ assignment'.active = assignment.active
      BY <1>0, <1>4, <2>2 DEF Records, Complete, Active, Attempt, Assignment
    <3>2. Learned(n)' = o
      BY <3>1 DEF Learned, Decided
    <3>3. CASE Decided(n)
      <4>1. Learned(n) = o
        BY <3>3 DEF Learned, RecordInv
      <4>2. \A m \in Attempts : attempt'[m].result = attempt[m].result /\ Learned(m)' = Learned(m)
        BY <3>1, <3>2, <4>1 DEF Learned, Decided
      <4> QED
        BY <3>1, <4>2, LedgerStutters
    <3>4. CASE ~Decided(n)
      <4>1. Learned(n) = "none"
        BY <3>4 DEF Learned
      <4>2. Ledger!Learn(n)
        BY <1>0, <3>1, <3>2, <4>1 DEF Ledger!Learn, Ledger!None, Learned, Decided
      <4> QED
        BY <4>2 DEF Ledger!Next, Ledger!Attempts, Attempts
    <3> QED
      BY <3>3, <3>4
  <2> QED
    BY <2>1, <2>2
<1>5. ASSUME NEW n \in Attempts, Fails(n) PROVE [Ledger!Next]_(Ledger!ledger)
  <2>1. CASE attempt[n].result # "none"
    <3>1. UNCHANGED <<assignment, attempt>>
      BY <1>5, <2>1 DEF Fails, SyntheticFailure
    <3> QED
      BY <3>1, LedgerStutters DEF Learned, Decided
  <2>2. CASE attempt[n].result = "none"
    <3>1. /\ n = assignment.active
          /\ attempt'[n].status = "failed" /\ attempt'[n].result = "failed"
          /\ \A m \in Attempts : m # n => attempt'[m] = attempt[m]
          /\ assignment'.active = assignment.active
      BY <1>0, <1>5, <2>2 DEF Fails, SyntheticFailure, Active, Attempt, Assignment
    <3>2. ~Decided(n)
      BY <1>0, <2>2 DEF RecordInv, Decided
    <3>3. "failed" \in Terminal
      BY DEF Terminal
    <3>4. Ledger!Decide(n, "failed")
      BY <1>0, <2>2, <3>1, <3>2, <3>3 DEF Ledger!Decide, Ledger!None, Decided
    <3> QED
      BY <3>3, <3>4 DEF Ledger!Next, Ledger!Attempts, Attempts
  <2> QED
    BY <2>1, <2>2
<1>6. ASSUME NEW n \in Attempts, Creates(n) PROVE [Ledger!Next]_(Ledger!ledger)
  <2>1. attempt[n] = NoAttempt
    BY <1>0, <1>6, DispatchAssumption DEF Creates, RecordInv, Assignment
  <2>2. /\ \A m \in Attempts : attempt'[m].result = attempt[m].result
        /\ \A m \in Attempts : m # n => attempt'[m].status = attempt[m].status
        /\ attempt'[n].status = "assigned" /\ attempt[n].status = "none"
    BY <1>0, <1>6, <2>1 DEF Creates, Attempt, NoAttempt
  <2>3. \A m \in Attempts : Learned(m)' = Learned(m)
    BY <2>2 DEF Learned, Decided, Terminal
  <2>4. assignment'.active = assignment.active + 1
    BY <1>0, <1>6 DEF Creates, Assignment
  <2>5. assignment.active < MaxAttempts
    BY <1>0, <1>6, DispatchAssumption DEF Creates, Attempts, Assignment
  <2>6. Ledger!NewAttempt
    BY <2>2, <2>3, <2>4, <2>5 DEF Ledger!NewAttempt, Learned
  <2> QED
    BY <2>6 DEF Ledger!Next
<1>7. ASSUME NEW n \in Attempts, NEW o \in Terminal, Publishes(n, o)
      PROVE  [Ledger!Next]_(Ledger!ledger)
  <2>1. /\ attempt[n].result = "none" /\ attempt'[n].result = o /\ n <= assignment.active
        /\ \A m \in Attempts : /\ m # n => attempt'[m] = attempt[m]
                               /\ attempt'[m].status = attempt[m].status
        /\ UNCHANGED assignment
    BY <1>0, <1>7, DispatchAssumption DEF Publishes, Active, Attempt, Assignment
  <2>2. \A m \in Attempts : Learned(m)' = Learned(m)
    BY <2>1 DEF Learned, Decided
  <2>3. Ledger!Choose(n, o)
    BY <1>0, <2>1, <2>2 DEF Ledger!Choose, Ledger!None, Learned
  <2> QED
    BY <2>3 DEF Ledger!Next, Ledger!Attempts, Attempts
<1> QED
  BY <1>1, <1>2, <1>3, <1>4, <1>5, <1>6, <1>7 DEF StoreStep

\* Whatever the hubs and workers do with it, the store implements the ledger.
THEOREM DispatchImplementsLedger == Spec => ImplementsLedger
<1>1. Init => Ledger!Init
  BY DEF Init, Ledger!Init, Ledger!None, Ledger!Attempts, Attempts, NoAssignment, NoAttempt,
     Decided, Terminal
<1>2. IInv /\ [Next]_vars => [Ledger!Next]_(Ledger!ledger)
  <2> SUFFICES ASSUME IInv, [Next]_vars PROVE [Ledger!Next]_(Ledger!ledger)
    OBVIOUS
  <2>1. CASE UNCHANGED vars
    BY <2>1, LedgerStutters DEF vars, Learned, Decided
  <2>2. ASSUME NEW h \in Hubs, Acquire(h) \/ LoseLease(h) \/ Dies(h)
        PROVE  UNCHANGED Ledger!ledger
    BY <2>2, LedgerStutters DEF Acquire, LoseLease, Dies, Learned, Decided
  <2>3. ASSUME NEW h \in Hubs, Tick(h) \/ JanitorStep(h) PROVE StoreStep
    BY <2>3, HubStore
  <2>4. ASSUME NEW n \in Attempts, WorkerStep(n) \/ WorkerDies(n) PROVE StoreStep
    BY <2>4, WorkerStore
  <2> QED
    BY <2>1, <2>2, <2>3, <2>4, StoreSimulation DEF Next
<1> QED
  BY <1>1, <1>2, Inductive, PTL DEF Spec, ImplementsLedger, Ledger!Spec
===============================================================================
